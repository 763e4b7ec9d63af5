--------------------------- MODULE SmsInboxProofs ---------------------------
(***************************************************************************)
(* Theorems about SmsInbox, for any messages, storage, deliveries,         *)
(* failures and crashes.                                                   *)
(***************************************************************************)
EXTENDS SmsInbox, TLAPS

Resting == {"idle", "list", "next"}

\* The engine works on an entry that the modem still has, and stores it before anything else.
EntryOK ==
    /\ \A s \in todo : inbox[s] # NoPdu
    /\ pc \notin Resting => slot \in Slots /\ slot \notin todo /\ inbox[slot] = raw
    /\ pc \notin Resting \union {"store"} => Exists(raw)
    /\ pc = "assemble" => IsPending(raw) /\ Total[raw.msg] > 1

\* Long messages that wait under one key have met.
MetOK ==
    /\ \A s \in pending : Total[s.pdu.msg] > 1
    /\ \A p, q \in Pdus : Waits(p) /\ Waits(q) /\ KeyOf(p) = KeyOf(q) /\ p.msg # q.msg =>
          p.msg \in met

\* What is linked next is in the row.
LinksOK == LinksAreSound /\ (pc = "link" => completed \subseteq message[raw])

\* What is inserted next is a whole message.
WholeOK ==
    RowsAreWhole /\ (pc = "insert" => completed = PartsOf(raw.msg) \/ raw.msg \in met)

\* While nothing has expired, what was assembled is stored, and a message that has a row is
\* not assembled again.
RetainedOK ==
    clock <= Retention =>
        /\ \A s \in pending : Exists(s.pdu)
        /\ \A p \in completed : Exists(p)
        /\ \A h \in Pdus : \A p \in message[h] : Exists(p)
        /\ pc \in {"assemble", "insert"} /\ raw.msg \notin met =>
              \A g \in Pdus : g.msg = raw.msg => message[g] = {}
        /\ \A g, h \in Pdus :
              message[g] # {} /\ message[h] # {} /\ g.msg = h.msg => g = h \/ g.msg \in met

\* The inductive invariant.
IInv == TypeOK /\ EntryOK /\ MetOK /\ LinksOK /\ WholeOK /\ RetainedOK

-----------------------------------------------------------------------------
(* Parts of messages.                                                      *)

LEMMA PduFacts ==
    /\ \A p \in Pdus : p.msg \in Messages /\ p.part \in 1 .. Total[p.msg] /\ p \in PartsOf(p.msg)
    /\ \A m \in Messages : \A p \in PartsOf(m) : p \in Pdus /\ p.msg = m
    /\ \A p, q \in Pdus : p.msg = q.msg /\ p.part = q.part => p = q
    /\ NoPdu \notin Pdus /\ Unlinked \notin Pdus
BY NullsAreNew DEF Pdus, PartsOf

LEMMA SegmentFacts ==
    /\ \A t \in Times, l \in Pdus \union {Unlinked} : [at |-> t, link |-> l] \in SegmentRow
    /\ \A row \in SegmentRow, l \in Pdus \union {Unlinked} :
          [row EXCEPT !.link = l] \in SegmentRow /\ [row EXCEPT !.link = l].link = l
    /\ NoRow \notin SegmentRow
BY RowsAreNotNull DEF SegmentRow

LEMMA InitHolds == Init => IInv
<1> SUFFICES ASSUME Init PROVE IInv
  OBVIOUS
<1> USE InboxConstants, NullsAreNew DEF Init
<1>1. TypeOK
  BY DEF TypeOK, PCs, Times
<1>2. EntryOK /\ LinksOK
  BY DEF EntryOK, LinksOK, LinksAreSound, Exists, Resting
<1>3. WholeOK /\ RetainedOK /\ MetOK
  BY DEF WholeOK, RetainedOK, RowsAreWhole, MetOK, Waits, IsPending, Exists
<1> QED BY <1>1, <1>2, <1>3 DEF IInv

\* What is unfinished after a step in which nothing is added was so before.
LEMMA MetStays ==
    ASSUME MetOK, pending' \subseteq pending, met' = met,
           \A p \in Pdus : IsPending(p)' => IsPending(p)
    PROVE  MetOK'
<1>1. \A p \in Pdus : Waits(p)' => Waits(p)
  BY DEF Waits
<1> QED BY <1>1 DEF MetOK, KeyOf

\* A message that is complete has each of its parts, if it has met no other.
LEMMA CompleteIsWhole ==
    ASSUME MetOK, NEW p \in Pdus, p.msg \notin met, Waits(p), NEW S,
           \A s \in S : s.pdu \in Pdus /\ KeyOf(s.pdu) = KeyOf(p) /\ Waits(s.pdu),
           Assembled(p, S)
    PROVE  \A q : q \in PartsOf(p.msg) <=> \E s \in S : s.pdu = q
<1>1. \A s \in S : s.pdu.msg = p.msg
  BY DEF MetOK
<1>2. \A s \in S : s.pdu \in PartsOf(p.msg)
  BY <1>1, PduFacts
<1>3. ASSUME NEW q \in PartsOf(p.msg) PROVE \E s \in S : s.pdu = q
  <2>1. q \in Pdus /\ q.msg = p.msg /\ q.part \in 1 .. Total[p.msg]
    BY PduFacts
  <2>2. PICK s \in S : s.pdu.part = q.part
    BY <2>1 DEF Assembled, PartNos
  <2>3. s.pdu = q
    BY <1>1, <2>1, <2>2, PduFacts
  <2> QED BY <2>3
<1> QED BY <1>2, <1>3

-----------------------------------------------------------------------------
(* The network, time and crashes.                                          *)

LEMMA DeliverKeeps ==
    ASSUME IInv, NEW p \in Pdus, NEW s \in Slots, Deliver(p, s) PROVE IInv'
<1> USE PduFacts, InboxConstants DEF IInv, Deliver, store, engine
<1>1. TypeOK'
  BY DEF TypeOK
<1>2. \A t \in Slots : inbox[t] # NoPdu => inbox'[t] = inbox[t]
  BY DEF TypeOK
<1>3. EntryOK'
  BY <1>2 DEF EntryOK, Exists, IsPending, TypeOK, Resting, PCs
<1>4. LinksOK' /\ WholeOK' /\ RetainedOK'
  BY DEF LinksOK, LinksAreSound, WholeOK, RowsAreWhole, RetainedOK, Exists
<1>5. MetOK'
  BY MetStays DEF IsPending, Exists
<1> QED BY <1>1, <1>3, <1>4, <1>5

LEMMA TickKeeps == ASSUME IInv, Tick PROVE IInv'
<1> USE InboxConstants DEF IInv, Tick, store, engine
<1>1. TypeOK'
  BY DEF TypeOK, Times
<1>2. EntryOK' /\ LinksOK' /\ WholeOK'
  BY DEF EntryOK, LinksOK, LinksAreSound, WholeOK, RowsAreWhole, Exists, IsPending
<1>3. RetainedOK'
  <2>1. clock' <= Retention => clock <= Retention
    BY DEF TypeOK, Times
  <2> QED BY <2>1 DEF RetainedOK, Exists
<1>m. MetOK'
  BY MetStays DEF IsPending, Exists
<1> QED BY <1>m, <1>1, <1>2, <1>3

LEMMA CrashKeeps == ASSUME IInv, Crash PROVE IInv'
<1> USE InboxConstants DEF IInv, Crash, Fails, store
<1>1. TypeOK'
  BY DEF TypeOK, PCs
<1>2. EntryOK' /\ LinksOK' /\ WholeOK'
  BY DEF EntryOK, LinksOK, LinksAreSound, WholeOK, RowsAreWhole, Exists, IsPending, Resting
<1>3. RetainedOK'
  BY DEF RetainedOK, Exists
<1>m. MetOK'
  BY MetStays DEF IsPending, Exists
<1> QED BY <1>m, <1>1, <1>2, <1>3

-----------------------------------------------------------------------------
(* The engine between two entries.                                         *)

LEMMA PollKeeps == ASSUME IInv, Poll PROVE IInv'
<1> USE InboxConstants DEF IInv, Poll, Goto, Succeeds, Fails
<1>1. /\ pending' \subseteq pending /\ pc = "idle" /\ pc' = "list" /\ faults' \in 0 .. MaxFaults
      /\ \A p \in Pdus : segment'[p] = segment[p] \/ segment'[p] = NoRow
      /\ segment' \in [Pdus -> SegmentRow \union {NoRow}]
      /\ UNCHANGED <<inbox, copies, message, notified, met, clock, todo, slot, raw, completed>>
  <2>1. segment \in [Pdus -> SegmentRow \union {NoRow}] /\ faults \in 0 .. MaxFaults
    BY DEF TypeOK
  <2>2. /\ pending' \subseteq pending /\ pc = "idle" /\ pc' = "list"
        /\ UNCHANGED <<inbox, copies, message, notified, met, clock, todo, slot, raw, completed>>
    OBVIOUS
  <2>3. CASE Succeeds /\ segment' = [p \in Pdus |-> IF Expired(p) THEN NoRow ELSE segment[p]]
    BY <2>1, <2>2, <2>3
  <2>4. CASE Fails("prune") /\ UNCHANGED segment
    BY <2>1, <2>2, <2>4
  <2> QED BY <2>3, <2>4
<1>2. TypeOK'
  BY <1>1 DEF TypeOK, PCs
<1>3. EntryOK' /\ WholeOK'
  BY <1>1 DEF EntryOK, WholeOK, RowsAreWhole, Resting
<1>4. LinksOK'
  BY <1>1 DEF LinksOK, LinksAreSound, Exists
<1>5. RetainedOK'
  <2>1. ASSUME clock <= Retention, NEW p \in Pdus, IsPending(p) PROVE ~Expired(p)
    <3>1. segment[p] \in SegmentRow
      BY <2>1 DEF IsPending, Exists, TypeOK
    <3>2. segment[p].at \in Nat /\ clock \in Nat /\ Retention \in Nat
      BY <3>1 DEF SegmentRow, Times, TypeOK
    <3> QED BY <2>1, <3>2 DEF Expired
  <2>2. clock <= Retention => \A p \in Pdus : Exists(p)' <=> Exists(p)
    BY <2>1 DEF Expired, Exists, TypeOK
  <2> QED BY <1>1, <2>2 DEF RetainedOK, TypeOK
<1>m. MetOK'
  <2>1. \A p \in Pdus : IsPending(p)' => IsPending(p)
    BY <1>1 DEF IsPending, Exists
  <2>2. met' = met
    OBVIOUS
  <2> QED BY <1>1, <2>1, <2>2, MetStays
<1> QED BY <1>m, <1>2, <1>3, <1>4, <1>5

LEMMA ListKeeps == ASSUME IInv, List PROVE IInv'
<1> USE InboxConstants DEF IInv, List, Succeeds, Fails, store
<1>1. TypeOK'
  <2>1. /\ todo' \subseteq Slots /\ pc' \in {"next", "idle"} /\ pc = "list"
        /\ UNCHANGED <<inbox, copies, store, pending, slot, raw, completed, notified, met, clock>>
    BY DEF TypeOK, Occupied
  <2>2. faults' \in 0 .. MaxFaults
    BY DEF TypeOK
  <2> QED BY <2>1, <2>2 DEF TypeOK, PCs
<1>2. EntryOK' /\ LinksOK' /\ WholeOK'
  BY DEF EntryOK, LinksOK, LinksAreSound, WholeOK, RowsAreWhole, Exists, IsPending, Resting, Occupied
<1>3. RetainedOK'
  BY DEF RetainedOK, Exists
<1>m. MetOK'
  BY MetStays DEF IsPending, Exists
<1> QED BY <1>m, <1>1, <1>2, <1>3

LEMMA NextEntryKeeps == ASSUME IInv, NEW s \in Slots, NextEntry(s) PROVE IInv'
<1> USE InboxConstants, PduFacts DEF IInv, NextEntry, store
<1>1. inbox[s] \in Pdus
  BY DEF TypeOK, EntryOK
<1>2. TypeOK'
  BY <1>1 DEF TypeOK, PCs
<1>3. EntryOK' /\ LinksOK' /\ WholeOK'
  BY DEF EntryOK, LinksOK, LinksAreSound, WholeOK, RowsAreWhole, Exists, IsPending, Resting
<1>4. RetainedOK'
  BY DEF RetainedOK, Exists
<1>m. MetOK'
  BY MetStays DEF IsPending, Exists
<1> QED BY <1>m, <1>2, <1>3, <1>4

LEMMA EndPollKeeps == ASSUME IInv, EndPoll PROVE IInv'
<1> USE DEF IInv, EndPoll, Goto, store
<1>1. TypeOK'
  BY DEF TypeOK, PCs
<1>2. EntryOK' /\ LinksOK' /\ WholeOK'
  BY DEF EntryOK, LinksOK, LinksAreSound, WholeOK, RowsAreWhole, Exists, IsPending, Resting
<1>3. RetainedOK'
  BY DEF RetainedOK, Exists
<1>m. MetOK'
  BY MetStays DEF IsPending, Exists
<1> QED BY <1>m, <1>1, <1>2, <1>3

-----------------------------------------------------------------------------
(* The engine on an entry.                                                 *)

\* An entry is left without a change of the tables.
LEMMA LeaveKeeps ==
    ASSUME IInv, Leave, UNCHANGED <<copies, store, pending, notified, met, clock>>,
           faults' \in 0 .. MaxFaults, pc \notin Resting,
           inbox' \in {inbox, [inbox EXCEPT ![slot] = NoPdu]}
    PROVE  IInv'
<1> USE InboxConstants DEF IInv, Leave, store
<1>1. TypeOK'
  BY DEF TypeOK, PCs
<1>2. \A s \in todo : inbox'[s] = inbox[s]
  BY DEF EntryOK, TypeOK
<1>3. EntryOK' /\ LinksOK' /\ WholeOK'
  BY <1>2 DEF EntryOK, LinksOK, LinksAreSound, WholeOK, RowsAreWhole, Exists, IsPending, Resting
<1>4. RetainedOK'
  BY DEF RetainedOK, Exists
<1>m. MetOK'
  BY MetStays DEF IsPending, Exists
<1> QED BY <1>m, <1>1, <1>3, <1>4

LEMMA KnownKeeps == ASSUME IInv, Known PROVE IInv'
<1> USE DEF IInv, Known, Goto, store
<1>1. TypeOK'
  BY DEF TypeOK, PCs
<1>2. EntryOK' /\ LinksOK' /\ WholeOK'
  BY DEF EntryOK, LinksOK, LinksAreSound, WholeOK, RowsAreWhole, Exists, IsPending, Resting
<1>3. RetainedOK'
  BY DEF RetainedOK, Exists
<1>m. MetOK'
  BY MetStays DEF IsPending, Exists
<1> QED BY <1>m, <1>1, <1>2, <1>3

LEMMA StoreSegmentKeeps == ASSUME IInv, StoreSegment PROVE IInv'
<1> USE InboxConstants, PduFacts, SegmentFacts
<1>1. CASE /\ (raw.msg \in Unreadable /\ Succeeds) \/ Fails("store")
           /\ Leave /\ UNCHANGED <<segment, met>>
  <2>1. faults' \in 0 .. MaxFaults
    BY <1>1 DEF Succeeds, Fails, IInv, TypeOK
  <2> QED BY <1>1, <2>1, LeaveKeeps DEF StoreSegment, Resting, store
<1>2. CASE Succeeds /\ Stored
  <2> USE DEF IInv
  <2>1. /\ raw \in Pdus /\ ~Exists(raw) /\ pc = "store" /\ clock \in Times
        /\ UNCHANGED <<inbox, copies, message, pending, notified, clock, faults>>
        /\ UNCHANGED <<todo, slot, raw>>
    BY <1>2 DEF StoreSegment, Stored, TypeOK, Succeeds
  <2>2. /\ segment'[raw] = [at |-> clock, link |-> Unlinked] /\ segment'[raw] # NoRow
        /\ segment'[raw].link = Unlinked
        /\ \A p \in Pdus \ {raw} : segment'[p] = segment[p]
        /\ segment' \in [Pdus -> SegmentRow \union {NoRow}]
    <3>1. segment \in [Pdus -> SegmentRow \union {NoRow}]
      BY DEF TypeOK
    <3>2. [at |-> clock, link |-> Unlinked] \in SegmentRow
      BY <2>1
    <3>3. segment' = [segment EXCEPT ![raw] = [at |-> clock, link |-> Unlinked]]
      BY <1>2 DEF Stored
    <3> QED BY <2>1, <3>1, <3>2, <3>3
  <2>3. \/ pc' = "assemble" /\ completed' = {} /\ Total[raw.msg] > 1
        \/ pc' = "insert" /\ completed' = {raw} /\ Total[raw.msg] = 1
    <3>1. Total[raw.msg] \in Nat \ {0}
      BY <2>1
    <3> QED BY <1>2, <3>1 DEF Stored
  <2>m. met \subseteq met' /\ met' \subseteq Messages
    <3>1. Meets(raw) \subseteq Messages /\ raw.msg \in Messages /\ met \subseteq Messages
      BY <2>1 DEF Meets, TypeOK
    <3> QED BY <1>2, <3>1 DEF Stored
  <2>4. TypeOK'
    BY <2>1, <2>2, <2>3, <2>m DEF TypeOK, PCs
  <2>5. EntryOK'
    BY <2>1, <2>2, <2>3 DEF EntryOK, Exists, IsPending, Resting
  <2>6. LinksOK'
    BY <2>1, <2>2, <2>3 DEF LinksOK, LinksAreSound, Exists
  <2>7. WholeOK'
    <3>1. Total[raw.msg] = 1 => {raw} = PartsOf(raw.msg)
      <4>1. ASSUME Total[raw.msg] = 1, NEW q \in PartsOf(raw.msg) PROVE q = raw
        <5>1. q \in Pdus /\ q.msg = raw.msg /\ q.part \in 1 .. 1 /\ raw.part \in 1 .. 1
          BY <2>1, <4>1
        <5>2. q.part = raw.part
          BY <5>1
        <5> QED BY <2>1, <5>1, <5>2
      <4> QED BY <2>1, <4>1
    <3> QED BY <2>1, <2>3, <2>m, <3>1 DEF WholeOK, RowsAreWhole
  <2>8. RetainedOK'
    <3> SUFFICES ASSUME clock <= Retention
                 PROVE  /\ \A s \in pending : Exists(s.pdu)'
                        /\ \A p \in completed' : Exists(p)'
                        /\ \A h \in Pdus : \A p \in message[h] : Exists(p)'
                        /\ raw.msg \notin met' =>
                              \A g \in Pdus : g.msg = raw.msg => message[g] = {}
                        /\ \A g, h \in Pdus :
                              message[g] # {} /\ message[h] # {} /\ g.msg = h.msg =>
                                  g = h \/ g.msg \in met'
      BY <2>1 DEF RetainedOK
    <3>1. \A p \in Pdus : Exists(p) => Exists(p)'
      BY <2>2 DEF Exists
    <3>2. ASSUME NEW g \in Pdus, g.msg = raw.msg, raw.msg \notin met' PROVE message[g] = {}
      <4>1. message[g] # {} => raw \in message[g]
        BY <2>1, <2>m, <3>2 DEF WholeOK, RowsAreWhole
      <4> QED BY <2>1, <4>1 DEF RetainedOK
    <3>3. \A p \in completed' : Exists(p)'
      BY <2>2, <2>3 DEF Exists
    <3> QED BY <2>m, <3>1, <3>2, <3>3 DEF RetainedOK, TypeOK
  <2>9. MetOK'
    <3>1. \A p \in Pdus : Waits(p)' => Waits(p) \/ p = raw
      BY <2>1, <2>2 DEF Waits, IsPending, Exists
    <3>2. ASSUME NEW p \in Pdus, Waits(p), KeyOf(p) = KeyOf(raw), p.msg # raw.msg
          PROVE  p.msg \in met' /\ raw.msg \in met'
      <4>1. p.msg \in Meets(raw)
        BY <3>2 DEF Meets
      <4> QED BY <1>2, <4>1 DEF Stored
    <3>3. \A p, q \in Pdus : Waits(p)' /\ Waits(q)' /\ KeyOf(p) = KeyOf(q) /\ p.msg # q.msg =>
             p.msg \in met'
      BY <2>1, <2>m, <3>1, <3>2 DEF MetOK
    <3> QED BY <2>1, <3>3 DEF MetOK, KeyOf
  <2> QED BY <2>4, <2>5, <2>6, <2>7, <2>8, <2>9
<1> QED BY <1>1, <1>2 DEF StoreSegment

LEMMA AssembleKeeps == ASSUME IInv, Assemble PROVE IInv'
<1> USE InboxConstants, PduFacts
<1>1. CASE Fails("assemble") /\ Leave /\ UNCHANGED pending
  <2>1. faults' \in 0 .. MaxFaults
    BY <1>1 DEF Fails, IInv, TypeOK
  <2> QED BY <1>1, <2>1, LeaveKeeps DEF Assemble, Resting, store
<1>2. ASSUME Succeeds, NEW added \in SUBSET Listed(raw), Gathered(added) PROVE IInv'
  <2> USE DEF IInv
  <2> DEFINE now == HeldOf(raw) \union added
  <2>1. /\ raw \in Pdus /\ pc = "assemble" /\ Exists(raw)
        /\ IsPending(raw) /\ Total[raw.msg] > 1
        /\ UNCHANGED <<inbox, copies, segment, message, notified, met, clock, faults, todo, slot,
                       raw>>
    BY <1>2 DEF Assemble, Gathered, Goto, Succeeds, store, TypeOK, EntryOK, Resting
  <2>2. \A s \in added : /\ s \in [pdu : Pdus, at : Times] /\ KeyOf(s.pdu) = KeyOf(raw)
                         /\ Exists(s.pdu) /\ IsPending(s.pdu)
    <3> SUFFICES ASSUME NEW q \in Pdus, IsPending(q)
                 PROVE  [pdu |-> q, at |-> segment[q].at] \in [pdu : Pdus, at : Times]
      BY DEF Listed, IsPending
    <3>1. segment[q] \in SegmentRow
      BY DEF IsPending, Exists, TypeOK
    <3> QED BY <3>1 DEF SegmentRow
  <2>3. \A s \in now : s \in [pdu : Pdus, at : Times] /\ KeyOf(s.pdu) = KeyOf(raw)
    BY <2>2 DEF HeldOf, TypeOK
  <2>w. /\ Waits(raw) /\ \A s \in now : Waits(s.pdu)
        /\ \A s \in added : Total[s.pdu.msg] > 1
    <3>1. \A s \in now : Total[s.pdu.msg] = Total[raw.msg]
      BY <2>3 DEF KeyOf
    <3> QED BY <2>1, <2>2, <3>1 DEF Waits, HeldOf
  <2>4. CASE /\ Assembled(raw, now) /\ pending' = pending \ HeldOf(raw)
             /\ completed' = {s.pdu : s \in now} /\ pc' = "insert"
    <3>1. TypeOK'
      BY <2>1, <2>3, <2>4 DEF TypeOK, PCs
    <3>2. EntryOK' /\ LinksOK'
      <4>1. EntryOK'
        BY <2>1, <2>4 DEF EntryOK, Exists, Resting
      <4>2. LinksOK'
        BY <2>1, <2>4 DEF LinksOK, LinksAreSound, Exists
      <4> QED BY <4>1, <4>2
    <3>3. WholeOK'
      <4>1. ASSUME raw.msg \notin met
            PROVE  \A q : q \in PartsOf(raw.msg) <=> \E s \in now : s.pdu = q
        <5>1. \A s \in now : s.pdu \in Pdus /\ KeyOf(s.pdu) = KeyOf(raw) /\ Waits(s.pdu)
          BY <2>3, <2>w
        <5>2. raw \in Pdus /\ Waits(raw) /\ Assembled(raw, now) /\ MetOK
          BY <2>1, <2>4, <2>w
        <5> HIDE DEF now
        <5> QED BY ONLY <4>1, <5>1, <5>2, CompleteIsWhole
      <4>2. raw.msg \notin met => completed' = PartsOf(raw.msg)
        BY <2>4, <4>1
      <4> QED BY <2>1, <2>4, <4>2 DEF WholeOK, RowsAreWhole
    <3>4. RetainedOK'
      <4>1. clock <= Retention => \A s \in now : Exists(s.pdu)
        BY <2>2 DEF RetainedOK, HeldOf
      <4> QED BY <2>1, <2>4, <4>1 DEF RetainedOK, Exists
    <3>5. MetOK'
      BY <2>1, <2>4, MetStays DEF IsPending, Exists
    <3> QED BY <3>1, <3>2, <3>3, <3>4, <3>5
  <2>5. CASE pending' = pending \union added /\ Goto("delete")
    <3>1. TypeOK'
      BY <2>1, <2>2, <2>5 DEF TypeOK, PCs, Goto
    <3>2. EntryOK' /\ LinksOK' /\ WholeOK'
      BY <2>1, <2>5
      DEF EntryOK, LinksOK, LinksAreSound, WholeOK, RowsAreWhole, Exists, IsPending, Resting, Goto
    <3>3. RetainedOK'
      BY <2>1, <2>2, <2>5 DEF RetainedOK, Exists, Goto
    <3>4. MetOK'
      <4>1. \A p \in Pdus : Waits(p)' => Waits(p)
        BY <2>1, <2>5, <2>w DEF Waits, IsPending, Exists
      <4> QED BY <2>1, <2>5, <2>w, <4>1 DEF MetOK, KeyOf
    <3> QED BY <3>1, <3>2, <3>3, <3>4
  <2> QED BY <1>2, <2>4, <2>5 DEF Gathered
<1> QED BY <1>1, <1>2 DEF Assemble

LEMMA InsertMessageKeeps == ASSUME IInv, InsertMessage PROVE IInv'
<1> USE InboxConstants, PduFacts
<1>1. CASE Leave /\ UNCHANGED message
  <2>1. faults' \in 0 .. MaxFaults
    BY <1>1 DEF InsertMessage, Succeeds, Fails, IInv, TypeOK
  <2> QED BY <1>1, <2>1, LeaveKeeps DEF InsertMessage, Resting, store
<1>2. CASE /\ Succeeds /\ message[raw] = {} /\ message' = [message EXCEPT ![raw] = completed]
           /\ Goto("link")
  <2> USE DEF IInv
  <2>1. /\ raw \in Pdus /\ pc = "insert" /\ pc' = "link" /\ message[raw] = {}
        /\ UNCHANGED <<inbox, copies, segment, pending, notified, met, clock, faults, todo, slot,
                       raw, completed>>
    BY <1>2 DEF InsertMessage, Goto, Succeeds, TypeOK
  <2>2. /\ message'[raw] = completed /\ \A h \in Pdus \ {raw} : message'[h] = message[h]
        /\ message' \in [Pdus -> SUBSET Pdus]
    BY <1>2, <2>1 DEF TypeOK
  <2>3. TypeOK'
    BY <2>1, <2>2 DEF TypeOK, PCs
  <2>4. EntryOK'
    BY <2>1 DEF EntryOK, Exists, Resting
  <2>5. LinksOK'
    <3>1. \A h \in Pdus : message[h] \subseteq message'[h]
      BY <2>1, <2>2
    <3>2. \A p \in Pdus : Exists(p) /\ segment[p].link # Unlinked => segment[p].link \in Pdus
      BY DEF Exists, TypeOK, SegmentRow
    <3> QED BY <2>1, <2>2, <3>1, <3>2 DEF LinksOK, LinksAreSound, Exists
  <2>6. WholeOK'
    BY <2>1, <2>2 DEF WholeOK, RowsAreWhole
  <2>7. RetainedOK'
    BY <2>1, <2>2 DEF RetainedOK, Exists
  <2>8. MetOK'
    BY <2>1, MetStays DEF IsPending, Exists
  <2> QED BY <2>3, <2>4, <2>5, <2>6, <2>7, <2>8
<1> QED BY <1>1, <1>2 DEF InsertMessage

LEMMA LinkSegmentKeeps == ASSUME IInv, LinkSegment PROVE IInv'
<1> USE InboxConstants, PduFacts, SegmentFacts
<1>1. CASE Fails("link") /\ Leave /\ UNCHANGED segment
  <2>1. faults' \in 0 .. MaxFaults
    BY <1>1 DEF Fails, IInv, TypeOK
  <2> QED BY <1>1, <2>1, LeaveKeeps DEF LinkSegment, Resting, store
<1>2. ASSUME NEW p \in completed, Succeeds,
             segment' = IF IsPending(p) THEN [segment EXCEPT ![p].link = raw] ELSE segment,
             completed' = completed \ {p}, UNCHANGED <<pc, todo, slot, raw>>
      PROVE  IInv'
  <2> USE DEF IInv
  <2>1. /\ raw \in Pdus /\ pc = "link" /\ p \in Pdus /\ p \in message[raw]
        /\ UNCHANGED <<inbox, copies, message, pending, notified, met, clock, faults>>
    BY <1>2 DEF LinkSegment, Succeeds, TypeOK, LinksOK
  <2>2. /\ \A q \in Pdus \ {p} : segment'[q] = segment[q]
        /\ segment' \in [Pdus -> SegmentRow \union {NoRow}]
        /\ segment'[p] # segment[p] => segment'[p].link = raw
        /\ Exists(p) => Exists(p)'
        /\ IsPending(p)' => IsPending(p)
    <3>1. CASE IsPending(p)
      <4>1. segment[p] \in SegmentRow
        BY <2>1, <3>1 DEF IsPending, Exists, TypeOK
      <4>2. segment' = [segment EXCEPT ![p] = [segment[p] EXCEPT !.link = raw]]
        BY <1>2, <3>1
      <4>3. /\ [segment[p] EXCEPT !.link = raw] \in SegmentRow
            /\ [segment[p] EXCEPT !.link = raw].link = raw
        BY <2>1, <4>1
      <4>4. segment \in [Pdus -> SegmentRow \union {NoRow}]
        BY DEF TypeOK
      <4> QED BY <2>1, <3>1, <4>2, <4>3, <4>4 DEF Exists
    <3>2. CASE ~IsPending(p)
      BY <1>2, <3>2 DEF TypeOK, Exists, IsPending
    <3> QED BY <3>1, <3>2
  <2>3. \A q \in Pdus : Exists(q) => Exists(q)'
    BY <2>2 DEF Exists
  <2>4. TypeOK'
    BY <1>2, <2>1, <2>2 DEF TypeOK
  <2>5. EntryOK'
    BY <1>2, <2>1, <2>3 DEF EntryOK, Resting
  <2>6. LinksOK'
    BY <1>2, <2>1, <2>2 DEF LinksOK, LinksAreSound, Exists
  <2>7. WholeOK'
    BY <1>2, <2>1 DEF WholeOK, RowsAreWhole
  <2>8. RetainedOK'
    <3>1. \A h \in Pdus : message[h] \subseteq Pdus
      BY DEF TypeOK
    <3> QED BY <1>2, <2>1, <2>3, <3>1 DEF RetainedOK, TypeOK
  <2>9. MetOK'
    <3>1. \A q \in Pdus : IsPending(q)' => IsPending(q)
      BY <2>2 DEF IsPending, Exists
    <3> QED BY <2>1, <3>1, MetStays
  <2> QED BY <2>4, <2>5, <2>6, <2>7, <2>8, <2>9
<1> QED BY <1>1, <1>2 DEF LinkSegment

LEMMA NotifyKeeps == ASSUME IInv, Notify PROVE IInv'
<1> USE DEF IInv, Notify, Goto, store
<1>1. TypeOK'
  BY DEF TypeOK, PCs
<1>2. EntryOK' /\ LinksOK' /\ WholeOK'
  BY DEF EntryOK, LinksOK, LinksAreSound, WholeOK, RowsAreWhole, Exists, IsPending, Resting
<1>3. RetainedOK'
  BY DEF RetainedOK, Exists
<1>m. MetOK'
  BY MetStays DEF IsPending, Exists
<1> QED BY <1>m, <1>1, <1>2, <1>3

LEMMA DeleteEntryKeeps == ASSUME IInv, DeleteEntry PROVE IInv'
<1>1. faults' \in 0 .. MaxFaults
  BY InboxConstants DEF DeleteEntry, Succeeds, Fails, IInv, TypeOK
<1>2. inbox' \in {inbox, [inbox EXCEPT ![slot] = NoPdu]} /\ pc \notin Resting
  BY DEF DeleteEntry, Resting
<1> QED BY <1>1, <1>2, LeaveKeeps DEF DeleteEntry

-----------------------------------------------------------------------------
(* The invariant, and what follows from it.                                *)

LEMMA NextKeeps == IInv /\ [Next]_vars => IInv'
<1> SUFFICES ASSUME IInv, [Next]_vars PROVE IInv'
  OBVIOUS
<1>1. CASE Engine
  BY <1>1, PollKeeps, ListKeeps, NextEntryKeeps, EndPollKeeps, KnownKeeps, StoreSegmentKeeps,
     AssembleKeeps, InsertMessageKeeps, LinkSegmentKeeps, NotifyKeeps, DeleteEntryKeeps
  DEF Engine
<1>2. CASE UNCHANGED vars
  <2> USE <1>2 DEF vars, IInv
  <2>1. TypeOK'
    BY DEF TypeOK
  <2>2. EntryOK' /\ LinksOK' /\ WholeOK' /\ RetainedOK'
    BY DEF EntryOK, LinksOK, LinksAreSound, WholeOK, RowsAreWhole, RetainedOK, Exists, IsPending
  <2>3. MetOK'
    BY MetStays DEF IsPending, Exists
  <2> QED BY <2>1, <2>2, <2>3
<1> QED BY <1>1, <1>2, CrashKeeps, TickKeeps, DeliverKeeps DEF Next

THEOREM Invariance == Spec => []IInv
<1>1. Init => IInv
  BY InitHolds
<1>2. IInv /\ [Next]_vars => IInv'
  BY NextKeeps
<1> QED BY <1>1, <1>2, PTL DEF Spec

\* Every variable keeps its type, and the engine has an entry in hand just where it needs one.
THEOREM TypeCorrect == Spec => []TypeOK
<1>1. IInv => TypeOK
  BY DEF IInv
<1> QED BY <1>1, Invariance, PTL

\* LinkSMSSegment links a segment only to a row that has its body, through failures of every
\* statement and restarts.
THEOREM LinksSound == Spec => []LinksAreSound
<1>1. IInv => LinksAreSound
  BY DEF IInv, LinksOK
<1> QED BY <1>1, Invariance, PTL

\* Run deletes an entry from the modem only when its PDU is in sms_segments.
THEOREM StoredFirst == Spec => DeletedOnlyWhenStored
<1> DEFINE Step == \A s \in Slots : inbox[s] # NoPdu /\ inbox'[s] = NoPdu => Exists(inbox[s])
<1>1. IInv /\ [Next]_vars => Step
  <2> SUFFICES ASSUME IInv, [Next]_vars, NEW s \in Slots, inbox[s] # NoPdu, inbox'[s] = NoPdu
               PROVE  Exists(inbox[s])
    OBVIOUS
  <2>1. CASE DeleteEntry
    BY <2>1 DEF DeleteEntry, IInv, TypeOK, EntryOK, Resting
  <2>2. ASSUME NEW p \in Pdus, NEW t \in Slots, Deliver(p, t) PROVE FALSE
    BY <2>2, PduFacts DEF Deliver, IInv, TypeOK
  <2> QED
    BY <2>1, <2>2
    DEF Next, Engine, Poll, List, EndPoll, NextEntry, Known, StoreSegment, Assemble,
        InsertMessage, LinkSegment, Notify, Crash, Tick, vars
<1> QED BY <1>1, Invariance, PTL DEF Spec, DeletedOnlyWhenStored

\* Every row of messages is one whole message, unless a part of it came while another long
\* message of its sender, reference and number of parts was waiting (Ingest, Add, Prune).
THEOREM WholeRows == Spec => []RowsAreWhole
<1>1. IInv => RowsAreWhole
  BY DEF IInv, WholeOK
<1> QED BY <1>1, Invariance, PTL

\* While the segments are retained a message never gets two rows, although its parts are
\* delivered again, deletions fail and the process restarts, if it did not meet another one.
THEOREM OneRow == Spec => []NoMessageTwice
<1>1. IInv => NoMessageTwice
  BY DEF IInv, RetainedOK, NoMessageTwice
<1> QED BY <1>1, Invariance, PTL
=============================================================================
