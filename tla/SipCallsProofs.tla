--------------------------- MODULE SipCallsProofs ---------------------------
(***************************************************************************)
(* Theorems about SipCalls, for any INVITEs and Call-IDs.  The argument:   *)
(* a session leaves the map only through a hangup, and the hangup cancels  *)
(* its context and stops its bridge, if that has started, before, and ends *)
(* the call of the line after.                                             *)
(***************************************************************************)
EXTENDS SipCalls, TLAPS

Stored == {"await", "bridge", "spawn", "start", "hangup"}

\* A bridge that has taken the device.
HasBridge(s) == s \in bridge \/ at[s] \in {"spawn", "start"}

\* A session of a Call-ID that two have may have given back the device of the other.
Muddled == faults > 0 /\ \E t \in past : Doubled(t)

\* The map has a session under its own Call-ID.
MapOK ==
    \A k \in Keys :
        sessions[k] # None => /\ KeyOf(sessions[k]) = k
                              /\ sessions[k] = Ring \/ sessions[k] \in past

\* A handler that hangs a session up has cancelled it.
VictimsOK ==
    \A x \in Actors :
        /\ victim[x] # None => /\ victim[x] \in cancelled
                               /\ victim[x] = Ring \/ victim[x] \in past
        /\ x \in CallIDs => /\ x \in bye <=> victim[x] # None
                            /\ victim[x] # None => KeyOf(victim[x]) = x

\* A bridge is started when its handler ends.  A session that is not hung up is in the map, and
\* one with a bridge has the device, as long as no other session has its Call-ID.
BridgesOK ==
    /\ \A s \in Invites :
          /\ at[s] \notin {"idle", "done"} => s \in past
          /\ s \in bridge => at[s] = "done" /\ s \in past
          /\ HasBridge(s) /\ ~Muddled /\ (~Doubled(s) \/ sessions[CallID[s]] = s) =>
                device = CallID[s]
          /\ (at[s] \in Stored \/ s \in bridge) /\ s \notin cancelled /\ ~Doubled(s) =>
                sessions[CallID[s]] = s

\* The line has the call of a session that can be found, or that is being hung up.
LineOK ==
    \A s \in Invites :
        active = s => /\ at[s] \in Stored \union {"store", "done"} /\ s \in past
                      /\ faults = 0 /\ ~Doubled(s) => Attended(s) \/ sessions[CallID[s]] = s

\* The inductive invariant.
IInv == TypeOK /\ MapOK /\ VictimsOK /\ BridgesOK /\ LineOK

LEMMA Names ==
    /\ \A s \in Sessions : KeyOf(s) \in Keys
    /\ \A s \in Invites : KeyOf(s) = CallID[s] /\ CallID[s] \in CallIDs /\ s # Ring /\ s # None
    /\ KeyOf(Ring) = Ring /\ Ring \notin CallIDs /\ Ring # None
    /\ CallIDs \subseteq Keys /\ None \notin CallIDs
    /\ Invites \subseteq Sessions /\ Invites \subseteq Actors /\ CallIDs \subseteq Actors
    /\ Invites \intersect CallIDs = {}
BY SipConstants DEF KeyOf, Keys, Sessions, Actors

LEMMA InitHolds == Init => IInv
<1> SUFFICES ASSUME Init PROVE IInv
  OBVIOUS
<1> USE SipConstants DEF Init
<1>1. TypeOK
  <2>1. {active, cell} \subseteq Calls \union {None}
    OBVIOUS
  <2>2. /\ stale \in [Actors -> SUBSET Keys] /\ victim \in [Actors -> Sessions \union {None}]
        /\ sessions \in [Keys -> Sessions \union {None}] /\ at \in [Invites -> Steps]
    BY DEF Steps
  <2>3. /\ up \in BOOLEAN /\ bye \subseteq CallIDs /\ cancelled \subseteq Sessions
        /\ bridge \subseteq Invites /\ past \subseteq Invites
    OBVIOUS
  <2>4. device \in CallIDs \union {None} /\ faults \in 0 .. MaxFaults
    OBVIOUS
  <2> QED BY <2>1, <2>2, <2>3, <2>4 DEF TypeOK
<1>2. MapOK /\ VictimsOK /\ BridgesOK
  BY DEF MapOK, VictimsOK, BridgesOK, Stored, HasBridge
<1>3. LineOK
  BY DEF LineOK
<1> QED BY <1>1, <1>2, <1>3 DEF IInv

-----------------------------------------------------------------------------
(* Hangups.                                                                *)

\* The first half of a hangup, of a session in the map or of one without a bridge.
LEMMA BridgeStops ==
    ASSUME IInv, NEW x \in Actors, NEW s \in Sessions, HangupBridge(x, s), victim[x] = None,
           sessions[KeyOf(s)] = s \/ s \notin bridge, s = Ring \/ s \in past,
           IF x \in CallIDs THEN KeyOf(s) = x /\ bye' = bye \union {x} ELSE bye' = bye,
           stale' \in [Actors -> SUBSET Keys],
           UNCHANGED <<sessions, at, line, past, faults>>
    PROVE  IInv'
<1> USE Names, SipConstants DEF IInv, HangupBridge, line
<1>1. TypeOK'
  <2>1. victim' \in [Actors -> Sessions \union {None}] /\ bye' \subseteq CallIDs
    BY DEF TypeOK
  <2>2. cancelled' \subseteq Sessions /\ bridge' \subseteq Invites
    BY DEF TypeOK
  <2>3. device' \in {device, None}
    OBVIOUS
  <2> QED BY <2>1, <2>2, <2>3 DEF TypeOK
<1>2. MapOK'
  BY DEF MapOK
<1>3. /\ victim'[x] = s /\ \A y \in Actors \ {x} : victim'[y] = victim[y]
      /\ cancelled' = cancelled \union {s}
  BY DEF TypeOK
<1>4. VictimsOK'
  <2>1. \A y \in CallIDs \ {x} : y \in bye' <=> y \in bye
    OBVIOUS
  <2>2. x \in CallIDs => x \in bye' /\ KeyOf(s) = x
    OBVIOUS
  <2>3. s # None
    BY DEF Sessions
  <2> QED BY <1>3, <2>1, <2>2, <2>3 DEF VictimsOK
<1>5. BridgesOK'
  <2>1. /\ \A t \in Invites : Doubled(t)' <=> Doubled(t)
        /\ Muddled' <=> Muddled
    BY DEF Doubled, Muddled
  <2>2. /\ bridge' \subseteq bridge /\ s \in bridge \ cancelled => s \notin bridge'
        /\ device' # device => s \in bridge \ cancelled
    OBVIOUS
  <2>3. ASSUME NEW t \in Invites, HasBridge(t)', ~Muddled, ~Doubled(t) \/ sessions[CallID[t]] = t
        PROVE  device' = CallID[t]
    <3>1. HasBridge(t) /\ device = CallID[t]
      BY <2>2, <2>3 DEF BridgesOK, HasBridge
    <3>2. ASSUME device' # device PROVE FALSE
      <4>1. /\ s \in bridge /\ s \in Invites /\ s \in past /\ at[s] = "done"
            /\ sessions[CallID[s]] = s /\ s \notin bridge'
        BY <2>2, <3>2 DEF TypeOK, BridgesOK
      <4>2. device = CallID[s]
        BY <2>3, <4>1 DEF BridgesOK, HasBridge
      <4>3. t # s
        BY <2>3, <4>1 DEF HasBridge
      <4> QED BY <2>3, <3>1, <4>1, <4>2, <4>3 DEF Doubled
    <3> QED BY <3>1, <3>2
  <2>4. ASSUME NEW t \in Invites
        PROVE  /\ at[t] \notin {"idle", "done"} => t \in past
               /\ t \in bridge' => at[t] = "done" /\ t \in past
               /\ (at[t] \in Stored \/ t \in bridge') /\ t \notin cancelled' /\ ~Doubled(t) =>
                     sessions[CallID[t]] = t
    BY <2>2 DEF BridgesOK
  <2> QED BY <2>1, <2>3, <2>4 DEF BridgesOK
<1>6. LineOK'
  <2>1. \A t \in Invites : (Doubled(t)' <=> Doubled(t)) /\ (Attended(t) => Attended(t)')
    BY <1>3, Names DEF Doubled, Attended
  <2> QED BY <2>1 DEF LineOK
<1> QED BY <1>1, <1>2, <1>4, <1>5, <1>6

\* The second half: without a fault the line has no call after it.
LEMMA LineEnds ==
    ASSUME IInv, NEW x \in Actors, victim[x] # None, HangupLine(x, KeyOf(victim[x])),
           \/ at' = at
           \/ x \in Invites /\ at[x] = "hangup" /\ x = victim[x] /\ at' = [at EXCEPT ![x] = "done"],
           bye' = bye \ {x}, stale' \in [Actors -> SUBSET Keys], UNCHANGED past
    PROVE  IInv'
<1> USE Names, SipConstants DEF IInv
<1> DEFINE key == KeyOf(victim[x])
<1>1. /\ victim[x] \in Sessions /\ key \in Keys /\ victim[x] \in cancelled
      /\ victim[x] = Ring \/ victim[x] \in past
  BY DEF TypeOK, VictimsOK
<1>2. /\ victim'[x] = None /\ \A y \in Actors \ {x} : victim'[y] = victim[y]
      /\ sessions'[key] = None /\ \A k \in Keys \ {key} : sessions'[k] = sessions[k]
      /\ UNCHANGED <<cancelled, bridge, device>>
      /\ victim' \in [Actors -> Sessions \union {None}]
      /\ sessions' \in [Keys -> Sessions \union {None}]
  BY <1>1 DEF HangupLine, TypeOK
<1>3. /\ active' # None => active' = active /\ faults' # 0
      /\ faults' = 0 => faults = 0
      /\ {active', cell'} \subseteq Calls \union {None} /\ up' \in BOOLEAN
      /\ faults' \in 0 .. MaxFaults
  <2>1. /\ {active, cell} \subseteq Calls \union {None} /\ up \in BOOLEAN
        /\ faults \in 0 .. MaxFaults /\ MaxFaults \in Nat
    BY DEF TypeOK
  <2>2. CASE active' = None /\ cell' = None /\ up' = FALSE /\ UNCHANGED faults
    BY <2>1, <2>2
  <2>3. CASE active = None /\ UNCHANGED <<line, faults>>
    BY <2>1, <2>3 DEF line
  <2>4. CASE Fault /\ UNCHANGED line
    BY <2>1, <2>4 DEF Fault, line
  <2> QED BY <2>2, <2>3, <2>4 DEF HangupLine
<1>4. /\ at' \in [Invites -> Steps]
      /\ \A s \in Invites : at'[s] # at[s] => at[s] = "hangup" /\ at'[s] = "done" /\ s = victim[x]
  <2>1. at \in [Invites -> Steps] /\ "done" \in Steps
    BY DEF TypeOK, Steps
  <2> QED BY <2>1
<1>5. TypeOK'
  BY <1>2, <1>3, <1>4 DEF TypeOK
<1>6. MapOK'
  BY <1>2 DEF MapOK
<1>7. VictimsOK'
  BY <1>2 DEF VictimsOK
<1>8. BridgesOK'
  <2>1. \A s \in Invites : Doubled(s)' <=> Doubled(s)
    BY DEF Doubled
  <2>2. ASSUME NEW s \in Invites, s \notin cancelled, ~Doubled(s) PROVE CallID[s] # key
    <3>1. victim[x] # s
      BY <1>1, <2>2
    <3>2. CASE victim[x] = Ring
      BY <3>2
    <3>3. CASE victim[x] # Ring
      <4>1. victim[x] \in past \ {s} /\ victim[x] \in Invites
        BY <1>1, <3>1, <3>3 DEF TypeOK
      <4> QED BY <2>2, <4>1 DEF Doubled
    <3> QED BY <3>2, <3>3
  <2>3. ASSUME NEW s \in Invites
        PROVE  /\ at'[s] \notin {"idle", "done"} => s \in past'
               /\ s \in bridge' => at'[s] = "done" /\ s \in past'
               /\ HasBridge(s)' /\ ~Muddled' /\ (~Doubled(s)' \/ sessions'[CallID[s]] = s) =>
                     device' = CallID[s]
    <3>1. s \in Sessions /\ HasBridge(s)' => HasBridge(s)
      BY <1>2, <1>4 DEF HasBridge
    <3>2. ~Muddled' => ~Muddled
      BY <1>3, <2>1 DEF Muddled, TypeOK
    <3>3. sessions'[CallID[s]] = s => sessions[CallID[s]] = s
      BY <1>2
    <3> QED BY <1>2, <1>4, <2>1, <3>1, <3>2, <3>3 DEF BridgesOK
  <2>4. ASSUME NEW s \in Invites, at'[s] \in Stored \/ s \in bridge', s \notin cancelled',
               ~Doubled(s)'
        PROVE  sessions'[CallID[s]] = s
    <3>1. at[s] \in Stored \/ s \in bridge
      BY <1>2, <1>4, <2>4 DEF Stored
    <3> QED BY <1>2, <2>1, <2>2, <2>4, <3>1 DEF BridgesOK
  <2> QED BY <2>3, <2>4 DEF BridgesOK
<1>9. LineOK'
  <2>1. ASSUME NEW s \in Invites, active' = s PROVE at'[s] \in Stored \union {"store", "done"}
    BY <1>3, <1>4, <2>1 DEF LineOK, Stored
  <2> QED BY <1>3, <2>1 DEF LineOK
<1> QED BY <1>5, <1>6, <1>7, <1>8, <1>9

LEMMA ReapKeeps ==
    ASSUME IInv, NEW x \in Invites, Reap(x) PROVE IInv'
<1>1. PICK k \in stale[x] :
         \/ sessions[k] # None /\ HangupBridge(x, sessions[k]) /\ UNCHANGED stale
         \/ /\ sessions[k] = None /\ stale' = [stale EXCEPT ![x] = @ \ {k}]
            /\ UNCHANGED <<victim, media>>
  BY DEF Reap
<1>2. /\ stale \in [Actors -> SUBSET Keys] /\ k \in Keys /\ victim[x] = None
      /\ UNCHANGED <<sessions, at, bye, line, past, faults>> /\ x \in Actors \ CallIDs
  BY Names DEF Reap, IInv, TypeOK
<1>3. CASE sessions[k] # None /\ HangupBridge(x, sessions[k]) /\ UNCHANGED stale
  <2>1. /\ sessions[k] \in Sessions /\ KeyOf(sessions[k]) = k
        /\ sessions[k] = Ring \/ sessions[k] \in past
    BY <1>2, <1>3 DEF IInv, TypeOK, MapOK
  <2> QED BY <1>2, <1>3, <2>1, BridgeStops
<1>4. CASE stale' = [stale EXCEPT ![x] = @ \ {k}] /\ UNCHANGED <<victim, media>>
  <2> USE <1>2, <1>4 DEF IInv, media, line
  <2>1. TypeOK'
    BY DEF TypeOK
  <2>2. MapOK' /\ VictimsOK' /\ BridgesOK' /\ LineOK'
    BY DEF MapOK, VictimsOK, BridgesOK, LineOK, Doubled, Attended, HasBridge, Muddled
  <2> QED BY <2>1, <2>2
<1> QED BY <1>1, <1>3, <1>4

LEMMA ReapedKeeps ==
    ASSUME IInv, NEW x \in Invites, Reaped(x) PROVE IInv'
<1>1. /\ victim[x] # None /\ HangupLine(x, KeyOf(victim[x])) /\ UNCHANGED <<at, bye, past>>
      /\ x \in Actors \ CallIDs
  BY Names DEF Reaped
<1>2. bye' = bye \ {x} /\ stale' \in [Actors -> SUBSET Keys]
  BY <1>1 DEF Reaped, IInv, TypeOK
<1> QED BY <1>1, <1>2, LineEnds

LEMMA GiveUpKeeps ==
    ASSUME IInv, NEW h \in Invites, GiveUp(h) PROVE IInv'
<1>1. /\ at[h] = "hangup" /\ UNCHANGED <<stale, bye, past>> /\ h \in Actors \ CallIDs
      /\ h \in Sessions /\ KeyOf(h) = CallID[h] /\ h # None
      /\ stale' \in [Actors -> SUBSET Keys] /\ bye' = bye \ {h}
  BY Names DEF GiveUp, IInv, TypeOK
<1>2. CASE victim[h] = None /\ HangupBridge(h, h) /\ UNCHANGED <<at, sessions, line, faults>>
  <2>1. h \notin bridge /\ h \in past
    BY <1>1 DEF IInv, BridgesOK
  <2> QED BY <1>1, <1>2, <2>1, BridgeStops
<1>3. CASE victim[h] = h /\ HangupLine(h, CallID[h]) /\ Goes(h, "hangup", "done")
  BY <1>1, <1>3, LineEnds DEF Goes
<1> QED BY <1>2, <1>3 DEF GiveUp

LEMMA ByeKeeps ==
    ASSUME IInv, NEW k \in CallIDs, Bye(k) \/ ByeEnds(k) PROVE IInv'
<1>1. k \in Actors /\ k \in Keys /\ stale \in [Actors -> SUBSET Keys]
  BY Names DEF IInv, TypeOK
<1>2. CASE Bye(k)
  <2>1. /\ sessions[k] \in Sessions /\ KeyOf(sessions[k]) = k /\ victim[k] = None
        /\ sessions[k] = Ring \/ sessions[k] \in past
    BY <1>1, <1>2 DEF Bye, IInv, TypeOK, MapOK, VictimsOK
  <2> QED BY <1>1, <1>2, <2>1, BridgeStops DEF Bye
<1>3. CASE ByeEnds(k)
  <2>1. victim[k] # None /\ KeyOf(victim[k]) = k
    BY <1>1, <1>3 DEF ByeEnds, IInv, VictimsOK
  <2> QED BY <1>1, <1>3, <2>1, LineEnds DEF ByeEnds
<1> QED BY <1>2, <1>3

-----------------------------------------------------------------------------
(* The other steps.                                                        *)

LEMMA RemoteKeeps ==
    ASSUME IInv, RemoteAnswers \/ RemoteEnds PROVE IInv'
<1> USE Names, SipConstants DEF IInv, hangup, media
<1>1. /\ UNCHANGED <<sessions, at, hangup, media, past, faults>> /\ up' \in BOOLEAN
      /\ active' \in {active, None} /\ cell' \in {cell, None}
  BY DEF RemoteAnswers, RemoteEnds
<1>2. TypeOK'
  BY <1>1 DEF TypeOK
<1>3. MapOK' /\ VictimsOK' /\ BridgesOK' /\ LineOK'
  BY <1>1 DEF MapOK, VictimsOK, BridgesOK, LineOK, Doubled, Attended, HasBridge, Muddled
<1> QED BY <1>2, <1>3

LEMMA OtherCallKeeps ==
    ASSUME IInv, NEW c \in {Incoming, ApiCall}, OtherCall(c) PROVE IInv'
<1> USE Names, SipConstants DEF IInv, hangup, media
<1>1. /\ UNCHANGED <<at, hangup, media, past, faults>> /\ up' \in BOOLEAN
      /\ active' = c /\ cell' = c /\ c \notin Invites /\ c \in Calls
      /\ Ring \in Keys /\ \A k \in Keys \ {Ring} : sessions'[k] = sessions[k]
      /\ sessions'[Ring] \in {sessions[Ring], Ring}
      /\ sessions' \in [Keys -> Sessions \union {None}]
  <2>1. /\ UNCHANGED <<at, hangup, media, past, faults>> /\ up' = FALSE
        /\ active' = c /\ cell' = c
        /\ sessions' \in {sessions, [sessions EXCEPT ![Ring] = Ring]}
    BY DEF OtherCall
  <2>2. c \notin Invites /\ c \in Calls
    BY DEF Calls
  <2>3. /\ Ring \in Keys /\ Ring \in Sessions
        /\ sessions \in [Keys -> Sessions \union {None}]
    BY DEF TypeOK, Keys, Sessions
  <2>4. CASE sessions' = sessions
    BY ONLY <2>1, <2>2, <2>3, <2>4
  <2>5. CASE sessions' = [sessions EXCEPT ![Ring] = Ring]
    BY ONLY <2>1, <2>2, <2>3, <2>5
  <2> QED BY <2>1, <2>4, <2>5
<1>2. TypeOK'
  <2>1. {active', cell'} \subseteq Calls \union {None}
    BY <1>1
  <2> QED BY <1>1, <2>1 DEF TypeOK
<1>3. MapOK'
  BY <1>1 DEF MapOK
<1>4. VictimsOK'
  BY <1>1 DEF VictimsOK
<1>5. BridgesOK' /\ LineOK'
  <2>1. \A s \in Invites : sessions'[CallID[s]] = sessions[CallID[s]]
    BY <1>1
  <2>a. /\ \A s \in Invites : Doubled(s)' <=> Doubled(s)
        /\ Muddled' <=> Muddled
    BY <1>1 DEF Doubled, Muddled
  <2>b. \A s \in Invites : HasBridge(s)' <=> HasBridge(s)
    BY <1>1 DEF HasBridge
  <2>2. BridgesOK'
    BY <1>1, <2>1, <2>a, <2>b DEF BridgesOK
  <2>3. LineOK'
    BY <1>1 DEF LineOK
  <2> QED BY <2>2, <2>3
<1> QED BY <1>2, <1>3, <1>4, <1>5

LEMMA InviteKeeps ==
    ASSUME IInv, NEW h \in Invites, Invite(h) PROVE IInv'
<1> USE Names, SipConstants DEF IInv, media, line
<1>1. /\ UNCHANGED <<sessions, victim, bye, media, line, faults>> /\ at[h] = "idle"
      /\ \/ at'[h] = "done" /\ past' = past
         \/ at'[h] = "reap" /\ past' = past \union {h}
      /\ \A s \in Invites \ {h} : at'[s] = at[s]
      /\ at' \in [Invites -> Steps] /\ stale' \in [Actors -> SUBSET Keys]
  BY DEF Invite, Goes, TypeOK, Steps, Mapped
<1>2. TypeOK'
  BY <1>1 DEF TypeOK
<1>3. MapOK' /\ VictimsOK'
  BY <1>1 DEF MapOK, VictimsOK
<1>4. \A s \in Invites : Doubled(s) => Doubled(s)'
  BY <1>1 DEF Doubled
<1>5. BridgesOK'
  <2>1. ~Muddled' => ~Muddled
    BY <1>1, <1>4 DEF Muddled, TypeOK
  <2>2. \A s \in Invites : HasBridge(s)' => HasBridge(s)
    BY <1>1 DEF HasBridge
  <2> QED BY <1>1, <1>4, <2>1, <2>2 DEF BridgesOK, Stored
<1>6. LineOK'
  BY <1>1, <1>4 DEF LineOK, Stored, Attended
<1> QED BY <1>2, <1>3, <1>5, <1>6

\* A step of a handler before it stores its session, which leaves the line alone.
LEMMA PrepareKeeps ==
    ASSUME IInv, NEW h \in Invites, Prepare(h) PROVE IInv'
<1> USE Names, SipConstants DEF IInv, hangup, media, line
<1>1. /\ UNCHANGED <<sessions, hangup, media, line, past>>
      /\ at[h] \in {"reap", "ready"} /\ at'[h] \in {"ready", "dial", "fail"}
      /\ \A s \in Invites \ {h} : at'[s] = at[s]
      /\ at' \in [Invites -> Steps] /\ faults' \in 0 .. MaxFaults /\ (faults' = 0 => faults = 0)
  BY DEF Prepare, Goes, Fault, TypeOK, Steps
<1>2. TypeOK'
  BY <1>1 DEF TypeOK
<1>3. MapOK' /\ VictimsOK'
  BY <1>1 DEF MapOK, VictimsOK
<1>4. BridgesOK'
  BY <1>1 DEF BridgesOK, Stored, Doubled, HasBridge, Muddled
<1>5. LineOK'
  BY <1>1 DEF LineOK, Stored, Attended, Doubled
<1> QED BY <1>2, <1>3, <1>4, <1>5

LEMMA DialKeeps ==
    ASSUME IInv, NEW h \in Invites, Dial(h) PROVE IInv'
<1> USE Names, SipConstants DEF IInv, hangup, media
<1>1. /\ UNCHANGED <<sessions, hangup, media, past>> /\ at[h] = "dial"
      /\ \/ at'[h] = "fail" /\ active' = active
         \/ at'[h] = "store" /\ active' = h
      /\ \A s \in Invites \ {h} : at'[s] = at[s]
      /\ at' \in [Invites -> Steps]
      /\ faults' \in 0 .. MaxFaults /\ (faults' = 0 => faults = 0)
      /\ {active', cell'} \subseteq Calls \union {None} /\ up' \in BOOLEAN
  <2>1. /\ at[h] = "dial" /\ at' \in {[at EXCEPT ![h] = "fail"], [at EXCEPT ![h] = "store"]}
        /\ at'[h] = "fail" => active' = active
        /\ at'[h] = "store" => active' = h
        /\ UNCHANGED <<sessions, hangup, media, past>>
    BY DEF Dial, Goes, TypeOK, line
  <2>2. /\ at \in [Invites -> Steps] /\ "fail" \in Steps /\ "store" \in Steps
        /\ faults \in 0 .. MaxFaults /\ h \in Calls
        /\ {active, cell} \subseteq Calls \union {None} /\ up \in BOOLEAN
    BY DEF TypeOK, Steps, Calls
  <2>3. faults' \in {faults, faults + 1} /\ faults' <= MaxFaults
    BY <2>2 DEF Dial, Fault
  <2>4. /\ active' \in {active, h} /\ cell' \in {cell, h} /\ up' \in {up, FALSE}
    BY DEF Dial, line
  <2>5. /\ {active', cell'} \subseteq Calls \union {None} /\ up' \in BOOLEAN
    BY <2>2, <2>4
  <2>6. faults' \in 0 .. MaxFaults /\ (faults' = 0 => faults = 0)
    BY <2>2, <2>3
  <2>7. at' \in [Invites -> Steps] /\ \A s \in Invites \ {h} : at'[s] = at[s]
    BY <2>1, <2>2
  <2>8. at'[h] = "fail" \/ at'[h] = "store"
    BY <2>1, <2>2
  <2> QED BY <2>1, <2>5, <2>6, <2>7, <2>8
<1>2. TypeOK'
  BY <1>1 DEF TypeOK
<1>3. MapOK' /\ VictimsOK'
  BY <1>1 DEF MapOK, VictimsOK
<1>4. BridgesOK'
  BY <1>1 DEF BridgesOK, Stored, Doubled, HasBridge, Muddled
<1>5. LineOK'
  BY <1>1 DEF LineOK, BridgesOK, Stored, Attended, Doubled
<1> QED BY <1>2, <1>3, <1>4, <1>5

LEMMA DialFailedKeeps ==
    ASSUME IInv, NEW h \in Invites, DialFailed(h) PROVE IInv'
<1> USE Names, SipConstants DEF IInv, hangup, line
<1> DEFINE key == CallID[h]
<1>1. /\ UNCHANGED <<hangup, cancelled, bridge, device, line, past, faults>>
      /\ at[h] = "fail" /\ at'[h] = "done" /\ \A s \in Invites \ {h} : at'[s] = at[s]
      /\ key \in Keys /\ sessions'[key] = None
      /\ \A k \in Keys \ {key} : sessions'[k] = sessions[k]
      /\ at' \in [Invites -> Steps] /\ sessions' \in [Keys -> Sessions \union {None}]
  BY DEF DialFailed, Goes, TypeOK, Steps
<1>2. h \in past
  BY <1>1 DEF BridgesOK
<1>3. \A s \in Invites : /\ Doubled(s)' <=> Doubled(s)
                         /\ s # h /\ ~Doubled(s) => CallID[s] # key
                         /\ s # h => (Attended(s)' <=> Attended(s))
  BY <1>1, <1>2 DEF Doubled, Attended
<1>4. h \notin bridge /\ active # h
  BY <1>1 DEF BridgesOK, LineOK, Stored
<1>5. TypeOK'
  BY <1>1 DEF TypeOK
<1>6. MapOK' /\ VictimsOK'
  BY <1>1 DEF MapOK, VictimsOK
<1>7. BridgesOK'
  <2>1. \A s \in Invites : HasBridge(s)' <=> HasBridge(s)
    BY <1>1 DEF HasBridge
  <2>2. Muddled' <=> Muddled
    BY <1>1 DEF Muddled, Doubled
  <2>3. \A s \in Invites : sessions'[CallID[s]] = s => sessions[CallID[s]] = s
    BY <1>1
  <2>4. \A s \in Invites : /\ at'[s] \in Stored => at[s] \in Stored /\ s # h
                           /\ at'[s] \notin {"idle", "done"} => at[s] \notin {"idle", "done"}
                           /\ s \in bridge => s # h
    BY <1>1, <1>4 DEF Stored
  <2> QED BY <1>1, <1>2, <1>3, <2>1, <2>2, <2>3, <2>4 DEF BridgesOK
<1>8. LineOK'
  BY <1>1, <1>2, <1>3, <1>4 DEF LineOK
<1> QED BY <1>5, <1>6, <1>7, <1>8

LEMMA StoreKeeps ==
    ASSUME IInv, NEW h \in Invites, Store(h) PROVE IInv'
<1> USE Names, SipConstants DEF IInv, hangup, media, line
<1> DEFINE key == CallID[h]
<1>1. /\ UNCHANGED <<hangup, media, line, past, faults>>
      /\ at[h] = "store" /\ at'[h] = "await" /\ \A s \in Invites \ {h} : at'[s] = at[s]
      /\ key \in Keys /\ sessions'[key] = h
      /\ \A k \in Keys \ {key} : sessions'[k] = sessions[k]
      /\ at' \in [Invites -> Steps] /\ sessions' \in [Keys -> Sessions \union {None}]
  BY DEF Store, Goes, TypeOK, Steps
<1>2. h \in past /\ h \notin bridge
  BY <1>1 DEF BridgesOK
<1>3. \A s \in Invites : /\ Doubled(s)' <=> Doubled(s)
                         /\ s # h /\ ~Doubled(s) => CallID[s] # key
                         /\ s # h /\ Attended(s) => Attended(s)'
  BY <1>1, <1>2 DEF Doubled, Attended
<1>4. TypeOK'
  BY <1>1 DEF TypeOK
<1>5. MapOK' /\ VictimsOK'
  BY <1>1, <1>2 DEF MapOK, VictimsOK
<1>6. BridgesOK'
  <2>1. \A s \in Invites : HasBridge(s)' <=> HasBridge(s)
    BY <1>1 DEF HasBridge
  <2>2. Muddled' <=> Muddled
    BY <1>1 DEF Muddled, Doubled
  <2>3. \A s \in Invites \ {h} : sessions'[CallID[s]] = s => sessions[CallID[s]] = s
    BY <1>1
  <2>4. ~HasBridge(h)
    BY <1>1, <1>2 DEF HasBridge
  <2>5. \A s \in Invites \ {h} : ~Doubled(s) => sessions'[CallID[s]] = sessions[CallID[s]]
    BY <1>1, <1>3
  <2> QED BY <1>1, <1>2, <1>3, <2>1, <2>2, <2>3, <2>4, <2>5 DEF BridgesOK, Stored
<1>7. LineOK'
  BY <1>1, <1>2, <1>3 DEF LineOK, Stored
<1> QED BY <1>4, <1>5, <1>6, <1>7

LEMMA WaitKeeps ==
    ASSUME IInv, NEW h \in Invites, WaitActive(h) PROVE IInv'
<1> USE Names, SipConstants DEF IInv, hangup, media, line
<1>1. /\ UNCHANGED <<sessions, hangup, media, line, past, faults>>
      /\ at[h] = "await" /\ at'[h] \in {"bridge", "hangup"}
      /\ \A s \in Invites \ {h} : at'[s] = at[s]
      /\ at' \in [Invites -> Steps]
  BY DEF WaitActive, Goes, TypeOK, Steps
<1>2. TypeOK'
  BY <1>1 DEF TypeOK
<1>3. MapOK' /\ VictimsOK'
  BY <1>1 DEF MapOK, VictimsOK
<1>4. BridgesOK'
  BY <1>1 DEF BridgesOK, Stored, Doubled, HasBridge, Muddled
<1>5. LineOK'
  BY <1>1 DEF LineOK, Stored, Attended, Doubled
<1> QED BY <1>2, <1>3, <1>4, <1>5

\* A step of Bridge.Start: the device is taken, given back after a fault, or left alone.
LEMMA BridgeStartKeeps ==
    ASSUME IInv, NEW h \in Invites, BridgeStart(h) PROVE IInv'
<1> USE Names, SipConstants DEF IInv, hangup, line
<1>1. /\ UNCHANGED <<sessions, hangup, cancelled, line, past>>
      /\ at[h] \in {"bridge", "spawn", "start"}
      /\ at'[h] \in {"spawn", "start", "hangup", "done"}
      /\ \A s \in Invites \ {h} : at'[s] = at[s]
      /\ at' \in [Invites -> Steps]
  BY DEF BridgeStart, BridgeTakes, BridgeSpawns, BridgeStarts, Goes, TypeOK, Steps
<1>2. faults' \in 0 .. MaxFaults /\ faults' \in {faults, faults + 1} /\ faults \in Nat
  BY DEF BridgeStart, BridgeTakes, BridgeSpawns, BridgeStarts, Fault, TypeOK
<1>3. /\ bridge' = IF at'[h] = "done" THEN bridge \union {h} ELSE bridge
      /\ h \in past /\ h \notin bridge /\ (at'[h] = "done" <=> at[h] = "start")
  BY DEF BridgeStart, BridgeTakes, BridgeSpawns, BridgeStarts, Goes, TypeOK, BridgesOK
<1>4. /\ device' \in CallIDs \union {None}
      /\ \/ device' = device
         \/ device = None
         \/ device = CallID[h] /\ faults' > 0 /\ at'[h] = "hangup"
      /\ at'[h] = "spawn" \/ (at'[h] = "start" /\ at[h] = "bridge") => device' = CallID[h]
  BY <1>2 DEF BridgeStart, BridgeTakes, BridgeSpawns, BridgeStarts, Goes, Fault, TypeOK
<1>5. /\ \A s \in Invites : /\ Doubled(s)' <=> Doubled(s)
                            /\ s # h => (Attended(s)' <=> Attended(s))
      /\ Attended(h) => Attended(h)'
      /\ ~Muddled' => ~Muddled
  BY <1>1, <1>2 DEF Doubled, Attended, Muddled
<1>6. TypeOK'
  BY <1>1, <1>2, <1>3, <1>4 DEF TypeOK
<1>7. MapOK' /\ VictimsOK'
  BY <1>1 DEF MapOK, VictimsOK
<1>8. ASSUME NEW s \in Invites, HasBridge(s)', ~Muddled', ~Doubled(s) \/ sessions[CallID[s]] = s
      PROVE  device' = CallID[s]
  <2>1. HasBridge(s) => device = CallID[s]
    BY <1>5, <1>8 DEF BridgesOK
  <2>2. CASE s = h /\ ~HasBridge(h)
    BY <1>1, <1>3, <1>4, <1>8, <2>2 DEF HasBridge
  <2>3. CASE HasBridge(s)
    <3>1. device = CallID[s] /\ device # None
      BY <2>1, <2>3
    <3>2. CASE device' = device
      BY <3>1, <3>2
    <3>3. CASE device = CallID[h] /\ faults' > 0 /\ at'[h] = "hangup"
      <4>1. s # h
        BY <1>3, <1>8, <3>3 DEF HasBridge
      <4>2. Doubled(s)' /\ s \in past
        BY <1>1, <1>3, <1>8, <3>1, <3>3, <4>1 DEF Doubled, BridgesOK, HasBridge
      <4> QED BY <1>1, <1>8, <3>3, <4>2 DEF Muddled
    <3> QED BY <1>4, <3>1, <3>2, <3>3
  <2>4. HasBridge(s) \/ s = h
    BY <1>1, <1>3, <1>8 DEF HasBridge
  <2> QED BY <2>2, <2>3, <2>4
<1>9. BridgesOK'
  <2>1. ASSUME NEW s \in Invites
        PROVE  /\ at'[s] \notin {"idle", "done"} => s \in past'
               /\ s \in bridge' => at'[s] = "done" /\ s \in past'
    BY <1>1, <1>3 DEF BridgesOK
  <2>2. ASSUME NEW s \in Invites, at'[s] \in Stored \/ s \in bridge', s \notin cancelled',
               ~Doubled(s)'
        PROVE  sessions'[CallID[s]] = s
    BY <1>1, <1>3, <1>5, <2>2 DEF BridgesOK, Stored
  <2> QED BY <1>1, <1>5, <1>8, <2>1, <2>2 DEF BridgesOK
<1>10. LineOK'
  BY <1>1, <1>2, <1>3, <1>5 DEF LineOK, Stored
<1> QED BY <1>6, <1>7, <1>9, <1>10

LEMMA NextKeeps == IInv /\ [Next]_vars => IInv'
<1> SUFFICES ASSUME IInv, [Next]_vars PROVE IInv'
  OBVIOUS
<1>1. ASSUME NEW h \in Invites, HandleInvite(h) PROVE IInv'
  BY <1>1, InviteKeeps, ReapKeeps, ReapedKeeps, PrepareKeeps, DialKeeps, DialFailedKeeps,
     StoreKeeps
  DEF HandleInvite
<1>2. ASSUME NEW h \in Invites, AwaitBridge(h) PROVE IInv'
  BY <1>2, WaitKeeps, BridgeStartKeeps, GiveUpKeeps DEF AwaitBridge
<1>3. CASE UNCHANGED vars
  BY <1>3
  DEF IInv, TypeOK, MapOK, VictimsOK, BridgesOK, LineOK, Doubled, Attended, HasBridge, Muddled,
      vars, hangup, media, line
<1> QED BY <1>1, <1>2, <1>3, RemoteKeeps, OtherCallKeeps, ByeKeeps DEF Next

THEOREM Invariance == Spec => []IInv
<1>1. Init => IInv
  BY InitHolds
<1>2. IInv /\ [Next]_vars => IInv'
  BY NextKeeps
<1> QED BY <1>1, <1>2, PTL DEF Spec

\* Every variable keeps its type.
THEOREM TypeCorrect == Spec => []TypeOK
<1>1. IInv => TypeOK
  BY DEF IInv
<1> QED BY <1>1, Invariance, PTL

\* A bridge that is started has the audio device, also when its session was hung up while it
\* started: no hangup but its own gives its device away, unless two sessions have one Call-ID.
THEOREM DeviceOwned == Spec => []BridgeHasDevice
<1>1. IInv => BridgeHasDevice
  <2> SUFFICES ASSUME IInv, NEW s \in bridge, ~Doubled(s), ~Muddled PROVE device = CallID[s]
    BY DEF BridgeHasDevice, Muddled
  <2> QED BY DEF IInv, TypeOK, BridgesOK, HasBridge
<1> QED BY <1>1, Invariance, PTL

\* A session that has the line, or a bridge that was not stopped while it started, can be found
\* by the next BYE or INVITE, or is being hung up, whatever handlers overlap.
THEOREM CanBeHungUp == Spec => []CallsCanBeHungUp
<1>1. IInv => CallsCanBeHungUp
  BY DEF IInv, TypeOK, BridgesOK, LineOK, CallsCanBeHungUp, CanBeFound
<1> QED BY <1>1, Invariance, PTL
=============================================================================
