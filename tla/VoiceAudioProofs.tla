-------------------------- MODULE VoiceAudioProofs --------------------------
(***************************************************************************)
(* Theorems about VoiceAudio, for any sessions, calls and failures.  Two   *)
(* arguments: when no call connects twice, one session at most has the     *)
(* ALSA device from Take to AlsaStop; and a start that writes              *)
(* qdc507.Audio.call owes a stop that finds it there, so that two starts   *)
(* in a row, reconnecting or not, end in a stop that does not.             *)
(***************************************************************************)
EXTENDS VoiceAudio, TLAPS

\* A bridge runs, and is stopped, only after its start returned; a pair waits to be
\* reaped only where somebody will.
StepOK ==
    \A s \in Sessions :
        /\ started[s] \/ reader[s] # "off" \/ closer[s] \in {"qdc", "alsa", "reap"}
              => starter[s] = "up"
        /\ closer[s] \in {"qdc", "alsa", "reap"} => ~started[s]
        /\ stale[s] # NoPair => starter[s] = "spawn" \/ closer[s] = "reap"
        /\ s \notin Sip /\ Closing(s) => starter[s] = "up"

\* s has the ALSA device, from Take to AlsaStop.
Owner(s) ==
    \/ starter[s] \in {"spawn", "install", "start"}
    \/ started[s] \/ closer[s] \in {"qdc", "alsa"}

\* No two owners, and the device has only the pair of its owner.
SoleOwner ==
    /\ \A s \in Sessions : Owner(s) => alsaCall = CallOf[s] /\ pair \in {s, NoPair}
    /\ alsaCall # NoCall =>
          \E s \in Sessions : /\ CallOf[s] = alsaCall
                              /\ starter[s] \in {"spawn", "install", "start", "up"}
    /\ \A s \in Sessions : starter[s] \in {"spawn", "install"} => pair = NoPair
    /\ \A s \in Sessions : started[s] => reader[s] \in {s, "read", "off"}

\* Every running pair can be reached.
Reachable ==
    \A p \in alive : \/ pair = p \/ starter[p] = "install"
                     \/ \E t \in Sessions : stale[t] = p

\* No frame of another pair was heard or spoken into.
NoForeignFrame == \A s \in Sessions : heard[s] = {} /\ spoken[s] = {}

SoleOK ==
    NoReconnect => SoleOwner /\ Reachable /\ NoForeignFrame

\* s has written qdc507.Audio.call and will take it out again.
Owes(s) == starter[s] \in {"take", "spawn", "install", "start"} \/ started[s] \/ closer[s] = "qdc"

\* Two owe a stop, or one whose call was taken out: one stop will not find its call.
Doomed ==
    \E s \in Sessions : Owes(s) /\ (qdcCall = NoCall \/ \E t \in Sessions \ {s} : Owes(t))

\* As long as starts and stops found what they should, whatever is in use has somebody
\* who will release it.
ReleaseOK ==
    ~unclean =>
        /\ \A s \in Sessions : started[s] \/ starter[s] \in {"spawn", "install", "start"}
                                 => closer[s] \in {"idle", "stop"}
        /\ qdcCall # NoCall => \E s \in Sessions : Owes(s)
        /\ alsaCall # NoCall => \E s \in Sessions : Owner(s)
        /\ pair # NoPair =>
              \E s \in Sessions : starter[s] = "start" \/ started[s] \/ closer[s] \in {"qdc", "alsa"}
        /\ ~Doomed => /\ Reachable
                      /\ \A s \in Sessions : starter[s] \in {"spawn", "install"} => pair = NoPair

\* The inductive invariant.
IInv == TypeOK /\ StepOK /\ SoleOK /\ ReleaseOK
-----------------------------------------------------------------------------
(* Lemmas.                                                                 *)

\* Who has not begun had not begun before, so NoReconnect holds of the past as well.
LEMMA ReconnectStays ==
    ASSUME NoReconnect', \A x \in Sessions : starter'[x] = "idle" => starter[x] = "idle"
    PROVE  NoReconnect
  BY DEF NoReconnect

\* When no call connects twice the device has one owner.
LEMMA OneOwner ==
    ASSUME StepOK, SoleOK, NoReconnect, NEW s \in Sessions, NEW t \in Sessions, Owner(s), Owner(t)
    PROVE  s = t
  BY DEF StepOK, SoleOK, SoleOwner, NoReconnect, Owner

-----------------------------------------------------------------------------
(* The goroutine that starts.                                              *)

\* Where the starter of a session has nothing to do with the device, and the steps it
\* takes there.
Outside == {"idle", "check", "ensure", "recent", "forget", "boot", "kill", "launch",
            "ready", "dial", "own", "failed"}
Walk(s) ==
    \/ PrepareRoute(s) \/ Answered(s) \/ WebRTCOffer(s) \/ QdcStart(s)
    \/ ReadPrepared(s) \/ ReadRotation(s) \/ ForgetPrepared(s)
    \/ Bootstrap(s) \/ BootstrapFails(s)
    \/ KillRoute(s) \/ LaunchRoute(s) \/ RouteReady(s) \/ RouteFails(s)

\* They move from one such place to another.
LEMMA WalkOutside ==
    ASSUME TypeOK, NEW s \in Sessions, Walk(s)
    PROVE  /\ TypeOK'
           /\ starter[s] \in Outside /\ starter'[s] \in Outside \ {"idle"}
           /\ \A x \in Sessions \ {s} : starter'[x] = starter[x]
           /\ UNCHANGED <<closer, qdcCall, alsa, bridge, unclean>>
  <1> USE VoiceConstants DEF TypeOK, StarterStates, Goes, Outside, qdc
  <1>1. CASE PrepareRoute(s) BY <1>1 DEF PrepareRoute, alsa, bridge
  <1>2. CASE Answered(s) BY <1>2 DEF Answered, alsa, bridge
  <1>3. CASE WebRTCOffer(s) BY <1>3 DEF WebRTCOffer, alsa, bridge
  <1>4. CASE QdcStart(s) BY <1>4 DEF QdcStart, alsa, bridge
  <1>5. CASE ReadPrepared(s) BY <1>5 DEF ReadPrepared, alsa, bridge
  <1>6. CASE ReadRotation(s) BY <1>6 DEF ReadRotation, Ensured, alsa, bridge
  <1>7. CASE ForgetPrepared(s) BY <1>7 DEF ForgetPrepared, alsa, bridge
  <1>8. CASE Bootstrap(s) BY <1>8 DEF Bootstrap, alsa, bridge
  <1>9. CASE BootstrapFails(s) BY <1>9 DEF BootstrapFails, Fails, alsa, bridge
  <1>10. CASE KillRoute(s)
    <2>1. faults' \in 0 .. MaxFaults BY <1>10 DEF KillRoute, Fails
    <2> QED BY <1>10, <2>1 DEF KillRoute, alsa, bridge
  <1>11. CASE LaunchRoute(s) BY <1>11 DEF LaunchRoute, alsa, bridge
  <1>12. CASE RouteReady(s) BY <1>12 DEF RouteReady, Ensured, alsa, bridge
  <1>13. CASE RouteFails(s) BY <1>13 DEF RouteFails, Fails, alsa, bridge
  <1> QED BY <1>1, <1>2, <1>3, <1>4, <1>5, <1>6, <1>7, <1>8, <1>9, <1>10, <1>11, <1>12, <1>13
          DEF Walk

\* Up to OwnQdc a start changes nothing the invariant is about.
LEMMA WalkKeeps ==
    ASSUME IInv, NEW s \in Sessions, Walk(s)
    PROVE  IInv'
  <1> USE DEF IInv, Outside
  <1>0. /\ TypeOK'
        /\ starter[s] \in Outside /\ starter'[s] \in Outside \ {"idle"}
        /\ \A x \in Sessions \ {s} : starter'[x] = starter[x]
        /\ UNCHANGED <<closer, qdcCall, alsa, bridge, unclean>>
    BY WalkOutside
  <1>2. StepOK'
    BY <1>0 DEF StepOK, alsa, bridge, Closing
  <1>3. SoleOK'
    <2>0. SUFFICES ASSUME NoReconnect' PROVE SoleOwner' /\ Reachable' /\ NoForeignFrame'
      BY DEF SoleOK
    <2>1. NoReconnect
      BY <2>0, <1>0, ReconnectStays
    <2>2. \A x \in Sessions : Owner(x)' <=> Owner(x)
      BY <1>0 DEF Owner, bridge
    <2>3. SoleOwner'
      BY <2>1, <2>2, <1>0 DEF SoleOK, SoleOwner, alsa, bridge
    <2> QED BY <2>1, <2>3, <1>0 DEF TypeOK, SoleOK, NoForeignFrame, Reachable, alsa, bridge
  <1>4. ReleaseOK'
    <2>1. \A x \in Sessions : (Owes(x)' <=> Owes(x)) /\ (Owner(x)' <=> Owner(x))
      BY <1>0 DEF Owes, Owner, bridge
    <2>2. Doomed' <=> Doomed
      BY <2>1, <1>0 DEF Doomed
    <2> QED BY <2>1, <2>2, <1>0 DEF TypeOK, ReleaseOK, Reachable, alsa, bridge
  <1> QED BY <1>0, <1>2, <1>3, <1>4

\* OwnQdc adds one who owes a stop.
LEMMA OwnKeeps ==
    ASSUME IInv, NEW s \in Sessions, OwnQdc(s)
    PROVE  IInv'
  <1> USE VoiceConstants DEF IInv
  <1>0. /\ TypeOK' /\ starter[s] = "own" /\ starter'[s] = "take" /\ qdcCall' = CallOf[s]
        /\ \A x \in Sessions \ {s} : starter'[x] = starter[x]
        /\ UNCHANGED <<closer, alsa, bridge, unclean>>
    <2>1. CallOf[s] \in Calls
      OBVIOUS
    <2> QED BY <2>1 DEF OwnQdc, Goes, TypeOK, StarterStates, alsa, bridge
  <1>1. StepOK'
    BY <1>0 DEF StepOK, alsa, bridge, Closing
  <1>2. \A x \in Sessions : Owner(x)' <=> Owner(x)
    BY <1>0 DEF Owner, bridge
  <1>3. SoleOK'
    <2>0. SUFFICES ASSUME NoReconnect' PROVE SoleOwner' /\ Reachable' /\ NoForeignFrame'
      BY DEF SoleOK
    <2>1. NoReconnect
      BY <2>0, <1>0, ReconnectStays
    <2>2. SoleOwner'
      BY <2>1, <1>2, <1>0 DEF SoleOK, SoleOwner, alsa, bridge
    <2> QED BY <2>1, <2>2, <1>0 DEF TypeOK, SoleOK, NoForeignFrame, Reachable, alsa, bridge
  <1>4. ReleaseOK'
    <2>1. ~Owes(s) /\ Owes(s)' /\ \A x \in Sessions \ {s} : Owes(x)' <=> Owes(x)
      BY <1>0 DEF StepOK, Owes, bridge
    <2>2. Doomed => Doomed'
      BY <2>1 DEF Doomed
    <2> QED BY <2>1, <2>2, <1>0, <1>2 DEF TypeOK, ReleaseOK, Reachable, alsa, bridge
  <1> QED BY <1>0, <1>1, <1>3, <1>4

\* A refused start loses a debt, which unclean records.
LEMMA TakeRefusedKeeps ==
    ASSUME IInv, NEW s \in Sessions, TakeRefused(s)
    PROVE  IInv'
  <1> USE VoiceConstants DEF IInv
  <1>0. /\ TypeOK' /\ starter[s] = "take" /\ starter'[s] = "failed" /\ unclean'
        /\ \A x \in Sessions \ {s} : starter'[x] = starter[x]
        /\ UNCHANGED <<closer, qdc, alsa, bridge>>
    BY DEF TakeRefused, Goes, TypeOK, StarterStates, qdc, alsa, bridge
  <1>1. StepOK'
    BY <1>0 DEF StepOK, alsa, bridge, Closing
  <1>2. \A x \in Sessions : Owner(x)' <=> Owner(x)
    BY <1>0 DEF Owner, bridge
  <1>3. SoleOK'
    <2>0. SUFFICES ASSUME NoReconnect' PROVE SoleOwner' /\ Reachable' /\ NoForeignFrame'
      BY DEF SoleOK
    <2>1. NoReconnect
      BY <2>0, <1>0, ReconnectStays
    <2>2. SoleOwner'
      BY <2>1, <1>2, <1>0 DEF SoleOK, SoleOwner, alsa, bridge
    <2> QED BY <2>1, <2>2, <1>0 DEF TypeOK, SoleOK, NoForeignFrame, Reachable, alsa, bridge
  <1> QED BY <1>0, <1>1, <1>3 DEF ReleaseOK

\* A second start of the call that has the device is one of a client that connects again.
LEMMA TakeAgainKeeps ==
    ASSUME IInv, NEW s \in Sessions, TakeAgain(s)
    PROVE  IInv'
  <1> USE VoiceConstants DEF IInv
  <1>0. /\ TypeOK' /\ starter[s] = "take" /\ starter'[s] = "start" /\ alsaCall = CallOf[s]
        /\ ~Cancelled(s)
        /\ \A x \in Sessions \ {s} : starter'[x] = starter[x]
        /\ UNCHANGED <<closer, qdc, alsa, bridge, unclean>>
    BY DEF TakeAgain, Goes, TypeOK, StarterStates, qdc, alsa, bridge
  <1>1. StepOK'
    BY <1>0 DEF StepOK, alsa, bridge, Closing
  <1>2. ~NoReconnect'
    <2> SUFFICES ASSUME NoReconnect' PROVE FALSE
      OBVIOUS
    <2>1. NoReconnect
      BY <1>0, ReconnectStays
    <2>2. PICK x \in Sessions : CallOf[x] = alsaCall /\ starter[x] \in {"spawn", "install", "start", "up"}
      BY <2>1, <1>0 DEF SoleOK, SoleOwner
    <2> QED BY <2>1, <2>2, <1>0 DEF NoReconnect
  <1>3. ReleaseOK'
    <2>1. \A x \in Sessions : (Owes(x)' <=> Owes(x)) /\ (Owner(x) => Owner(x)')
      BY <1>0 DEF Owes, Owner, bridge
    <2>2. Doomed' <=> Doomed
      BY <2>1, <1>0 DEF Doomed, qdc
    <2>3. closer[s] = "idle"
      BY <1>0 DEF StepOK, Cancelled, Closing
    <2> QED BY <2>1, <2>2, <2>3, <1>0 DEF TypeOK, ReleaseOK, Reachable, qdc, alsa, bridge
  <1> QED BY <1>0, <1>1, <1>2, <1>3 DEF SoleOK

\* Take finds the device without owner, and moves the pair that is in it to stale.
LEMMA TakeKeeps ==
    ASSUME IInv, NEW s \in Sessions, Take(s)
    PROVE  IInv'
  <1> USE VoiceConstants DEF IInv
  <1>0. /\ TypeOK' /\ starter[s] = "take" /\ starter'[s] = "spawn"
        /\ ~Cancelled(s) /\ alsaCall = NoCall /\ alsaCall' = CallOf[s]
        /\ stale'[s] = pair /\ pair' = NoPair
        /\ \A x \in Sessions \ {s} : starter'[x] = starter[x] /\ stale'[x] = stale[x]
        /\ UNCHANGED <<closer, qdc, alive, bridge, unclean>>
    <2>1. CallOf[s] \in Calls
      OBVIOUS
    <2> QED BY <2>1 DEF Take, Goes, TypeOK, StarterStates, qdc, bridge
  <1>1. StepOK'
    BY <1>0 DEF StepOK, bridge, Closing
  <1>2. Reachable => Reachable'
    <2>1. stale[s] = NoPair
      BY <1>0 DEF StepOK
    <2> QED BY <1>0, <2>1 DEF TypeOK, Reachable
  <1>3. SoleOK'
    <2>0. SUFFICES ASSUME NoReconnect' PROVE SoleOwner' /\ Reachable' /\ NoForeignFrame'
      BY DEF SoleOK
    <2>1. NoReconnect
      BY <2>0, <1>0, ReconnectStays
    <2>2. \A x \in Sessions : ~Owner(x)
      BY <2>1, <1>0 DEF SoleOK, SoleOwner
    <2>3. \A x \in Sessions \ {s} : ~Owner(x)'
      BY <2>2, <1>0 DEF Owner, bridge
    <2>4. SoleOwner'
      BY <2>1, <2>2, <2>3, <1>0 DEF SoleOK, SoleOwner, Owner, bridge
    <2> QED BY <2>1, <2>4, <1>0, <1>2 DEF SoleOK, NoForeignFrame, bridge
  <1>4. ReleaseOK'
    <2>1. \A x \in Sessions : Owes(x)' <=> Owes(x)
      BY <1>0 DEF Owes, bridge
    <2>2. Doomed' <=> Doomed
      BY <2>1, <1>0 DEF Doomed, qdc
    <2>3. closer[s] = "idle" /\ Owner(s)'
      BY <1>0 DEF StepOK, Cancelled, Closing, Owner
    <2> QED BY <2>1, <2>2, <2>3, <1>0, <1>2 DEF TypeOK, ReleaseOK, qdc, bridge
  <1> QED BY <1>0, <1>1, <1>3, <1>4

\* Spawn ends the stale pair and starts a new one.
LEMMA SpawnKeeps ==
    ASSUME IInv, NEW s \in Sessions, Spawn(s)
    PROVE  IInv'
  <1> USE VoiceConstants DEF IInv
  <1>0. /\ TypeOK' /\ starter[s] = "spawn" /\ starter'[s] = "install"
        /\ alive' = (alive \ {stale[s]}) \union {s} /\ stale'[s] = NoPair
        /\ \A x \in Sessions \ {s} : starter'[x] = starter[x] /\ stale'[x] = stale[x]
        /\ UNCHANGED <<closer, qdc, alsaCall, pair, bridge, unclean>>
    BY DEF Spawn, Goes, TypeOK, StarterStates, qdc, bridge
  <1>1. StepOK'
    BY <1>0 DEF StepOK, bridge, Closing
  <1>2. Reachable => Reachable'
    BY <1>0 DEF TypeOK, Reachable
  <1>3. \A x \in Sessions : (Owes(x)' <=> Owes(x)) /\ (Owner(x)' <=> Owner(x))
    BY <1>0 DEF Owes, Owner, bridge
  <1>4. SoleOK'
    <2>0. SUFFICES ASSUME NoReconnect' PROVE SoleOwner' /\ Reachable' /\ NoForeignFrame'
      BY DEF SoleOK
    <2>1. NoReconnect
      BY <2>0, <1>0, ReconnectStays
    <2>2. SoleOwner'
      BY <2>1, <1>0, <1>3 DEF SoleOK, SoleOwner, bridge
    <2> QED BY <2>1, <2>2, <1>0, <1>2 DEF SoleOK, NoForeignFrame, bridge
  <1>5. ReleaseOK'
    <2>1. Doomed' <=> Doomed
      BY <1>3, <1>0 DEF Doomed, qdc
    <2> QED BY <2>1, <1>0, <1>2, <1>3 DEF TypeOK, ReleaseOK, qdc, bridge
  <1> QED BY <1>0, <1>1, <1>4, <1>5

\* A start that fails here gives the device back.
LEMMA SpawnFailsKeeps ==
    ASSUME IInv, NEW s \in Sessions, SpawnFails(s)
    PROVE  IInv'
  <1> USE VoiceConstants DEF IInv
  <1>0. /\ TypeOK' /\ starter[s] = "spawn" /\ starter'[s] = "failed" /\ unclean'
        /\ alive' = alive \ {stale[s]} /\ stale'[s] = NoPair
        /\ alsaCall' = IF alsaCall = CallOf[s] THEN NoCall ELSE alsaCall
        /\ \A x \in Sessions \ {s} : starter'[x] = starter[x] /\ stale'[x] = stale[x]
        /\ UNCHANGED <<closer, pair, bridge>>
    BY DEF SpawnFails, Goes, TypeOK, StarterStates, qdc, bridge
  <1>1. StepOK'
    BY <1>0 DEF StepOK, bridge, Closing
  <1>2. Reachable => Reachable'
    BY <1>0 DEF TypeOK, Reachable
  <1>3. SoleOK'
    <2>0. SUFFICES ASSUME NoReconnect' PROVE SoleOwner' /\ Reachable' /\ NoForeignFrame'
      BY DEF SoleOK
    <2>1. NoReconnect
      BY <2>0, <1>0, ReconnectStays
    <2>2. Owner(s) /\ \A x \in Sessions \ {s} : ~Owner(x)
      BY <2>1, <1>0, OneOwner DEF Owner
    <2>3. \A x \in Sessions : ~Owner(x)'
      BY <2>2, <1>0 DEF StepOK, Owner, bridge
    <2>4. alsaCall' = NoCall
      BY <2>1, <2>2, <1>0 DEF SoleOK, SoleOwner
    <2>5. SoleOwner'
      BY <2>1, <2>3, <2>4, <1>0 DEF SoleOK, SoleOwner, bridge
    <2> QED BY <2>1, <2>5, <1>0, <1>2 DEF SoleOK, NoForeignFrame, bridge
  <1> QED BY <1>0, <1>1, <1>3 DEF ReleaseOK

\* The new pair takes a place that is free, if nobody else started meanwhile.
LEMMA InstallKeeps ==
    ASSUME IInv, NEW s \in Sessions, Install(s)
    PROVE  IInv'
  <1> USE VoiceConstants DEF IInv
  <1>0. /\ TypeOK' /\ starter[s] = "install" /\ starter'[s] = "start" /\ pair' = s
        /\ \A x \in Sessions \ {s} : starter'[x] = starter[x]
        /\ UNCHANGED <<closer, qdc, alsaCall, stale, alive, bridge, unclean>>
    BY DEF Install, Goes, TypeOK, StarterStates, qdc, bridge
  <1>1. StepOK'
    BY <1>0 DEF StepOK, bridge, Closing
  <1>2. pair = NoPair /\ Reachable => Reachable'
    BY <1>0 DEF TypeOK, Reachable
  <1>3. \A x \in Sessions : (Owes(x)' <=> Owes(x)) /\ (Owner(x)' <=> Owner(x))
    BY <1>0 DEF Owes, Owner, bridge
  <1>4. SoleOK'
    <2>0. SUFFICES ASSUME NoReconnect' PROVE SoleOwner' /\ Reachable' /\ NoForeignFrame'
      BY DEF SoleOK
    <2>1. NoReconnect
      BY <2>0, <1>0, ReconnectStays
    <2>2. Owner(s) /\ \A x \in Sessions \ {s} : ~Owner(x)
      BY <2>1, <1>0, OneOwner DEF Owner
    <2>3. \A x \in Sessions : starter'[x] \notin {"spawn", "install"}
      BY <2>2, <1>0 DEF Owner
    <2>4. SoleOwner'
      BY <2>1, <2>2, <2>3, <1>0, <1>3 DEF SoleOK, SoleOwner, bridge
    <2> QED BY <2>1, <2>4, <1>0, <1>2 DEF SoleOK, NoForeignFrame, SoleOwner, bridge
  <1>5. ReleaseOK'
    <2>1. Doomed' <=> Doomed
      BY <1>3, <1>0 DEF Doomed, qdc
    <2>2. ~Doomed => \A x \in Sessions \ {s} : starter[x] \notin {"spawn", "install"}
      BY <1>0 DEF Doomed, Owes
    <2> QED BY <2>1, <2>2, <1>0, <1>2, <1>3 DEF TypeOK, ReleaseOK, qdc, bridge
  <1> QED BY <1>0, <1>1, <1>4, <1>5

\* The bridge runs.
LEMMA BridgeStartKeeps ==
    ASSUME IInv, NEW s \in Sessions, BridgeStart(s)
    PROVE  IInv'
  <1> USE VoiceConstants DEF IInv
  <1>0. /\ TypeOK' /\ starter[s] = "start" /\ starter'[s] = "up"
        /\ started'[s] = TRUE /\ reader'[s] = "read"
        /\ \A x \in Sessions \ {s} : /\ starter'[x] = starter[x]
                                     /\ started'[x] = started[x] /\ reader'[x] = reader[x]
        /\ UNCHANGED <<closer, qdc, alsa, heard, spoken, unclean>>
    BY DEF BridgeStart, Goes, TypeOK, StarterStates, qdc, alsa
  <1>1. StepOK'
    BY <1>0 DEF StepOK, alsa, Closing
  <1>2. Reachable => Reachable'
    BY <1>0 DEF TypeOK, Reachable, alsa
  <1>3. \A x \in Sessions : (Owes(x)' <=> Owes(x)) /\ (Owner(x)' <=> Owner(x))
    BY <1>0 DEF Owes, Owner
  <1>4. SoleOK'
    <2>0. SUFFICES ASSUME NoReconnect' PROVE SoleOwner' /\ Reachable' /\ NoForeignFrame'
      BY DEF SoleOK
    <2>1. NoReconnect
      BY <2>0, <1>0, ReconnectStays
    <2>2. SoleOwner'
      BY <2>1, <1>0, <1>3 DEF SoleOK, SoleOwner, alsa
    <2> QED BY <2>1, <2>2, <1>0, <1>2 DEF SoleOK, NoForeignFrame
  <1>5. ReleaseOK'
    <2>1. Doomed' <=> Doomed
      BY <1>3, <1>0 DEF Doomed, qdc
    <2> QED BY <2>1, <1>0, <1>2, <1>3 DEF TypeOK, ReleaseOK, qdc, alsa
  <1> QED BY <1>0, <1>1, <1>4, <1>5

\* Every step of a start keeps the invariant.
LEMMA StartKeeps ==
    ASSUME IInv, NEW s \in Sessions, Start(s)
    PROVE  IInv'
  BY WalkKeeps, OwnKeeps, TakeRefusedKeeps, TakeAgainKeeps, TakeKeeps, SpawnKeeps, SpawnFailsKeeps,
     InstallKeeps, BridgeStartKeeps DEF Start, Walk

-----------------------------------------------------------------------------
(* The goroutine that stops.                                               *)

\* The decision to stop changes nothing yet.
LEMMA CloseKeeps ==
    ASSUME IInv, NEW s \in Sessions, Close(s)
    PROVE  IInv'
  <1> USE VoiceConstants DEF IInv
  <1>0. /\ TypeOK' /\ closer[s] = "idle" /\ closer'[s] = "stop" /\ (s \in Sip \/ starter[s] = "up")
        /\ \A x \in Sessions \ {s} : closer'[x] = closer[x]
        /\ UNCHANGED <<starter, qdc, alsa, bridge, unclean>>
    BY DEF Close, Closes, TypeOK, CloserStates, qdc, alsa, bridge
  <1>1. StepOK'
    BY <1>0 DEF StepOK, alsa, bridge, Closing
  <1>2. \A x \in Sessions : (Owes(x)' <=> Owes(x)) /\ (Owner(x)' <=> Owner(x))
    BY <1>0 DEF Owes, Owner, bridge
  <1>3. SoleOK'
    BY <1>0, <1>2 DEF SoleOK, NoReconnect, SoleOwner, Reachable, NoForeignFrame, alsa, bridge
  <1>4. ReleaseOK'
    <2>1. Doomed' <=> Doomed
      BY <1>2, <1>0 DEF Doomed, qdc
    <2> QED BY <2>1, <1>0, <1>2 DEF ReleaseOK, Reachable, qdc, alsa, bridge
  <1> QED BY <1>0, <1>1, <1>3, <1>4

\* A stop that comes while the bridge starts finds nothing to do, which unclean records.
LEMMA BridgeStopKeeps ==
    ASSUME IInv, NEW s \in Sessions, BridgeStop(s)
    PROVE  IInv'
  <1> USE VoiceConstants DEF IInv
  <1>0. /\ TypeOK' /\ closer[s] = "stop" /\ closer'[s] = (IF started[s] THEN "qdc" ELSE "done")
        /\ started'[s] = FALSE /\ unclean' = (unclean \/ starter[s] \in {"spawn", "install", "start"})
        /\ \A x \in Sessions \ {s} : closer'[x] = closer[x] /\ started'[x] = started[x]
        /\ UNCHANGED <<starter, qdc, alsa, reader, heard, spoken>>
    BY DEF BridgeStop, Closes, TypeOK, CloserStates, qdc, alsa
  <1>1. StepOK'
    BY <1>0 DEF StepOK, alsa, Closing
  <1>2. \A x \in Sessions : (Owes(x)' <=> Owes(x)) /\ (Owner(x)' <=> Owner(x))
    BY <1>0 DEF Owes, Owner
  <1>3. SoleOK'
    BY <1>0, <1>2 DEF SoleOK, NoReconnect, SoleOwner, Reachable, NoForeignFrame, alsa
  <1>4. ReleaseOK'
    <2>1. Doomed' <=> Doomed
      BY <1>2, <1>0 DEF Doomed, qdc
    <2> QED BY <2>1, <1>0, <1>2 DEF ReleaseOK, Reachable, qdc, alsa
  <1> QED BY <1>0, <1>1, <1>3, <1>4

\* Whoever is stopped pays his debt, and of two one will find no call.
LEMMA QdcStopKeeps ==
    ASSUME IInv, NEW s \in Sessions, QdcStop(s)
    PROVE  IInv'
  <1> USE VoiceConstants DEF IInv
  <1>0. /\ TypeOK' /\ closer[s] = "qdc" /\ closer'[s] = (IF qdcCall # NoCall THEN "alsa" ELSE "done")
        /\ qdcCall' = NoCall /\ unclean' = (unclean \/ qdcCall # CallOf[s])
        /\ \A x \in Sessions \ {s} : closer'[x] = closer[x]
        /\ UNCHANGED <<starter, alsa, bridge>>
    BY DEF QdcStop, Closes, TypeOK, CloserStates, alsa, bridge
  <1>1. StepOK'
    BY <1>0 DEF StepOK, alsa, bridge, Closing
  <1>2. \A x \in Sessions : Owner(x)' => Owner(x)
    BY <1>0 DEF Owner, bridge
  <1>3. SoleOK'
    BY <1>0, <1>2 DEF SoleOK, NoReconnect, SoleOwner, Reachable, NoForeignFrame, alsa, bridge
  <1>4. ReleaseOK'
    <2>0. SUFFICES ASSUME ~unclean' PROVE ReleaseOK'
      BY DEF ReleaseOK
    <2>1. qdcCall = CallOf[s] /\ qdcCall # NoCall /\ ~unclean /\ closer'[s] = "alsa"
      <3>1. qdcCall = CallOf[s] /\ ~unclean
        BY <2>0, <1>0
      <3>2. CallOf[s] \in Calls
        OBVIOUS
      <3> QED BY <3>1, <3>2, <1>0
    <2>2. \A x \in Sessions : Owner(x) => Owner(x)'
      BY <2>1, <1>0 DEF Owner, bridge
    <2>3. \A x \in Sessions \ {s} : Owes(x)' <=> Owes(x)
      BY <1>0 DEF Owes, bridge
    <2>4. Doomed => Doomed'
      BY <2>1, <2>3, <1>0 DEF Doomed
    <2> QED BY <2>1, <2>2, <2>4, <1>0 DEF ReleaseOK, Reachable, alsa, bridge
  <1> QED BY <1>0, <1>1, <1>3, <1>4

\* ALSAAudio.Stop takes the pair out of the device, and Reap will end it.
LEMMA AlsaStopKeeps ==
    ASSUME IInv, NEW s \in Sessions, AlsaStop(s)
    PROVE  IInv'
  <1> USE VoiceConstants DEF IInv
  <1>0. /\ TypeOK' /\ closer[s] = "alsa" /\ closer'[s] = "reap" /\ alsaCall' = NoCall
        /\ stale'[s] = pair /\ pair' = NoPair
        /\ \A x \in Sessions \ {s} : closer'[x] = closer[x] /\ stale'[x] = stale[x]
        /\ UNCHANGED <<starter, qdc, alive, bridge, unclean>>
    BY DEF AlsaStop, Closes, TypeOK, CloserStates, qdc, bridge
  <1>1. StepOK'
    BY <1>0 DEF StepOK, bridge, Closing
  <1>2. Reachable => Reachable'
    <2>1. stale[s] = NoPair
      BY <1>0 DEF StepOK
    <2> QED BY <1>0, <2>1 DEF TypeOK, Reachable
  <1>3. SoleOK'
    <2>0. SUFFICES ASSUME NoReconnect' PROVE SoleOwner' /\ Reachable' /\ NoForeignFrame'
      BY DEF SoleOK
    <2>1. NoReconnect
      BY <2>0, <1>0, ReconnectStays
    <2>2. \A x \in Sessions \ {s} : ~Owner(x)
      BY <2>1, <1>0, OneOwner DEF Owner
    <2>3. \A x \in Sessions : ~Owner(x)'
      BY <2>2, <1>0 DEF StepOK, Owner, bridge
    <2>4. SoleOwner'
      BY <2>1, <2>3, <1>0 DEF SoleOK, SoleOwner, bridge
    <2> QED BY <2>1, <2>4, <1>0, <1>2 DEF SoleOK, NoForeignFrame, bridge
  <1>4. ReleaseOK'
    <2>1. \A x \in Sessions : Owes(x)' <=> Owes(x)
      BY <1>0 DEF Owes, bridge
    <2>2. Doomed' <=> Doomed
      BY <2>1, <1>0 DEF Doomed, qdc
    <2> QED BY <2>1, <2>2, <1>0, <1>2 DEF ReleaseOK, qdc, bridge
  <1> QED BY <1>0, <1>1, <1>3, <1>4

\* The pair that was taken out ends.
LEMMA ReapKeeps ==
    ASSUME IInv, NEW s \in Sessions, Reap(s)
    PROVE  IInv'
  <1> USE VoiceConstants DEF IInv
  <1>0. /\ TypeOK' /\ closer[s] = "reap" /\ closer'[s] = "done"
        /\ alive' = alive \ {stale[s]} /\ stale'[s] = NoPair
        /\ \A x \in Sessions \ {s} : closer'[x] = closer[x] /\ stale'[x] = stale[x]
        /\ UNCHANGED <<starter, qdc, alsaCall, pair, bridge, unclean>>
    BY DEF Reap, Closes, TypeOK, CloserStates, qdc, bridge
  <1>1. StepOK'
    BY <1>0 DEF StepOK, bridge, Closing
  <1>2. Reachable => Reachable'
    BY <1>0 DEF TypeOK, Reachable
  <1>3. \A x \in Sessions : (Owes(x)' <=> Owes(x)) /\ (Owner(x)' <=> Owner(x))
    BY <1>0 DEF Owes, Owner, bridge
  <1>4. SoleOK'
    BY <1>0, <1>2, <1>3 DEF SoleOK, NoReconnect, SoleOwner, NoForeignFrame, bridge
  <1>5. ReleaseOK'
    <2>1. Doomed' <=> Doomed
      BY <1>3, <1>0 DEF Doomed, qdc
    <2>2. starter[s] = "up" /\ ~started[s]
      BY <1>0 DEF StepOK
    <2> QED BY <2>1, <2>2, <1>0, <1>2, <1>3 DEF ReleaseOK, qdc, bridge
  <1> QED BY <1>0, <1>1, <1>4, <1>5

\* Every step of a stop keeps the invariant.
LEMMA StopKeeps ==
    ASSUME IInv, NEW s \in Sessions, Stop(s)
    PROVE  IInv'
  BY CloseKeeps, BridgeStopKeeps, QdcStopKeeps, AlsaStopKeeps, ReapKeeps DEF Stop

-----------------------------------------------------------------------------
(* The loops of a bridge.                                                  *)

\* They take nothing and give nothing back; when no call connects twice, a running
\* bridge meets its own pair only.
LEMMA LoopsKeep ==
    ASSUME IInv, NEW s \in Sessions, Loops(s)
    PROVE  IInv'
  <1> USE VoiceConstants DEF IInv
  <1>0. /\ UNCHANGED <<starter, closer, qdc, alsa, started, unclean>>
        /\ \A x \in Sessions \ {s} : /\ reader'[x] = reader[x] /\ heard'[x] = heard[x]
                                     /\ spoken'[x] = spoken[x]
    BY DEF Loops, ReadFrame, DeliverFrame, WriteFrame, TypeOK, qdc, alsa
  <1>1. TypeOK'
    <2>1. CASE ReadFrame(s) BY <2>1 DEF ReadFrame, TypeOK, qdc, alsa
    <2>2. CASE DeliverFrame(s) BY <2>2 DEF DeliverFrame, TypeOK, qdc, alsa
    <2>3. CASE WriteFrame(s) BY <2>3 DEF WriteFrame, TypeOK, qdc, alsa
    <2> QED BY <2>1, <2>2, <2>3 DEF Loops
  <1>2. reader'[s] # "off" => reader[s] # "off"
    BY DEF Loops, ReadFrame, DeliverFrame, WriteFrame, TypeOK
  <1>3. StepOK'
    BY <1>0, <1>2 DEF StepOK, alsa, Closing
  <1>4. \A x \in Sessions : (Owes(x)' <=> Owes(x)) /\ (Owner(x)' <=> Owner(x))
    BY <1>0 DEF Owes, Owner
  <1>5. SoleOK'
    <2>0. SUFFICES ASSUME NoReconnect' PROVE SoleOwner' /\ Reachable' /\ NoForeignFrame'
      BY DEF SoleOK
    <2>1. NoReconnect
      BY <2>0, <1>0, ReconnectStays
    <2>2. started[s] => pair \in {s, NoPair} /\ reader[s] \in {s, "read", "off"}
      BY <2>1 DEF SoleOK, SoleOwner, Owner
    <2>3. started[s] => reader'[s] \in {s, "read", "off"}
      BY <2>2 DEF Loops, ReadFrame, DeliverFrame, WriteFrame, TypeOK
    <2>4. heard[s] = {} /\ spoken[s] = {}
      BY <2>1 DEF SoleOK, NoForeignFrame
    <2>5. heard'[s] = {} /\ spoken'[s] = {}
      <3>1. CASE ReadFrame(s) BY <3>1, <2>4 DEF ReadFrame
      <3>2. CASE DeliverFrame(s) BY <3>2, <2>2, <2>4 DEF DeliverFrame, TypeOK
      <3>3. CASE WriteFrame(s) BY <3>3, <2>2, <2>4 DEF WriteFrame, TypeOK
      <3> QED BY <3>1, <3>2, <3>3 DEF Loops
    <2>6. SoleOwner'
      BY <2>1, <2>3, <1>0, <1>4 DEF SoleOK, SoleOwner, alsa
    <2> QED BY <2>1, <2>5, <2>6, <1>0 DEF SoleOK, Reachable, NoForeignFrame, alsa
  <1>6. ReleaseOK'
    <2>1. Doomed' <=> Doomed
      BY <1>4, <1>0 DEF Doomed, qdc
    <2> QED BY <2>1, <1>0, <1>4 DEF ReleaseOK, Reachable, qdc, alsa
  <1> QED BY <1>1, <1>3, <1>5, <1>6

-----------------------------------------------------------------------------
(* The theorems.                                                           *)

\* The invariant is preserved by every step.
LEMMA NextKeeps ==
    ASSUME IInv, [Next]_vars
    PROVE  IInv'
  <1>1. ASSUME UNCHANGED <<starter, closer, qdcCall, alsa, bridge, unclean>>, TypeOK' PROVE IInv'
    <2>1. \A x \in Sessions : (Owes(x)' <=> Owes(x)) /\ (Owner(x)' <=> Owner(x))
      BY <1>1 DEF Owes, Owner, bridge
    <2>2. Doomed' <=> Doomed
      BY <1>1, <2>1 DEF Doomed
    <2>3. StepOK'
      BY <1>1 DEF IInv, StepOK, Closing, alsa, bridge
    <2>4. SoleOK'
      BY <1>1, <2>1 DEF IInv, SoleOK, NoReconnect, SoleOwner, Reachable, NoForeignFrame, alsa, bridge
    <2>5. ReleaseOK'
      BY <1>1, <2>1, <2>2 DEF IInv, ReleaseOK, Reachable, alsa, bridge
    <2> QED BY <1>1, <2>3, <2>4, <2>5 DEF IInv
  <1>2. CASE RouteAges
    BY <1>1, <1>2 DEF RouteAges, IInv, TypeOK, alsa, bridge
  <1>3. CASE UNCHANGED vars
    BY <1>1, <1>3 DEF vars, IInv, TypeOK, qdc, alsa, bridge
  <1> QED BY <1>2, <1>3, StartKeeps, StopKeeps, LoopsKeep DEF Next

\* The inductive invariant holds in every reachable state.
THEOREM Invariance == Spec => []IInv
  <1>1. Init => IInv
    <2> SUFFICES ASSUME Init PROVE IInv
      OBVIOUS
    <2>1. TypeOK
      <3>1. dialled \in [Sessions -> BOOLEAN] /\ started \in [Sessions -> BOOLEAN]
        BY DEF Init
      <3>2. faults \in 0 .. MaxFaults
        BY VoiceConstants DEF Init
      <3> QED BY <3>1, <3>2 DEF Init, TypeOK, StarterStates, CloserStates
    <2>2. StepOK
      BY DEF Init, StepOK, Closing
    <2>3. \A s \in Sessions : ~Owner(s) /\ ~Owes(s)
      BY DEF Init, Owner, Owes
    <2>4. SoleOK
      BY <2>3 DEF Init, SoleOK, SoleOwner, Reachable, NoForeignFrame
    <2>5. ReleaseOK
      BY <2>3 DEF Init, ReleaseOK, Reachable
    <2> QED BY <2>1, <2>2, <2>4, <2>5 DEF IInv
  <1> QED BY <1>1, NextKeeps, PTL DEF Spec

\* Goroutines, device, processes and frames keep their types, for any sessions and calls.
THEOREM TypeCorrect == Spec => []TypeOK
  BY Invariance, PTL DEF IInv

\* However many bridges overlap, nobody hears or speaks into another call (bridge.go:186,
\* bridge.go:237), as long as no client connects a second time to a call.
THEOREM OwnSoundOnly == Spec => []NoCrossTalk
  <1>1. IInv => NoCrossTalk
    BY DEF IInv, SoleOK, NoForeignFrame, NoCrossTalk
  <1> QED BY <1>1, Invariance, PTL

\* Running processes are installed, about to be, or about to be killed (alsa.go:92,
\* alsa.go:242), under the same premise.
THEOREM NoProcessLost == Spec => []NoOrphanProcess
  <1>1. IInv => NoOrphanProcess
    BY DEF IInv, SoleOK, Reachable, NoOrphanProcess
  <1> QED BY <1>1, Invariance, PTL

\* When all is quiet and no start or stop went wrong, qdc507.Audio and ALSAAudio have no
\* call and no process runs, also when clients connected again (audio.go:241).
THEOREM Released == Spec => []DeviceIsReleased
  <1>1. ASSUME IInv PROVE DeviceIsReleased
    <2>0. SUFFICES ASSUME \A s \in Sessions : ~Busy(s) /\ ~started[s] /\ closer[s] \in {"idle", "done"},
                          ~unclean
                   PROVE  qdcCall = NoCall /\ alsaCall = NoCall /\ alive = {}
      BY <1>1 DEF DeviceIsReleased, IInv, TypeOK
    <2>1. \A s \in Sessions : ~Owes(s) /\ ~Owner(s) /\ starter[s] \notin {"spawn", "install", "start"}
      BY <2>0, <1>1 DEF IInv, TypeOK, StarterStates, Busy, Owes, Owner
    <2>2. qdcCall = NoCall /\ alsaCall = NoCall /\ pair = NoPair /\ ~Doomed
      BY <2>0, <2>1, <1>1 DEF IInv, ReleaseOK, Doomed, Owner
    <2>3. \A s \in Sessions : stale[s] = NoPair
      BY <2>0, <2>1, <1>1 DEF IInv, StepOK
    <2>4. Reachable
      BY <2>0, <2>2, <1>1 DEF IInv, ReleaseOK
    <2> QED BY <2>1, <2>2, <2>3, <2>4, <1>1, VoiceConstants DEF IInv, TypeOK, Reachable
  <1> QED BY <1>1, Invariance, PTL
=============================================================================
