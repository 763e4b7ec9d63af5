--------------------------- MODULE RecordingProofs ---------------------------
(***************************************************************************)
(* Theorems about Recording, for any calls, workers and bounds.  The       *)
(* argument: at any time at most one goroutine holds a recording that is   *)
(* under way (a Start, a session, a Stop, a finalization or Recover), and  *)
(* whoever holds it may rely on its parts.                                 *)
(***************************************************************************)
EXTENDS Recording, TLAPS

Starting(w) == worker[w].pc \in {"save_starting", "link_starting", "save_recording",
                                 "link_recording", "start_register"}
Holding(w) == Starting(w) \/ worker[w].pc \in {"stop_save", "stop_link"}
Deleting(w) == worker[w].pc \in {"delete_save", "delete_link", "delete_files"}

\* Recordings are numbered: what is not created yet is untouched.
Numbered ==
    /\ before <= created
    /\ \A r \in Recordings : r > created => row[r] = NoRow /\ work[r] = "none"

\* What the holder w of a recording relies on.
HolderOK(w) ==
    /\ worker[w].call \in Calls /\ worker[w].rec \in Recordings
    /\ before < worker[w].rec /\ worker[w].rec <= created
    /\ fin[worker[w].rec] = "none" /\ work[worker[w].rec] = "parts"
    /\ \A v \in Workers : Holding(v) /\ worker[v].rec = worker[w].rec => v = w
    /\ \A c \in Calls : sessions[c] # worker[w].rec
    /\ IF worker[w].pc = "save_starting"
       THEN row[worker[w].rec] = NoRow
       ELSE /\ row[worker[w].rec] # NoRow /\ row[worker[w].rec].call = worker[w].call
            /\ row[worker[w].rec].state \in Open \union {"deleted"}
    /\ worker[w].pc \in {"link_recording", "start_register"} =>
          row[worker[w].rec].state \in {"recording", "deleted"}

HoldersOK == \A w \in Workers : Holding(w) => HolderOK(w)

\* A request that has gone on is about a call.
RequestsOK == \A w \in Workers :
    worker[w].pc \in {"start_session", "start_files", "stop_take"} => worker[w].call \in Calls

SessionsOK ==
    \A c \in Calls : sessions[c] # 0 =>
        /\ row[sessions[c]] # NoRow /\ row[sessions[c]].call = c
        /\ row[sessions[c]].state \in {"recording", "deleted"}
        /\ fin[sessions[c]] = "none" /\ work[sessions[c]] = "parts"
        /\ before < sessions[c]

DeletersOK ==
    \A w \in Workers : Deleting(w) =>
        /\ worker[w].rec \in asked /\ worker[w].call \in Calls
        /\ row[worker[w].rec] # NoRow /\ row[worker[w].rec].call = worker[w].call

FinOK ==
    \A r \in Recordings : fin[r] # "none" =>
        /\ row[r] # NoRow
        /\ fin[r] \in {"save", "link", "clean"} => r \in audio \union asked
        /\ fin[r] \in {"link", "clean", "fail_link"} => row[r].state \in Settled

BootOK ==
    /\ boot.pc # "up" => /\ \A w \in Workers : worker[w].pc \in {"new", "done"}
                         /\ \A c \in Calls : sessions[c] = 0
    /\ boot.pc = "up" => boot.todo = {}
    /\ boot.pc = "down" => \A r \in Recordings : fin[r] = "none"
    /\ \A r \in boot.todo : fin[r] = "none" /\ work[r] # "none"
    /\ boot.pc \in {"fail_save", "fail_link"} => boot.rec \in boot.todo /\ row[boot.rec] # NoRow
    /\ boot.pc = "fail_link" => row[boot.rec].state \in Settled

\* A row under way has its parts, and one of an earlier process somebody who settles it.
OpenOK ==
    \A r \in Recordings : row[r].state \in Open =>
        /\ work[r] = "parts"
        /\ r <= before => \/ boot.pc = "down" \/ r \in boot.todo
                          \/ fin[r] \in {"encode", "publish", "save", "fail_save"}

\* The inductive invariant.
IInv ==
    /\ TypeOK /\ Numbered /\ HoldersOK /\ RequestsOK /\ SessionsOK /\ DeletersOK
    /\ FinOK /\ BootOK /\ OpenOK /\ SoundIsKept /\ ReadyIsPlayable
-----------------------------------------------------------------------------
(* Effects of the helpers that write a record.                             *)

USE RecordingConstants
USE DEF Recordings, NoRow, Open, Settled, Up, At, tables, files, bounds, history

LEMMA GoesEffect ==
    ASSUME TypeOK, NEW w \in Workers, NEW where \in WorkerPCs,
           NEW c \in Calls \union {"none"}, NEW r \in 0 .. MaxRecordings, Goes(w, where, c, r)
    PROVE  /\ worker' \in [Workers -> Goroutine]
           /\ worker'[w].pc = where /\ worker'[w].call = c /\ worker'[w].rec = r
           /\ \A v \in Workers \ {w} : worker'[v] = worker[v]
  BY DEF TypeOK, Goes, Goroutine

LEMMA StepEffect ==
    ASSUME TypeOK, NEW w \in Workers, NEW where \in WorkerPCs, Step(w, where)
    PROVE  /\ worker' \in [Workers -> Goroutine]
           /\ worker'[w].pc = where
           /\ worker'[w].call = worker[w].call /\ worker'[w].rec = worker[w].rec
           /\ \A v \in Workers \ {w} : worker'[v] = worker[v]
<1>1. worker[w].call \in Calls \union {"none"} /\ worker[w].rec \in 0 .. MaxRecordings
  BY DEF TypeOK, Goroutine
<1>2. Goes(w, where, worker[w].call, worker[w].rec)
  BY DEF Step
<1> QED BY <1>1, <1>2, GoesEffect

LEMMA SaveEffect ==
    ASSUME TypeOK, NEW r \in Recordings, NEW c \in Calls, NEW state \in Open \union Settled,
           Save(r, c, state)
    PROVE  /\ row' \in [Recordings -> RecordingRow \union {NoRow}]
           /\ row'[r] # NoRow /\ row'[r].call = c /\ row'[r].state = state
           /\ \A q \in Recordings \ {r} : row'[q] = row[q]
<1> DEFINE new == [call |-> c, state |-> state]
<1>1. new \in RecordingRow /\ new.call = c /\ new.state = state
  BY DEF RecordingRow
<1>2. row' = [row EXCEPT ![r] = new]
  BY DEF Save
<1> HIDE DEF new
<1>3. /\ row' \in [Recordings -> RecordingRow \union {NoRow}] /\ row'[r] = new
      /\ \A q \in Recordings \ {r} : row'[q] = row[q]
  BY <1>1, <1>2 DEF TypeOK
<1> QED BY <1>1, <1>3 DEF RecordingRow

LEMMA LinkEffect ==
    ASSUME TypeOK, NEW r \in Recordings, NEW c \in Calls, NEW state \in Open \union Settled,
           Link(r, c, state)
    PROVE  call' \in [Calls -> CallRow]
<1>1. [state |-> call[c].state, id |-> r, recState |-> state] \in CallRow
  BY DEF TypeOK, CallRow
<1> QED BY <1>1 DEF TypeOK, Link

LEMMA SaveCallEffect ==
    ASSUME TypeOK, NEW c \in Calls, NEW state \in {"none", "active", "ended"}, SaveCall(c, state)
    PROVE  call' \in [Calls -> CallRow]
<1>1. [state |-> state, id |-> call[c].id, recState |-> call[c].recState] \in CallRow
  BY DEF TypeOK, CallRow
<1> QED BY <1>1 DEF TypeOK, SaveCall

LEMMA FaultEffect ==
    ASSUME TypeOK, NEW point, Fault(point)
    PROVE  faults' \in 0 .. MaxFaults /\ crashes' \in 0 .. MaxCrashes
  BY DEF TypeOK, Fault

-----------------------------------------------------------------------------
(* Steps of a goroutine that holds no recording afterwards.                *)

\* In what follows, XKeeps says that step X preserves IInv.

\* A worker that goes where it neither holds nor deletes a recording disturbs nothing.
LEMMA FreeMove ==
    ASSUME IInv, TypeOK', Up, NEW w \in Workers, NEW c \in Calls \union {"none"},
           NEW where \in {"start_session", "start_files", "stop_take", "done"},
           where # "done" => c \in Calls, NEW r \in 0 .. MaxRecordings,
           Goes(w, where, c, r),
           UNCHANGED <<row, files, sessions, fin, boot, created, history>>
    PROVE  IInv'
<1>1. /\ worker'[w].pc = where /\ worker'[w].call = c
      /\ \A v \in Workers \ {w} : worker'[v] = worker[v]
  BY GoesEffect DEF IInv, WorkerPCs
<1>2. HoldersOK'
  BY <1>1 DEF IInv, HoldersOK, HolderOK, Holding, Starting
<1>3. RequestsOK'
  BY <1>1 DEF IInv, RequestsOK
<1>4. DeletersOK'
  BY <1>1 DEF IInv, DeletersOK, Deleting
<1>5. BootOK'
  BY DEF IInv, BootOK
<1>6. Numbered' /\ SessionsOK' /\ FinOK' /\ OpenOK' /\ SoundIsKept' /\ ReadyIsPlayable'
  BY DEF IInv, Numbered, SessionsOK, FinOK, OpenOK, SoundIsKept, ReadyIsPlayable
<1> QED BY <1>2, <1>3, <1>4, <1>5, <1>6 DEF IInv

LEMMA OverMove ==
    ASSUME IInv, Up, NEW w \in Workers, Over(w), UNCHANGED bounds \/ \E point : Fault(point),
           UNCHANGED <<call, row, files, live, sessions, fin, boot, created, history>>
    PROVE  IInv'
<1>1. worker[w].call \in Calls \union {"none"} /\ "done" \in WorkerPCs
  BY DEF IInv, TypeOK, Goroutine, WorkerPCs
<1>2. Goes(w, "done", worker[w].call, 0)
  BY DEF Over
<1>3. worker' \in [Workers -> Goroutine]
  BY <1>1, <1>2, GoesEffect DEF IInv
<1>4. faults' \in 0 .. MaxFaults /\ crashes' \in 0 .. MaxCrashes
  BY FaultEffect DEF IInv, TypeOK
<1>5. TypeOK'
  BY <1>3, <1>4 DEF IInv, TypeOK
<1> QED BY <1>1, <1>2, <1>5, FreeMove

LEMMA ConnectKeeps == ASSUME IInv, NEW c \in Calls, Connect(c) PROVE IInv'
<1>1. call' \in [Calls -> CallRow]
  BY SaveCallEffect DEF IInv, Connect
<1>2. TypeOK'
  BY <1>1 DEF IInv, TypeOK, Connect
<1>3. HoldersOK' /\ RequestsOK' /\ DeletersOK' /\ BootOK'
  BY DEF IInv, HoldersOK, HolderOK, Holding, Starting, RequestsOK, DeletersOK, Deleting, BootOK,
         Connect
<1>4. Numbered' /\ SessionsOK' /\ FinOK' /\ OpenOK' /\ SoundIsKept' /\ ReadyIsPlayable'
  BY DEF IInv, Numbered, SessionsOK, FinOK, OpenOK, SoundIsKept, ReadyIsPlayable, Connect
<1> QED BY <1>2, <1>3, <1>4 DEF IInv

LEMMA EndCallKeeps == ASSUME IInv, NEW w \in Workers, NEW c \in Calls, EndCall(w, c) PROVE IInv'
<1>1. Goes(w, "stop_take", c, 0) /\ "stop_take" \in WorkerPCs
  BY DEF EndCall, WorkerPCs
<1>2. worker' \in [Workers -> Goroutine]
  BY <1>1, GoesEffect DEF IInv
<1>3. call' \in [Calls -> CallRow]
  BY SaveCallEffect DEF IInv, EndCall
<1>4. TypeOK'
  BY <1>2, <1>3 DEF IInv, TypeOK, EndCall
<1> QED BY <1>1, <1>4, FreeMove DEF EndCall

LEMMA RequestKeeps ==
    ASSUME IInv, NEW w \in Workers, NEW c \in Calls, StartRequest(w, c) \/ StopRequest(w, c)
    PROVE  IInv'
<1>1. PICK where \in {"start_session", "stop_take"} : Goes(w, where, c, 0)
  BY DEF StartRequest, StopRequest
<1>2. worker' \in [Workers -> Goroutine]
  BY <1>1, GoesEffect DEF IInv, WorkerPCs
<1>3. TypeOK'
  BY <1>2 DEF IInv, TypeOK, StartRequest, StopRequest
<1> QED BY <1>1, <1>3, FreeMove DEF StartRequest, StopRequest

LEMMA StartSessionKeeps == ASSUME IInv, NEW w \in Workers, StartSession(w) PROVE IInv'
<1>1. CASE Over(w)
  BY <1>1, OverMove DEF StartSession
<1>2. CASE Step(w, "start_files")
  <2>1. worker[w].call \in Calls /\ worker[w].rec \in 0 .. MaxRecordings
    BY DEF IInv, TypeOK, RequestsOK, Goroutine, StartSession
  <2>2. Goes(w, "start_files", worker[w].call, worker[w].rec)
    BY <1>2 DEF Step
  <2>3. worker' \in [Workers -> Goroutine]
    BY <2>1, <2>2, GoesEffect DEF IInv, WorkerPCs
  <2>4. TypeOK'
    BY <2>3 DEF IInv, TypeOK, StartSession
  <2> QED BY <2>1, <2>2, <2>4, FreeMove DEF StartSession
<1> QED BY <1>1, <1>2 DEF StartSession

-----------------------------------------------------------------------------
(* Start: how a recording comes into a goroutine's hands, and into a session. *)

LEMMA StartFilesKeeps == ASSUME IInv, NEW w \in Workers, StartFiles(w) PROVE IInv'
<1>1. CASE Over(w) /\ UNCHANGED <<work, created>>
  BY <1>1, OverMove DEF StartFiles
<1>2. CASE /\ created < MaxRecordings /\ created' = created + 1
           /\ work' = [work EXCEPT ![created'] = "parts"]
           /\ Goes(w, "save_starting", worker[w].call, created')
  <2>1. /\ worker[w].call \in Calls /\ created' \in Recordings /\ created \in Nat
        /\ before \in Nat /\ before < created'
    BY <1>2 DEF IInv, TypeOK, RequestsOK, Numbered, StartFiles
  <2>2. /\ worker' \in [Workers -> Goroutine] /\ worker'[w].pc = "save_starting"
        /\ worker'[w].call = worker[w].call /\ worker'[w].rec = created'
        /\ \A v \in Workers \ {w} : worker'[v] = worker[v]
    BY <1>2, <2>1, GoesEffect DEF IInv, WorkerPCs
  <2>3. /\ work' \in [Recordings -> {"none", "parts", "broken", "empty"}]
        /\ work'[created'] = "parts"
        /\ \A r \in Recordings : r # created' => work'[r] = work[r]
    BY <1>2, <2>1 DEF IInv, TypeOK
  <2>4. row[created'] = NoRow /\ work[created'] = "none"
    BY <1>2, <2>1 DEF IInv, Numbered
  <2>5. fin[created'] = "none" /\ created' \notin boot.todo
    BY <2>1, <2>4 DEF IInv, FinOK, BootOK, TypeOK
  <2>6. \A c \in Calls : sessions[c] # created'
    BY <2>1, <2>4 DEF IInv, SessionsOK, TypeOK
  <2>7. TypeOK'
    BY <2>1, <2>2, <2>3 DEF IInv, TypeOK, StartFiles
  <2>8. Numbered'
    BY <1>2, <2>1, <2>3 DEF IInv, Numbered, StartFiles
  <2>9. HoldersOK'
    <3>1. \A v \in Workers \ {w} : Holding(v) => worker[v].rec # created' /\ HolderOK(v)
      BY <1>2, <2>1 DEF IInv, HoldersOK, HolderOK, TypeOK, Goroutine
    <3>2. HolderOK(w)'
      BY <2>1, <2>2, <2>3, <2>4, <2>5, <2>6, <3>1 DEF HolderOK, Holding, Starting, StartFiles
    <3>3. ASSUME NEW v \in Workers, v # w, Holding(v)' PROVE HolderOK(v)'
      BY <1>2, <2>1, <2>2, <2>3, <3>1, <3>3, SMTT(30)
         DEF HolderOK, Holding, Starting, StartFiles
    <3> QED BY <3>2, <3>3 DEF HoldersOK
  <2>10. RequestsOK'
    BY <2>2 DEF IInv, RequestsOK
  <2>11. DeletersOK'
    BY <2>2 DEF IInv, DeletersOK, Deleting, StartFiles
  <2>12. SessionsOK'
    BY <2>3, <2>6 DEF IInv, SessionsOK, TypeOK, StartFiles
  <2>13. BootOK'
    BY <2>3, <2>5 DEF IInv, BootOK, TypeOK, Starter, StartFiles
  <2>14. FinOK' /\ ReadyIsPlayable'
    BY DEF IInv, FinOK, ReadyIsPlayable, StartFiles
  <2>15. OpenOK' /\ SoundIsKept'
    BY <2>3, <2>4 DEF IInv, OpenOK, SoundIsKept, StartFiles
  <2> QED BY <2>7, <2>8, <2>9, <2>10, <2>11, <2>12, <2>13, <2>14, <2>15 DEF IInv
<1> QED BY <1>1, <1>2 DEF StartFiles

\* A holder that saves its recording, or only updates the call's row, and goes on
\* holding it.
LEMMA HolderMove ==
    ASSUME IInv, Up, NEW w \in Workers, Holding(w), TypeOK',
           NEW where \in {"link_starting", "save_recording", "link_recording", "start_register",
                          "stop_link"},
           Step(w, where),
           \A q \in Recordings \ {worker[w].rec} : row'[q] = row[q],
           row'[worker[w].rec] # NoRow, row'[worker[w].rec].call = worker[w].call,
           row'[worker[w].rec].state \in Open \union {"deleted"},
           where \in {"link_recording", "start_register"} =>
               row'[worker[w].rec].state \in {"recording", "deleted"},
           UNCHANGED <<files, sessions, fin, boot, created, history>>
    PROVE  IInv'
<1> DEFINE r == worker[w].rec
<1>1. HolderOK(w) /\ r \in Recordings
  BY DEF IInv, HoldersOK, HolderOK
<1>2. /\ worker'[w].pc = where
      /\ worker'[w].call = worker[w].call /\ worker'[w].rec = r
      /\ \A v \in Workers \ {w} : worker'[v] = worker[v]
  BY StepEffect DEF IInv, WorkerPCs
<1>3. Numbered'
  BY <1>1, SMTT(30) DEF IInv, Numbered, HolderOK, TypeOK
<1>4. HoldersOK'
  <2>1. HolderOK(w)'
    BY <1>1, <1>2 DEF HolderOK, Holding, Starting
  <2>2. ASSUME NEW v \in Workers, v # w, Holding(v)' PROVE HolderOK(v)'
    <3>1. Holding(v) /\ HolderOK(v) /\ worker[v].rec # r
      BY <1>1, <1>2, <2>2 DEF IInv, HoldersOK, HolderOK, Holding, Starting
    <3> QED BY <1>2, <3>1 DEF HolderOK, Holding, Starting
  <2> QED BY <2>1, <2>2 DEF HoldersOK
<1>5. RequestsOK'
  BY <1>2 DEF IInv, RequestsOK
<1>6. SessionsOK'
  BY <1>1 DEF IInv, SessionsOK, HolderOK, TypeOK
<1>7. DeletersOK'
  <2>1. ASSUME NEW v \in Workers, Deleting(v)' PROVE v # w /\ Deleting(v)
    BY <1>2, <2>1 DEF Deleting
  <2>2. worker[w].pc = "save_starting" => row[r] = NoRow
    BY <1>1 DEF HolderOK
  <2>3. worker[w].pc # "save_starting" => row[r].call = worker[w].call
    BY <1>1 DEF HolderOK
  <2>4. ASSUME NEW v \in Workers, Deleting(v)'
        PROVE  /\ worker'[v].rec \in asked /\ worker'[v].call \in Calls
               /\ row'[worker'[v].rec] # NoRow /\ row'[worker'[v].rec].call = worker'[v].call
    <3>1. /\ worker'[v] = worker[v] /\ worker[v].rec \in asked /\ worker[v].call \in Calls
          /\ row[worker[v].rec] # NoRow /\ row[worker[v].rec].call = worker[v].call
          /\ worker[v].rec \in Recordings
      BY <1>2, <2>1, <2>4 DEF IInv, DeletersOK, TypeOK
    <3>2. CASE worker[v].rec = r
      BY <2>2, <2>3, <3>1, <3>2
    <3>3. CASE worker[v].rec # r
      BY <3>1, <3>3
    <3> QED BY <3>2, <3>3
  <2> QED BY <2>4 DEF DeletersOK
<1>8. FinOK'
  BY <1>1 DEF IInv, FinOK, HolderOK
<1>9. BootOK'
  BY DEF IInv, BootOK
<1>10. work[r] = "parts" /\ ~ (r <= before)
  BY <1>1 DEF IInv, HolderOK, TypeOK
<1>11. OpenOK'
  BY <1>10 DEF IInv, OpenOK
<1>12. SoundIsKept'
  BY <1>10 DEF IInv, SoundIsKept
<1>13. ReadyIsPlayable'
  BY DEF IInv, ReadyIsPlayable
<1> QED BY <1>3, <1>4, <1>5, <1>6, <1>7, <1>8, <1>9, <1>11, <1>12, <1>13 DEF IInv

\* SaveRecording of Start or Stop.
LEMMA HolderSave ==
    ASSUME IInv, Up, NEW w \in Workers, Holding(w),
           NEW where \in {"link_starting", "link_recording", "stop_link"},
           NEW state \in Open, where = "link_recording" => state = "recording",
           Save(worker[w].rec, worker[w].call, state), Step(w, where),
           UNCHANGED <<call, files, live, sessions, fin, boot, created, history, bounds>>
    PROVE  IInv'
<1>1. worker[w].rec \in Recordings /\ worker[w].call \in Calls
  BY DEF IInv, HoldersOK, HolderOK
<1>2. /\ row' \in [Recordings -> RecordingRow \union {NoRow}]
      /\ row'[worker[w].rec] # NoRow /\ row'[worker[w].rec].call = worker[w].call
      /\ row'[worker[w].rec].state = state
      /\ \A q \in Recordings \ {worker[w].rec} : row'[q] = row[q]
  BY <1>1, SaveEffect DEF IInv
<1>3. worker' \in [Workers -> Goroutine]
  BY StepEffect DEF IInv, WorkerPCs
<1>4. TypeOK'
  BY <1>2, <1>3 DEF IInv, TypeOK
<1> QED BY <1>2, <1>4, HolderMove

\* UpdateCallRecording of Start.
LEMMA HolderLink ==
    ASSUME IInv, Up, NEW w \in Workers, Holding(w), worker[w].pc # "save_starting",
           NEW where \in {"save_recording", "start_register"},
           row[worker[w].rec].state \in Open \union {"deleted"},
           where = "start_register" => row[worker[w].rec].state \in {"recording", "deleted"},
           NEW state \in Open, Link(worker[w].rec, worker[w].call, state), Step(w, where),
           UNCHANGED <<row, files, live, sessions, fin, boot, created, history, bounds>>
    PROVE  IInv'
<1>1. /\ worker[w].rec \in Recordings /\ worker[w].call \in Calls
      /\ row[worker[w].rec] # NoRow /\ row[worker[w].rec].call = worker[w].call
  BY DEF IInv, HoldersOK, HolderOK
<1>2. call' \in [Calls -> CallRow]
  BY <1>1, LinkEffect DEF IInv
<1>3. worker' \in [Workers -> Goroutine]
  BY StepEffect DEF IInv, WorkerPCs
<1>4. TypeOK'
  BY <1>2, <1>3 DEF IInv, TypeOK
<1> QED BY <1>1, <1>4, HolderMove

LEMMA StartWriteKeeps ==
    ASSUME IInv, NEW w \in Workers,
           SaveStarting(w) \/ LinkStarting(w) \/ SaveRecording(w) \/ LinkRecording(w)
    PROVE  IInv'
<1>1. CASE Over(w) /\ UNCHANGED tables /\ Fault("start")
  BY <1>1, OverMove DEF SaveStarting, LinkStarting, SaveRecording, LinkRecording,
                        StartSave, StartLink
<1>2. CASE /\ SaveStarting(w)
           /\ Save(worker[w].rec, worker[w].call, "starting") /\ Step(w, "link_starting")
           /\ UNCHANGED bounds
  BY <1>2, HolderSave DEF SaveStarting, StartSave, Holding, Starting
<1>3. CASE /\ LinkStarting(w)
           /\ Link(worker[w].rec, worker[w].call, "starting") /\ Step(w, "save_recording")
           /\ UNCHANGED bounds
  <2>1. Holding(w) /\ row[worker[w].rec].state \in Open \union {"deleted"}
    BY <1>3 DEF IInv, HoldersOK, HolderOK, LinkStarting, Holding, Starting
  <2> QED BY <1>3, <2>1, HolderLink DEF LinkStarting, StartLink
<1>4. CASE /\ SaveRecording(w)
           /\ Save(worker[w].rec, worker[w].call, "recording") /\ Step(w, "link_recording")
           /\ UNCHANGED bounds
  BY <1>4, HolderSave DEF SaveRecording, StartSave, Holding, Starting
<1>5. CASE /\ LinkRecording(w)
           /\ Link(worker[w].rec, worker[w].call, "recording") /\ Step(w, "start_register")
           /\ UNCHANGED bounds
  <2>1. Holding(w) /\ row[worker[w].rec].state \in {"recording", "deleted"}
    BY <1>5 DEF IInv, HoldersOK, HolderOK, LinkRecording, Holding, Starting
  <2> QED BY <1>5, <2>1, HolderLink DEF LinkRecording, StartLink
<1> QED BY <1>1, <1>2, <1>3, <1>4, <1>5
        DEF SaveStarting, LinkStarting, SaveRecording, LinkRecording, StartSave, StartLink

\* The recording becomes the session's.
LEMMA StartRegisterKeeps == ASSUME IInv, NEW w \in Workers, StartRegister(w) PROVE IInv'
<1> DEFINE r == worker[w].rec
           d == worker[w].call
<1>1. HolderOK(w) /\ Holding(w) /\ r \in Recordings /\ d \in Calls
      /\ row[r] # NoRow /\ row[r].call = d /\ row[r].state \in {"recording", "deleted"}
      /\ fin[r] = "none" /\ work[r] = "parts" /\ before < r
  BY DEF IInv, HoldersOK, HolderOK, StartRegister, Holding, Starting
<1>2. /\ sessions' \in [Calls -> 0 .. MaxRecordings] /\ sessions'[d] = r
      /\ \A c \in Calls \ {d} : sessions'[c] = sessions[c]
  BY <1>1 DEF IInv, TypeOK, StartRegister
<1>3. Goes(w, "done", d, 0) /\ "done" \in WorkerPCs
  BY DEF Over, StartRegister, WorkerPCs
<1>4. /\ worker' \in [Workers -> Goroutine] /\ worker'[w].pc = "done"
      /\ \A v \in Workers \ {w} : worker'[v] = worker[v]
  BY <1>1, <1>3, GoesEffect DEF IInv
<1>5. TypeOK'
  BY <1>2, <1>4 DEF IInv, TypeOK, StartRegister
<1>6. HoldersOK'
  <2>1. ASSUME NEW v \in Workers, Holding(v)' PROVE HolderOK(v)'
    <3>1. v # w /\ worker'[v] = worker[v] /\ Holding(v) /\ HolderOK(v) /\ worker[v].rec # r
      BY <1>1, <1>4, <2>1 DEF IInv, HoldersOK, HolderOK, Holding, Starting
    <3> QED BY <1>2, <1>4, <3>1 DEF HolderOK, Holding, Starting, StartRegister
  <2> QED BY <2>1 DEF HoldersOK
<1>7. SessionsOK'
  BY <1>1, <1>2 DEF IInv, SessionsOK, StartRegister
<1>8. RequestsOK' /\ DeletersOK'
  BY <1>4 DEF IInv, RequestsOK, DeletersOK, Deleting, StartRegister
<1>9. BootOK'
  BY DEF IInv, BootOK, StartRegister
<1>10. Numbered' /\ FinOK' /\ OpenOK' /\ SoundIsKept' /\ ReadyIsPlayable'
  BY DEF IInv, Numbered, FinOK, OpenOK, SoundIsKept, ReadyIsPlayable, StartRegister
<1> QED BY <1>5, <1>6, <1>7, <1>8, <1>9, <1>10 DEF IInv

-----------------------------------------------------------------------------
(* Stop: the session's recording passes to the goroutine, then to finalize. *)

LEMMA StopSaveKeeps == ASSUME IInv, NEW w \in Workers, StopSave(w) PROVE IInv'
<1>1. CASE Over(w) /\ UNCHANGED row
  BY <1>1, OverMove DEF StopSave
<1>2. CASE /\ Save(worker[w].rec, worker[w].call, "finalizing")
           /\ Step(w, "stop_link") /\ UNCHANGED bounds
  BY <1>2, HolderSave DEF StopSave, Holding
<1> QED BY <1>1, <1>2 DEF StopSave

\* The session becomes the worker's, if there is one.
LEMMA StopTakeKeeps == ASSUME IInv, NEW w \in Workers, StopTake(w) PROVE IInv'
<1> DEFINE d == worker[w].call
           r == sessions[d]
<1>1. d \in Calls /\ r \in 0 .. MaxRecordings
  BY DEF IInv, TypeOK, RequestsOK, StopTake
<1>2. /\ sessions' \in [Calls -> 0 .. MaxRecordings] /\ sessions'[d] = 0
      /\ \A c \in Calls \ {d} : sessions'[c] = sessions[c]
  BY <1>1 DEF IInv, TypeOK, StopTake
<1>3. CASE r = 0
  <2>1. sessions' = sessions
    BY <1>1, <1>3 DEF IInv, TypeOK, StopTake
  <2> QED BY <1>3, <2>1, OverMove DEF StopTake
<1>4. CASE r # 0
  <2>1. r \in Recordings /\ row[r] # NoRow /\ row[r].call = d
        /\ row[r].state \in {"recording", "deleted"}
        /\ fin[r] = "none" /\ work[r] = "parts" /\ before < r
    BY <1>1, <1>4 DEF IInv, SessionsOK
  <2>2. r <= created /\ \A c \in Calls \ {d} : sessions[c] # r
    BY <1>1, <1>4, <2>1 DEF IInv, SessionsOK, Numbered, TypeOK
  <2>3. Goes(w, "stop_save", d, r)
    BY <1>4 DEF StopTake
  <2>4. /\ worker' \in [Workers -> Goroutine]
        /\ worker'[w].pc = "stop_save" /\ worker'[w].call = d /\ worker'[w].rec = r
        /\ \A v \in Workers \ {w} : worker'[v] = worker[v]
    BY <1>1, <2>3, GoesEffect DEF IInv, WorkerPCs
  <2>5. TypeOK'
    BY <1>2, <2>4 DEF IInv, TypeOK, StopTake
  <2>6. \A v \in Workers \ {w} : Holding(v)' => Holding(v) /\ HolderOK(v) /\ worker[v].rec # r
    BY <1>1, <2>4 DEF IInv, HoldersOK, HolderOK, Holding, Starting
  <2>7. HolderOK(w)'
    BY <1>1, <1>2, <2>1, <2>2, <2>4, <2>6 DEF HolderOK, StopTake
  <2>8. ASSUME NEW v \in Workers, v # w, Holding(v)' PROVE HolderOK(v)'
    <3>1. worker'[v] = worker[v] /\ Holding(v) /\ HolderOK(v) /\ worker[v].rec # r
      BY <2>4, <2>6, <2>8
    <3> QED BY <1>2, <2>4, <3>1 DEF HolderOK, Holding, Starting, StopTake
  <2>9. HoldersOK'
    BY <2>7, <2>8 DEF HoldersOK
  <2>10. SessionsOK'
    BY <1>2 DEF IInv, SessionsOK, StopTake
  <2>11. RequestsOK' /\ DeletersOK'
    BY <2>4 DEF IInv, RequestsOK, DeletersOK, Deleting, StopTake
  <2>12. BootOK'
    BY DEF IInv, BootOK, StopTake
  <2>13. Numbered' /\ FinOK' /\ OpenOK' /\ SoundIsKept' /\ ReadyIsPlayable'
    BY DEF IInv, Numbered, FinOK, OpenOK, SoundIsKept, ReadyIsPlayable, StopTake
  <2> QED BY <2>5, <2>9, <2>10, <2>11, <2>12, <2>13 DEF IInv
<1> QED BY <1>3, <1>4

LEMMA StopLinkKeeps == ASSUME IInv, NEW w \in Workers, StopLink(w) PROVE IInv'
<1> DEFINE r == worker[w].rec
           d == worker[w].call
<1>1. HolderOK(w) /\ Holding(w) /\ r \in Recordings /\ d \in Calls
      /\ row[r] # NoRow /\ work[r] = "parts" /\ before < r
      /\ \A c \in Calls : sessions[c] # r
  BY DEF IInv, HoldersOK, HolderOK, StopLink, Holding
<1>2. Goes(w, "done", d, 0) /\ "done" \in WorkerPCs
  BY DEF Over, StopLink, WorkerPCs
<1>3. /\ worker' \in [Workers -> Goroutine] /\ worker'[w].pc = "done"
      /\ \A v \in Workers \ {w} : worker'[v] = worker[v]
  BY <1>1, <1>2, GoesEffect DEF IInv
<1>4. call' \in [Calls -> CallRow]
  BY <1>1, LinkEffect DEF IInv, TypeOK, StopLink
<1>5. faults' \in 0 .. MaxFaults /\ crashes' \in 0 .. MaxCrashes
  BY FaultEffect DEF IInv, TypeOK, StopLink
<1>6. /\ fin' \in [Recordings -> FinPCs] /\ fin'[r] = "encode"
      /\ \A q \in Recordings \ {r} : fin'[q] = fin[q]
  BY <1>1 DEF IInv, TypeOK, FinPCs, StopLink
<1>7. TypeOK'
  BY <1>3, <1>4, <1>5, <1>6 DEF IInv, TypeOK, StopLink
<1>8. HoldersOK'
  <2>1. ASSUME NEW v \in Workers, Holding(v)' PROVE HolderOK(v)'
    <3>1. v # w /\ worker'[v] = worker[v] /\ Holding(v) /\ HolderOK(v) /\ worker[v].rec # r
      BY <1>1, <1>3, <2>1 DEF IInv, HoldersOK, HolderOK, Holding, Starting
    <3> QED BY <1>3, <1>6, <3>1 DEF HolderOK, Holding, Starting, StopLink
  <2> QED BY <2>1 DEF HoldersOK
<1>9. RequestsOK' /\ DeletersOK'
  BY <1>3 DEF IInv, RequestsOK, DeletersOK, Deleting, StopLink
<1>10. SessionsOK'
  BY <1>1, <1>6 DEF IInv, SessionsOK, TypeOK, StopLink
<1>11. FinOK'
  BY <1>1, <1>6 DEF IInv, FinOK, StopLink
<1>12. BootOK'
  BY <1>1, <1>6 DEF IInv, BootOK, StopLink
<1>13. OpenOK'
  BY <1>1, <1>6 DEF IInv, OpenOK, TypeOK, StopLink
<1>14. Numbered' /\ SoundIsKept' /\ ReadyIsPlayable'
  BY DEF IInv, Numbered, SoundIsKept, ReadyIsPlayable, StopLink
<1> QED BY <1>7, <1>8, <1>9, <1>10, <1>11, <1>12, <1>13, <1>14 DEF IInv

-----------------------------------------------------------------------------
(* The finalization.                                                       *)

\* What Go leaves.
LEMMA GoEffect ==
    ASSUME TypeOK, NEW r \in Recordings, NEW where \in FinPCs, Go(r, where)
    PROVE  /\ fin' \in [Recordings -> FinPCs] /\ fin'[r] = where
           /\ \A q \in Recordings \ {r} : fin'[q] = fin[q]
  BY DEF TypeOK, Go

\* A finalization touches only its recording, which nobody holds.
LEMMA FinMove ==
    ASSUME IInv, TypeOK', NEW r \in Recordings, fin[r] # "none",
           \A q \in Recordings \ {r} : fin'[q] = fin[q] /\ row'[q] = row[q] /\ work'[q] = work[q],
           row'[r] # NoRow, row'[r].call = row[r].call,
           UNCHANGED <<live, sessions, worker, boot, created, history>>
    PROVE  /\ Numbered' /\ HoldersOK' /\ RequestsOK' /\ SessionsOK' /\ DeletersOK' /\ BootOK'
<1>1. row[r] # NoRow /\ boot.pc # "down" /\ r \notin boot.todo
  BY DEF IInv, FinOK, BootOK
<1>2. boot.pc = "fail_save" \/ boot.pc = "fail_link" => boot.rec # r /\ boot.rec \in Recordings
  BY <1>1 DEF IInv, BootOK, TypeOK, Starter
<1>3. Numbered'
  BY <1>1 DEF IInv, Numbered, TypeOK
<1>4. HoldersOK'
  <2>1. ASSUME NEW v \in Workers, Holding(v)' PROVE HolderOK(v)'
    <3>1. Holding(v) /\ HolderOK(v) /\ worker[v].rec # r /\ worker[v].rec \in Recordings
      BY <2>1 DEF IInv, HoldersOK, HolderOK, Holding, Starting
    <3> QED BY <3>1 DEF HolderOK, Holding, Starting
  <2> QED BY <2>1 DEF HoldersOK
<1>5. RequestsOK'
  BY DEF IInv, RequestsOK
<1>6. SessionsOK'
  <2>1. \A c \in Calls : sessions[c] # 0 => sessions[c] # r /\ sessions[c] \in Recordings
    BY DEF IInv, SessionsOK, TypeOK
  <2> QED BY <2>1 DEF IInv, SessionsOK
<1>7. DeletersOK'
  <2>1. ASSUME NEW w \in Workers, Deleting(w)
        PROVE  /\ worker[w].rec \in asked /\ worker[w].call \in Calls
               /\ row[worker[w].rec] # NoRow /\ row[worker[w].rec].call = worker[w].call
               /\ worker[w].rec \in Recordings
    BY <2>1 DEF IInv, DeletersOK, TypeOK
  <2>2. ASSUME NEW w \in Workers, Deleting(w)
        PROVE  row'[worker[w].rec] # NoRow /\ row'[worker[w].rec].call = worker[w].call
    <3>1. CASE worker[w].rec = r
      BY <1>1, <2>1, <2>2, <3>1
    <3>2. CASE worker[w].rec # r
      BY <2>1, <2>2, <3>2
    <3> QED BY <3>1, <3>2
  <2>3. worker' = worker /\ asked' = asked
    BY DEF history
  <2> QED BY <2>1, <2>2, <2>3 DEF DeletersOK, Deleting
<1>8. BootOK'
  BY <1>1, <1>2 DEF IInv, BootOK, TypeOK, Starter
<1> QED BY <1>3, <1>4, <1>5, <1>6, <1>7, <1>8

LEMMA FinEncodeKeeps == ASSUME IInv, NEW r \in Recordings, FinEncode(r) PROVE IInv'
<1>1. PICK where \in {"publish", "fail_save"} : Go(r, where) /\ (UNCHANGED bounds \/ Fault("encode"))
  BY DEF FinEncode
<1>2. /\ fin' \in [Recordings -> FinPCs] /\ fin'[r] = where
      /\ \A q \in Recordings \ {r} : fin'[q] = fin[q]
  BY <1>1, GoEffect DEF IInv, FinPCs
<1>3. faults' \in 0 .. MaxFaults /\ crashes' \in 0 .. MaxCrashes
  BY <1>1, FaultEffect DEF IInv, TypeOK
<1>4. TypeOK'
  BY <1>2, <1>3 DEF IInv, TypeOK, FinEncode
<1>5. row[r] # NoRow
  BY DEF IInv, FinOK, FinEncode
<1>6. /\ Numbered' /\ HoldersOK' /\ RequestsOK' /\ SessionsOK' /\ DeletersOK' /\ BootOK'
  BY <1>2, <1>4, <1>5, FinMove DEF FinEncode
<1>7. FinOK' /\ OpenOK' /\ SoundIsKept' /\ ReadyIsPlayable'
  BY <1>2 DEF IInv, FinOK, OpenOK, SoundIsKept, ReadyIsPlayable, FinEncode
<1> QED BY <1>4, <1>6, <1>7 DEF IInv

LEMMA FinPublishKeeps == ASSUME IInv, NEW r \in Recordings, FinPublish(r) PROVE IInv'
<1>1. PICK where \in {"save", "fail_save"} :
          Go(r, where) /\ (UNCHANGED bounds \/ Fault("publish"))
          /\ audio' \in {audio, audio \union {r}} /\ (where = "save" => r \in audio')
  BY DEF FinPublish
<1>2. /\ fin' \in [Recordings -> FinPCs] /\ fin'[r] = where
      /\ \A q \in Recordings \ {r} : fin'[q] = fin[q]
  BY <1>1, GoEffect DEF IInv, FinPCs
<1>3. faults' \in 0 .. MaxFaults /\ crashes' \in 0 .. MaxCrashes
  BY <1>1, FaultEffect DEF IInv, TypeOK
<1>4. TypeOK'
  BY <1>1, <1>2, <1>3 DEF IInv, TypeOK, FinPublish
<1>5. row[r] # NoRow
  BY DEF IInv, FinOK, FinPublish
<1>6. /\ Numbered' /\ HoldersOK' /\ RequestsOK' /\ SessionsOK' /\ DeletersOK' /\ BootOK'
  BY <1>2, <1>4, <1>5, FinMove DEF FinPublish
<1>7. FinOK'
  BY <1>1, <1>2 DEF IInv, FinOK, FinPublish
<1>8. OpenOK' /\ SoundIsKept' /\ ReadyIsPlayable'
  BY <1>1, <1>2 DEF IInv, OpenOK, SoundIsKept, ReadyIsPlayable, FinPublish
<1> QED BY <1>4, <1>6, <1>7, <1>8 DEF IInv

LEMMA FinSaveKeeps == ASSUME IInv, NEW r \in Recordings, FinSave(r) PROVE IInv'
<1>1. CASE Save(r, row[r].call, "ready") /\ Go(r, "link") /\ UNCHANGED bounds
  <2>1. row[r] # NoRow /\ row[r].call \in Calls /\ r \in audio \union asked
    BY DEF IInv, FinOK, TypeOK, RecordingRow, FinSave
  <2>2. /\ row' \in [Recordings -> RecordingRow \union {NoRow}]
        /\ row'[r] # NoRow /\ row'[r].call = row[r].call /\ row'[r].state = "ready"
        /\ \A q \in Recordings \ {r} : row'[q] = row[q]
    BY <1>1, <2>1, SaveEffect DEF IInv
  <2>3. /\ fin' \in [Recordings -> FinPCs] /\ fin'[r] = "link"
        /\ \A q \in Recordings \ {r} : fin'[q] = fin[q]
    BY <1>1, GoEffect DEF IInv, FinPCs
  <2>4. TypeOK'
    BY <1>1, <2>2, <2>3 DEF IInv, TypeOK, FinSave
  <2>5. /\ Numbered' /\ HoldersOK' /\ RequestsOK' /\ SessionsOK' /\ DeletersOK' /\ BootOK'
    BY <2>2, <2>3, <2>4, FinMove DEF FinSave
  <2>6. FinOK'
    BY <2>1, <2>2, <2>3 DEF IInv, FinOK, FinSave
  <2>7. OpenOK' /\ SoundIsKept' /\ ReadyIsPlayable'
    <3>1. work[r] = "parts" \/ r \in audio \/ r \in asked
      BY <2>1
    <3> QED BY <2>1, <2>2, <2>3, <3>1
            DEF IInv, OpenOK, SoundIsKept, ReadyIsPlayable, FinSave
  <2> QED BY <2>4, <2>5, <2>6, <2>7 DEF IInv
<1>2. CASE Fault("publish") /\ Go(r, "fail_save") /\ UNCHANGED row
  <2>1. /\ fin' \in [Recordings -> FinPCs] /\ fin'[r] = "fail_save"
        /\ \A q \in Recordings \ {r} : fin'[q] = fin[q]
    BY <1>2, GoEffect DEF IInv, FinPCs
  <2>2. faults' \in 0 .. MaxFaults /\ crashes' \in 0 .. MaxCrashes
    BY <1>2, FaultEffect DEF IInv, TypeOK
  <2>3. TypeOK'
    BY <1>2, <2>1, <2>2 DEF IInv, TypeOK, FinSave
  <2>4. row[r] # NoRow
    BY DEF IInv, FinOK, FinSave
  <2>5. /\ Numbered' /\ HoldersOK' /\ RequestsOK' /\ SessionsOK' /\ DeletersOK' /\ BootOK'
    BY <1>2, <2>1, <2>3, <2>4, FinMove DEF FinSave
  <2>6. FinOK' /\ OpenOK' /\ SoundIsKept' /\ ReadyIsPlayable'
    BY <1>2, <2>1 DEF IInv, FinOK, OpenOK, SoundIsKept, ReadyIsPlayable, FinSave
  <2> QED BY <2>3, <2>5, <2>6 DEF IInv
<1> QED BY <1>1, <1>2 DEF FinSave

LEMMA FinLinkKeeps == ASSUME IInv, NEW r \in Recordings, FinLink(r) PROVE IInv'
<1>1. row[r] # NoRow /\ row[r].call \in Calls
  BY DEF IInv, FinOK, TypeOK, RecordingRow, FinLink
<1>2. call' \in [Calls -> CallRow]
  BY <1>1, LinkEffect DEF IInv, TypeOK, FinLink
<1>3. faults' \in 0 .. MaxFaults /\ crashes' \in 0 .. MaxCrashes
  BY FaultEffect DEF IInv, TypeOK, FinLink
<1>4. /\ fin' \in [Recordings -> FinPCs] /\ fin'[r] = "clean"
      /\ \A q \in Recordings \ {r} : fin'[q] = fin[q]
  BY GoEffect DEF IInv, FinPCs, FinLink
<1>5. TypeOK'
  BY <1>2, <1>3, <1>4 DEF IInv, TypeOK, FinLink
<1>6. /\ Numbered' /\ HoldersOK' /\ RequestsOK' /\ SessionsOK' /\ DeletersOK' /\ BootOK'
  BY <1>1, <1>4, <1>5, FinMove DEF FinLink
<1>7. FinOK' /\ OpenOK' /\ SoundIsKept' /\ ReadyIsPlayable'
  BY <1>4 DEF IInv, FinOK, OpenOK, SoundIsKept, ReadyIsPlayable, FinLink
<1> QED BY <1>5, <1>6, <1>7 DEF IInv

LEMMA FinCleanKeeps == ASSUME IInv, NEW r \in Recordings, FinClean(r) PROVE IInv'
<1>1. row[r] # NoRow /\ row[r].state \in Settled /\ r \in audio \union asked
  BY DEF IInv, FinOK, FinClean
<1>2. /\ work' \in [Recordings -> {"none", "parts", "broken", "empty"}]
      /\ \A q \in Recordings \ {r} : work'[q] = work[q]
  BY DEF IInv, TypeOK, FinClean
<1>3. PICK where \in {"none", "clean"} : Go(r, where)
  BY DEF FinClean
<1>4. /\ fin' \in [Recordings -> FinPCs] /\ fin'[r] = where
      /\ \A q \in Recordings \ {r} : fin'[q] = fin[q]
  BY <1>3, GoEffect DEF IInv, FinPCs
<1>5. TypeOK'
  BY <1>2, <1>4 DEF IInv, TypeOK, FinClean
<1>6. /\ Numbered' /\ HoldersOK' /\ RequestsOK' /\ SessionsOK' /\ DeletersOK' /\ BootOK'
  BY <1>1, <1>2, <1>4, <1>5, FinMove DEF FinClean
<1>7. FinOK' /\ ReadyIsPlayable'
  BY <1>1, <1>4 DEF IInv, FinOK, ReadyIsPlayable, FinClean
<1>8. OpenOK'
  BY <1>1, <1>2, <1>4 DEF IInv, OpenOK, FinClean
<1>9. SoundIsKept'
  BY <1>1, <1>2 DEF IInv, SoundIsKept, FinClean
<1> QED BY <1>5, <1>6, <1>7, <1>8, <1>9 DEF IInv

LEMMA FinFailKeeps == ASSUME IInv, NEW r \in Recordings, FinFail(r) PROVE IInv'
<1>1. row[r] # NoRow /\ row[r].call \in Calls
  BY DEF IInv, FinOK, TypeOK, RecordingRow, FinFail
<1>2. /\ row' \in [Recordings -> RecordingRow \union {NoRow}]
      /\ row'[r] # NoRow /\ row'[r].call = row[r].call /\ row'[r].state = "failed"
      /\ \A q \in Recordings \ {r} : row'[q] = row[q]
  BY <1>1, SaveEffect DEF IInv, FinFail
<1>3. /\ fin' \in [Recordings -> FinPCs] /\ fin'[r] = "fail_link"
      /\ \A q \in Recordings \ {r} : fin'[q] = fin[q]
  BY GoEffect DEF IInv, FinPCs, FinFail
<1>4. TypeOK'
  BY <1>2, <1>3 DEF IInv, TypeOK, FinFail
<1>5. /\ Numbered' /\ HoldersOK' /\ RequestsOK' /\ SessionsOK' /\ DeletersOK' /\ BootOK'
  BY <1>2, <1>3, <1>4, FinMove DEF FinFail
<1>6. FinOK'
  BY <1>2, <1>3 DEF IInv, FinOK, FinFail
<1>7. OpenOK' /\ SoundIsKept' /\ ReadyIsPlayable'
  BY <1>1, <1>2, <1>3 DEF IInv, OpenOK, SoundIsKept, ReadyIsPlayable, FinFail
<1> QED BY <1>4, <1>5, <1>6, <1>7 DEF IInv

LEMMA FinFailLinkKeeps == ASSUME IInv, NEW r \in Recordings, FinFailLink(r) PROVE IInv'
<1>1. row[r] # NoRow /\ row[r].call \in Calls /\ row[r].state \in Settled
  BY DEF IInv, FinOK, TypeOK, RecordingRow, FinFailLink
<1>2. call' \in [Calls -> CallRow]
  BY <1>1, LinkEffect DEF IInv, TypeOK, FinFailLink
<1>3. faults' \in 0 .. MaxFaults /\ crashes' \in 0 .. MaxCrashes
  BY FaultEffect DEF IInv, TypeOK, FinFailLink
<1>4. /\ fin' \in [Recordings -> FinPCs] /\ fin'[r] = "none"
      /\ \A q \in Recordings \ {r} : fin'[q] = fin[q]
  BY GoEffect DEF IInv, FinPCs, FinFailLink
<1>5. TypeOK'
  BY <1>2, <1>3, <1>4 DEF IInv, TypeOK, FinFailLink
<1>6. /\ Numbered' /\ HoldersOK' /\ RequestsOK' /\ SessionsOK' /\ DeletersOK' /\ BootOK'
  BY <1>1, <1>4, <1>5, FinMove DEF FinFailLink
<1>7. FinOK' /\ OpenOK' /\ SoundIsKept' /\ ReadyIsPlayable'
  BY <1>1, <1>4 DEF IInv, FinOK, OpenOK, SoundIsKept, ReadyIsPlayable, FinFailLink
<1> QED BY <1>5, <1>6, <1>7 DEF IInv

LEMMA FinalizeKeeps == ASSUME IInv, NEW r \in Recordings, Finalize(r) PROVE IInv'
  BY FinEncodeKeeps, FinPublishKeeps, FinSaveKeeps, FinLinkKeeps, FinCleanKeeps,
     FinFailKeeps, FinFailLinkKeeps DEF Finalize

-----------------------------------------------------------------------------
(* Delete.  It may run while somebody holds the recording.                 *)

LEMMA DeleteRequestKeeps ==
    ASSUME IInv, NEW w \in Workers, NEW r \in Recordings, DeleteRequest(w, r) PROVE IInv'
<1>1. row[r] # NoRow /\ row[r].call \in Calls
  BY DEF IInv, TypeOK, RecordingRow, DeleteRequest
<1>2. /\ worker' \in [Workers -> Goroutine] /\ worker'[w].pc = "delete_save"
      /\ worker'[w].call = row[r].call /\ worker'[w].rec = r
      /\ \A v \in Workers \ {w} : worker'[v] = worker[v]
  BY <1>1, GoesEffect DEF IInv, WorkerPCs, DeleteRequest
<1>3. TypeOK'
  BY <1>2 DEF IInv, TypeOK, DeleteRequest
<1>4. HoldersOK'
  BY <1>2 DEF IInv, HoldersOK, HolderOK, Holding, Starting, DeleteRequest
<1>5. DeletersOK'
  BY <1>1, <1>2 DEF IInv, DeletersOK, Deleting, DeleteRequest
<1>6. RequestsOK' /\ BootOK'
  BY <1>2 DEF IInv, RequestsOK, BootOK, DeleteRequest
<1>7. Numbered' /\ SessionsOK' /\ FinOK' /\ OpenOK' /\ SoundIsKept' /\ ReadyIsPlayable'
  BY DEF IInv, Numbered, SessionsOK, FinOK, OpenOK, SoundIsKept, ReadyIsPlayable, DeleteRequest
<1> QED BY <1>3, <1>4, <1>5, <1>6, <1>7 DEF IInv

LEMMA DeleteSaveKeeps == ASSUME IInv, NEW w \in Workers, DeleteSave(w) PROVE IInv'
<1> DEFINE r == worker[w].rec
<1>1. CASE Over(w) /\ UNCHANGED row /\ Fault("delete")
  BY <1>1, OverMove DEF DeleteSave
<1>2. CASE Save(r, worker[w].call, "deleted") /\ Step(w, "delete_link") /\ UNCHANGED bounds
  <2>1. /\ r \in asked /\ r \in Recordings /\ row[r] # NoRow
        /\ row[r].call = worker[w].call /\ worker[w].call \in Calls
    BY DEF IInv, DeletersOK, Deleting, TypeOK, DeleteSave
  <2>2. /\ row' \in [Recordings -> RecordingRow \union {NoRow}]
        /\ row'[r] # NoRow /\ row'[r].call = row[r].call /\ row'[r].state = "deleted"
        /\ \A q \in Recordings \ {r} : row'[q] = row[q]
    BY <1>2, <2>1, SaveEffect DEF IInv
  <2>3. /\ worker' \in [Workers -> Goroutine] /\ worker'[w].pc = "delete_link"
        /\ worker'[w].call = worker[w].call /\ worker'[w].rec = r
        /\ \A v \in Workers \ {w} : worker'[v] = worker[v]
    BY <1>2, StepEffect DEF IInv, WorkerPCs
  <2>4. TypeOK'
    BY <1>2, <2>2, <2>3 DEF IInv, TypeOK, DeleteSave
  <2>5. Numbered'
    BY <2>1, <2>2 DEF IInv, Numbered, DeleteSave
  <2>6. HoldersOK'
    <3>1. ASSUME NEW v \in Workers, Holding(v)' PROVE HolderOK(v)'
      <4>1. v # w /\ worker'[v] = worker[v] /\ Holding(v) /\ HolderOK(v)
        BY <2>3, <3>1 DEF IInv, HoldersOK, Holding, Starting
      <4>2. \A u \in Workers : Holding(u)' => Holding(u) /\ worker'[u] = worker[u]
        BY <2>3 DEF Holding, Starting
      <4>3. CASE worker[v].rec = r
        BY <2>1, <2>2, <4>1, <4>2, <4>3 DEF HolderOK, DeleteSave
      <4>4. CASE worker[v].rec # r
        <5>1. row'[worker[v].rec] = row[worker[v].rec]
          BY <2>2, <4>1, <4>4 DEF HolderOK
        <5> QED BY <4>1, <4>2, <5>1 DEF HolderOK, DeleteSave
      <4> QED BY <4>3, <4>4
    <3> QED BY <3>1 DEF HoldersOK
  <2>7. RequestsOK' /\ BootOK'
    BY <2>3 DEF IInv, RequestsOK, BootOK, DeleteSave
  <2>8. SessionsOK'
    BY <2>1, <2>2, SMTT(30) DEF IInv, SessionsOK, TypeOK, DeleteSave
  <2>9. DeletersOK'
    <3>1. ASSUME NEW v \in Workers, Deleting(v)'
          PROVE  /\ worker'[v].rec \in asked /\ worker'[v].call \in Calls
                 /\ row'[worker'[v].rec] # NoRow /\ row'[worker'[v].rec].call = worker'[v].call
      <4>1. /\ worker[v].rec \in asked /\ worker[v].call \in Calls
            /\ worker[v].rec \in Recordings
            /\ row[worker[v].rec] # NoRow /\ row[worker[v].rec].call = worker[v].call
            /\ worker'[v].rec = worker[v].rec /\ worker'[v].call = worker[v].call
        BY <2>1, <2>3, <3>1 DEF IInv, DeletersOK, Deleting, TypeOK
      <4>2. CASE worker[v].rec = r
        BY <2>2, <4>1, <4>2
      <4>3. CASE worker[v].rec # r
        BY <2>2, <4>1, <4>3
      <4> QED BY <4>2, <4>3
    <3> QED BY <3>1 DEF DeletersOK, DeleteSave
  <2>10. FinOK' /\ OpenOK'
    BY <2>1, <2>2 DEF IInv, FinOK, OpenOK, DeleteSave
  <2>11. SoundIsKept' /\ ReadyIsPlayable'
    BY <2>1, <2>2 DEF IInv, SoundIsKept, ReadyIsPlayable, DeleteSave
  <2> QED BY <2>4, <2>5, <2>6, <2>7, <2>8, <2>9, <2>10, <2>11 DEF IInv
<1> QED BY <1>1, <1>2 DEF DeleteSave

LEMMA DeleteLinkKeeps == ASSUME IInv, NEW w \in Workers, DeleteLink(w) PROVE IInv'
<1> DEFINE r == worker[w].rec
<1>1. r \in asked /\ r \in Recordings /\ worker[w].call \in Calls
  BY DEF IInv, DeletersOK, Deleting, TypeOK, DeleteLink
<1>2. /\ worker' \in [Workers -> Goroutine] /\ worker'[w].pc = "delete_files"
      /\ worker'[w].call = worker[w].call /\ worker'[w].rec = r
      /\ \A v \in Workers \ {w} : worker'[v] = worker[v]
  BY StepEffect DEF IInv, WorkerPCs, DeleteLink
<1>3. call' \in [Calls -> CallRow]
  BY <1>1, LinkEffect DEF IInv, TypeOK, DeleteLink
<1>4. faults' \in 0 .. MaxFaults /\ crashes' \in 0 .. MaxCrashes
  BY FaultEffect DEF IInv, TypeOK, DeleteLink
<1>5. TypeOK'
  BY <1>2, <1>3, <1>4 DEF IInv, TypeOK, DeleteLink
<1>6. HoldersOK'
  BY <1>2 DEF IInv, HoldersOK, HolderOK, Holding, Starting, DeleteLink
<1>7. DeletersOK' /\ RequestsOK' /\ BootOK'
  BY <1>2 DEF IInv, DeletersOK, Deleting, RequestsOK, BootOK, DeleteLink
<1>8. Numbered' /\ SessionsOK' /\ FinOK' /\ OpenOK' /\ SoundIsKept' /\ ReadyIsPlayable'
  BY DEF IInv, Numbered, SessionsOK, FinOK, OpenOK, SoundIsKept, ReadyIsPlayable, DeleteLink
<1> QED BY <1>5, <1>6, <1>7, <1>8 DEF IInv

LEMMA DeleteFilesKeeps == ASSUME IInv, NEW w \in Workers, DeleteFiles(w) PROVE IInv'
<1> DEFINE r == worker[w].rec
<1>1. r \in asked /\ r \in Recordings /\ worker[w].call \in Calls
  BY DEF IInv, DeletersOK, Deleting, TypeOK, DeleteFiles
<1>2. Goes(w, "done", worker[w].call, 0) /\ "done" \in WorkerPCs
  BY DEF Over, WorkerPCs, DeleteFiles
<1>3. /\ worker' \in [Workers -> Goroutine] /\ worker'[w].pc = "done"
      /\ \A v \in Workers \ {w} : worker'[v] = worker[v]
  BY <1>1, <1>2, GoesEffect DEF IInv
<1>4. /\ work' \in [Recordings -> {"none", "parts", "broken", "empty"}]
      /\ \A q \in Recordings : work'[q] # work[q] => work[q] = "empty" /\ work'[q] = "none"
      /\ audio' = audio \ {r}
  <2>1. CASE work[r] = "empty"
    <3>1. work' = [work EXCEPT ![r] = "none"] /\ audio' = audio \ {r}
      BY <2>1 DEF DeleteFiles
    <3> QED BY <1>1, <2>1, <3>1 DEF IInv, TypeOK
  <2>2. CASE work[r] # "empty"
    BY <2>2 DEF IInv, TypeOK, DeleteFiles
  <2> QED BY <2>1, <2>2
<1>5. TypeOK'
  BY <1>3, <1>4 DEF IInv, TypeOK, DeleteFiles
<1>6. HoldersOK'
  <2>1. ASSUME NEW v \in Workers, Holding(v)' PROVE HolderOK(v)'
    <3>1. v # w /\ worker'[v] = worker[v] /\ Holding(v) /\ HolderOK(v)
      BY <1>3, <2>1 DEF IInv, HoldersOK, Holding, Starting
    <3> QED BY <1>3, <1>4, <3>1 DEF HolderOK, Holding, Starting, DeleteFiles
  <2> QED BY <2>1 DEF HoldersOK
<1>7. RequestsOK' /\ DeletersOK'
  BY <1>3 DEF IInv, RequestsOK, DeletersOK, Deleting, DeleteFiles
<1>8. SessionsOK'
  BY <1>4 DEF IInv, SessionsOK, TypeOK, DeleteFiles
<1>9. BootOK'
  BY DEF IInv, BootOK, DeleteFiles
<1>10. Numbered'
  BY <1>4 DEF IInv, Numbered, DeleteFiles
<1>11. FinOK' /\ OpenOK' /\ SoundIsKept' /\ ReadyIsPlayable'
  BY <1>1, <1>4 DEF IInv, FinOK, OpenOK, SoundIsKept, ReadyIsPlayable, DeleteFiles
<1> QED BY <1>5, <1>6, <1>7, <1>8, <1>9, <1>10, <1>11 DEF IInv

-----------------------------------------------------------------------------
(* Crash and recovery.                                                     *)

LEMMA CrashKeeps == ASSUME IInv, Crash PROVE IInv'
<1>1. \A w \in Workers : worker'[w].pc \in {"new", "done"}
  BY DEF Crash
<1>2. worker' \in [Workers -> Goroutine]
  BY DEF IInv, TypeOK, Goroutine, WorkerPCs, Crash
<1>3. boot' \in Starter /\ fin' \in [Recordings -> FinPCs]
  BY DEF Starter, FinPCs, Crash
<1>4. TypeOK'
  BY <1>2, <1>3 DEF IInv, TypeOK, Crash
<1>5. HoldersOK' /\ RequestsOK' /\ DeletersOK'
  BY <1>1 DEF HoldersOK, Holding, Starting, RequestsOK, DeletersOK, Deleting
<1>6. BootOK'
  BY <1>1 DEF BootOK, Crash
<1>7. OpenOK'
  BY DEF IInv, OpenOK, Crash
<1>8. Numbered' /\ SessionsOK' /\ FinOK' /\ SoundIsKept' /\ ReadyIsPlayable'
  BY DEF IInv, Numbered, SessionsOK, FinOK, SoundIsKept, ReadyIsPlayable, Crash
<1> QED BY <1>4, <1>5, <1>6, <1>7, <1>8 DEF IInv

\* While the process is not up, no goroutine of it and no session is about a recording.
LEMMA NobodyServes ==
    ASSUME IInv, ~ Up, UNCHANGED <<worker, sessions>>
    PROVE  HoldersOK' /\ RequestsOK' /\ DeletersOK' /\ SessionsOK'
  BY DEF IInv, BootOK, HoldersOK, Holding, Starting, RequestsOK, DeletersOK, Deleting, SessionsOK

LEMMA RestartKeeps == ASSUME IInv, Restart PROVE IInv'
<1>1. boot' \in Starter
  BY DEF Starter, Restart
<1>2. TypeOK'
  BY <1>1 DEF IInv, TypeOK, Restart
<1>3. HoldersOK' /\ RequestsOK' /\ DeletersOK' /\ SessionsOK'
  BY NobodyServes DEF Restart
<1>4. BootOK'
  BY DEF IInv, BootOK, Restart
<1>5. OpenOK'
  BY DEF IInv, OpenOK, Restart
<1>6. Numbered' /\ FinOK' /\ SoundIsKept' /\ ReadyIsPlayable'
  BY DEF IInv, Numbered, FinOK, SoundIsKept, ReadyIsPlayable, TypeOK, Restart
<1> QED BY <1>2, <1>3, <1>4, <1>5, <1>6 DEF IInv

LEMMA RecoverOneKeeps == ASSUME IInv, NEW r \in Recordings, RecoverOne(r) PROVE IInv'
<1>1. CASE row[r] = NoRow /\ boot' = [boot EXCEPT !.todo = @ \ {r}] /\ UNCHANGED fin
  <2>1. boot' \in Starter /\ boot'.pc = "scan" /\ boot'.todo = boot.todo \ {r}
    BY <1>1 DEF IInv, TypeOK, Starter, RecoverOne
  <2>2. TypeOK'
    BY <1>1, <2>1 DEF IInv, TypeOK, RecoverOne
  <2>3. HoldersOK' /\ RequestsOK' /\ DeletersOK' /\ SessionsOK'
    BY NobodyServes DEF RecoverOne
  <2>4. BootOK'
    BY <1>1, <2>1 DEF IInv, BootOK, RecoverOne
  <2>5. OpenOK'
    BY <1>1, <2>1 DEF IInv, OpenOK, RecoverOne
  <2>6. Numbered' /\ FinOK' /\ SoundIsKept' /\ ReadyIsPlayable'
    BY <1>1 DEF IInv, Numbered, FinOK, SoundIsKept, ReadyIsPlayable, RecoverOne
  <2> QED BY <2>2, <2>3, <2>4, <2>5, <2>6 DEF IInv
<1>2. CASE /\ row[r] # NoRow
           /\ boot' = [boot EXCEPT !.pc = "fail_save", !.rec = r] /\ UNCHANGED fin
  <2>1. /\ boot' \in Starter /\ boot'.pc = "fail_save" /\ boot'.rec = r
        /\ boot'.todo = boot.todo /\ r \in boot.todo
    <3>1. boot' = [pc |-> "fail_save", todo |-> boot.todo, rec |-> r] /\ r \in boot.todo
      BY <1>2 DEF IInv, TypeOK, Starter, RecoverOne
    <3> QED BY <3>1 DEF IInv, TypeOK, Starter
  <2>2. TypeOK'
    BY <1>2, <2>1 DEF IInv, TypeOK, RecoverOne
  <2>3. HoldersOK' /\ RequestsOK' /\ DeletersOK' /\ SessionsOK'
    BY NobodyServes DEF RecoverOne
  <2>4. BootOK'
    BY <1>2, <2>1 DEF IInv, BootOK, RecoverOne
  <2>5. OpenOK'
    BY <1>2, <2>1 DEF IInv, OpenOK, RecoverOne
  <2>6. Numbered' /\ FinOK' /\ SoundIsKept' /\ ReadyIsPlayable'
    BY <1>2 DEF IInv, Numbered, FinOK, SoundIsKept, ReadyIsPlayable, RecoverOne
  <2> QED BY <2>2, <2>3, <2>4, <2>5, <2>6 DEF IInv
<1>3. CASE row[r] # NoRow /\ boot' = [boot EXCEPT !.todo = @ \ {r}] /\ Go(r, "encode")
  <2>1. boot' \in Starter /\ boot'.pc = "scan" /\ boot'.todo = boot.todo \ {r}
    BY <1>3 DEF IInv, TypeOK, Starter, RecoverOne
  <2>2. /\ fin' \in [Recordings -> FinPCs] /\ fin'[r] = "encode"
        /\ \A q \in Recordings \ {r} : fin'[q] = fin[q]
    BY <1>3, GoEffect DEF IInv, FinPCs
  <2>3. TypeOK'
    BY <2>1, <2>2 DEF IInv, TypeOK, RecoverOne
  <2>4. HoldersOK' /\ RequestsOK' /\ DeletersOK' /\ SessionsOK'
    BY NobodyServes DEF RecoverOne
  <2>5. BootOK'
    BY <2>1, <2>2 DEF IInv, BootOK, TypeOK, Starter, RecoverOne
  <2>6. OpenOK'
    BY <2>1, <2>2 DEF IInv, OpenOK, RecoverOne
  <2>7. FinOK'
    BY <1>3, <2>2 DEF IInv, FinOK, RecoverOne
  <2>8. Numbered' /\ SoundIsKept' /\ ReadyIsPlayable'
    BY DEF IInv, Numbered, SoundIsKept, ReadyIsPlayable, RecoverOne
  <2> QED BY <2>3, <2>4, <2>5, <2>6, <2>7, <2>8 DEF IInv
<1> QED BY <1>1, <1>2, <1>3 DEF RecoverOne

LEMMA RecoverFailKeeps == ASSUME IInv, RecoverFail PROVE IInv'
<1> DEFINE r == boot.rec
<1>1. /\ r \in boot.todo /\ r \in Recordings /\ row[r] # NoRow /\ row[r].call \in Calls
      /\ fin[r] = "none"
  BY DEF IInv, BootOK, TypeOK, Starter, RecordingRow, RecoverFail
<1>2. /\ row' \in [Recordings -> RecordingRow \union {NoRow}]
      /\ row'[r] # NoRow /\ row'[r].call = row[r].call /\ row'[r].state = "failed"
      /\ \A q \in Recordings \ {r} : row'[q] = row[q]
  BY <1>1, SaveEffect DEF IInv, RecoverFail
<1>3. boot' \in Starter /\ boot'.pc = "fail_link" /\ boot'.todo = boot.todo /\ boot'.rec = r
  BY DEF IInv, TypeOK, Starter, RecoverFail
<1>4. TypeOK'
  BY <1>2, <1>3 DEF IInv, TypeOK, RecoverFail
<1>5. HoldersOK' /\ RequestsOK' /\ DeletersOK' /\ SessionsOK'
  BY NobodyServes DEF RecoverFail
<1>6. Numbered'
  BY <1>1, <1>2 DEF IInv, Numbered, RecoverFail
<1>7. FinOK'
  BY <1>1, <1>2 DEF IInv, FinOK, RecoverFail
<1>8. BootOK'
  BY <1>1, <1>2, <1>3 DEF IInv, BootOK, RecoverFail
<1>9. OpenOK'
  BY <1>1, <1>2, <1>3 DEF IInv, OpenOK, RecoverFail
<1>10. SoundIsKept' /\ ReadyIsPlayable'
  BY <1>1, <1>2 DEF IInv, SoundIsKept, ReadyIsPlayable, RecoverFail
<1> QED BY <1>4, <1>5, <1>6, <1>7, <1>8, <1>9, <1>10 DEF IInv

LEMMA RecoverFailLinkKeeps == ASSUME IInv, RecoverFailLink PROVE IInv'
<1> DEFINE r == boot.rec
<1>1. /\ r \in Recordings /\ row[r] # NoRow /\ row[r].call \in Calls
      /\ row[r].state \in Settled
  BY DEF IInv, BootOK, TypeOK, Starter, RecordingRow, RecoverFailLink
<1>2. call' \in [Calls -> CallRow]
  BY <1>1, LinkEffect DEF IInv, TypeOK, RecoverFailLink
<1>3. faults' \in 0 .. MaxFaults /\ crashes' \in 0 .. MaxCrashes
  BY FaultEffect DEF IInv, TypeOK, RecoverFailLink
<1>4. boot' \in Starter /\ boot'.pc = "scan" /\ boot'.todo = boot.todo \ {r}
  BY DEF IInv, TypeOK, Starter, RecoverFailLink
<1>5. TypeOK'
  BY <1>2, <1>3, <1>4 DEF IInv, TypeOK, RecoverFailLink
<1>6. HoldersOK' /\ RequestsOK' /\ DeletersOK' /\ SessionsOK'
  BY NobodyServes DEF RecoverFailLink
<1>7. BootOK'
  BY <1>4 DEF IInv, BootOK, RecoverFailLink
<1>8. OpenOK'
  BY <1>1, <1>4 DEF IInv, OpenOK, RecoverFailLink
<1>9. Numbered' /\ FinOK' /\ SoundIsKept' /\ ReadyIsPlayable'
  BY DEF IInv, Numbered, FinOK, SoundIsKept, ReadyIsPlayable, RecoverFailLink
<1> QED BY <1>5, <1>6, <1>7, <1>8, <1>9 DEF IInv

LEMMA ServeKeeps == ASSUME IInv, Serve PROVE IInv'
<1>1. boot' \in Starter /\ boot'.pc = "up" /\ boot'.todo = {}
  BY DEF IInv, TypeOK, Starter, Serve
<1>2. TypeOK'
  BY <1>1 DEF IInv, TypeOK, Serve
<1>3. HoldersOK' /\ RequestsOK' /\ DeletersOK' /\ SessionsOK'
  BY NobodyServes DEF Serve
<1>4. BootOK'
  BY <1>1 DEF BootOK
<1>5. OpenOK'
  BY <1>1 DEF IInv, OpenOK, Serve
<1>6. Numbered' /\ FinOK' /\ SoundIsKept' /\ ReadyIsPlayable'
  BY DEF IInv, Numbered, FinOK, SoundIsKept, ReadyIsPlayable, Serve
<1> QED BY <1>2, <1>3, <1>4, <1>5, <1>6 DEF IInv

-----------------------------------------------------------------------------
(* The theorems.                                                           *)

LEMMA InitHolds == ASSUME Init PROVE IInv
<1>1. TypeOK
  <2>1. call \in [Calls -> CallRow] /\ worker \in [Workers -> Goroutine]
    BY DEF Init, CallRow, Goroutine, WorkerPCs
  <2>2. fin \in [Recordings -> FinPCs] /\ boot \in Starter
    BY DEF Init, FinPCs, Starter
  <2> QED BY <2>1, <2>2 DEF Init, TypeOK
<1>2. HoldersOK /\ RequestsOK /\ DeletersOK
  BY DEF Init, HoldersOK, Holding, Starting, RequestsOK, DeletersOK, Deleting
<1>3. Numbered /\ SessionsOK /\ FinOK /\ BootOK /\ OpenOK
  BY DEF Init, Numbered, SessionsOK, FinOK, BootOK, OpenOK
<1>4. SoundIsKept /\ ReadyIsPlayable
  BY DEF Init, SoundIsKept, ReadyIsPlayable
<1> QED BY <1>1, <1>2, <1>3, <1>4 DEF IInv

LEMMA StutterKeeps == ASSUME IInv, UNCHANGED recordingVars PROVE IInv'
<1>1. TypeOK' /\ Numbered' /\ RequestsOK' /\ SessionsOK'
  BY DEF IInv, TypeOK, Numbered, RequestsOK, SessionsOK, recordingVars
<1>2. HoldersOK' /\ DeletersOK'
  BY DEF IInv, HoldersOK, HolderOK, Holding, Starting, DeletersOK, Deleting, recordingVars
<1>3. FinOK' /\ BootOK' /\ OpenOK' /\ SoundIsKept' /\ ReadyIsPlayable'
  BY DEF IInv, FinOK, BootOK, OpenOK, SoundIsKept, ReadyIsPlayable, recordingVars
<1> QED BY <1>1, <1>2, <1>3 DEF IInv

LEMMA WorkKeeps == ASSUME IInv, NEW w \in Workers, Work(w) PROVE IInv'
<1>1. CASE Start(w)
  BY <1>1, RequestKeeps, StartSessionKeeps, StartFilesKeeps, StartWriteKeeps, StartRegisterKeeps
     DEF Start
<1>2. CASE Stop(w)
  BY <1>2, RequestKeeps, EndCallKeeps, StopTakeKeeps, StopSaveKeeps, StopLinkKeeps DEF Stop
<1>3. CASE Delete(w)
  BY <1>3, DeleteRequestKeeps, DeleteSaveKeeps, DeleteLinkKeeps, DeleteFilesKeeps DEF Delete
<1> QED BY <1>1, <1>2, <1>3 DEF Work

\* The invariant holds in every reachable state.
THEOREM Invariance == Spec => []IInv
<1>1. ASSUME IInv, Next PROVE IInv'
  BY <1>1, ConnectKeeps, WorkKeeps, FinalizeKeeps, CrashKeeps, RestartKeeps, RecoverOneKeeps,
     RecoverFailKeeps, RecoverFailLinkKeeps, ServeKeeps DEF Next, Recover
<1>2. IInv /\ [Next]_recordingVars => IInv'
  BY <1>1, StutterKeeps
<1> QED BY InitHolds, <1>2, PTL DEF Spec

\* Tables, files, sessions and goroutines keep their types (TypeOK), with any number of
\* calls, goroutines, recordings, failures and crashes.
THEOREM TypeCorrect == Spec => []TypeOK
<1>1. IInv => TypeOK
  BY DEF IInv
<1> QED BY <1>1, Invariance, PTL

\* A recording that nobody asked to delete keeps its sound: finalize removes the parts only
\* after the audio is in place and the row says so, and fail and Recover leave them alone.
THEOREM SoundKept == Spec => []SoundIsKept
<1>1. IInv => SoundIsKept
  BY DEF IInv
<1> QED BY <1>1, Invariance, PTL

\* A row says "ready" only while its audio can be played (finalize, AudioPath, Delete).
THEOREM ReadyPlayable == Spec => []ReadyIsPlayable
<1>1. IInv => ReadyIsPlayable
  BY DEF IInv
<1> QED BY <1>1, Invariance, PTL

\* The recording of a session is one of its call, is being recorded or was deleted, and
\* nobody finalizes it: Start, Stop and Recover hand it on, and no two of them hold it.
THEOREM SessionsSound == Spec => []SessionsRecord
<1>1. ASSUME IInv PROVE SessionsRecord
  <2>1. ASSUME NEW c \in Calls, sessions[c] # 0
        PROVE  /\ row[sessions[c]] \in [call : {c}, state : {"recording", "deleted"}]
               /\ fin[sessions[c]] = "none" /\ work[sessions[c]] = "parts"
    <3>1. /\ row[sessions[c]] # NoRow /\ row[sessions[c]].call = c
          /\ row[sessions[c]].state \in {"recording", "deleted"}
          /\ fin[sessions[c]] = "none" /\ work[sessions[c]] = "parts"
          /\ sessions[c] \in Recordings
      BY <1>1, <2>1 DEF IInv, SessionsOK, TypeOK
    <3>2. row[sessions[c]] \in RecordingRow
      BY <1>1, <3>1 DEF IInv, TypeOK
    <3> QED BY <3>1, <3>2 DEF RecordingRow
  <2> QED BY <2>1 DEF SessionsRecord
<1>2. IInv => SessionsRecord
  BY <1>1
<1> QED BY <1>2, Invariance, PTL

\* Recover and the finalizations it starts settle every recording of the time before the
\* restart, whatever step of Start, Stop, finalize or fail the crash hit.
THEOREM RestartsSettle == Spec => []RestartSettles
<1>1. ASSUME IInv PROVE RestartSettles
  <2>1. ASSUME Quiet, NEW r \in 1 .. before PROVE row[r].state \notin Open
    <3>1. r \in Recordings /\ r <= before
      BY <1>1, <2>1 DEF IInv, TypeOK
    <3>2. fin[r] = "none" /\ boot.pc = "up" /\ boot.todo = {}
      BY <1>1, <2>1, <3>1 DEF Quiet, IInv, BootOK
    <3> QED BY <1>1, <3>1, <3>2 DEF IInv, OpenOK
  <2> QED BY <2>1 DEF RestartSettles
<1>2. IInv => RestartSettles
  BY <1>1
<1> QED BY <1>2, Invariance, PTL

\* Only a holder, a finalization, a deletion or Recover writes a row.
LEMMA RowWriters ==
    ASSUME IInv, Next, NEW r \in Recordings,
           work[r] = "none" /\ fin[r] = "none", row[r] # NoRow
    PROVE  row'[r].state \in {row[r].state, "deleted"}
<1>1. ASSUME NEW w \in Workers, Holding(w) PROVE worker[w].rec # r
  BY <1>1 DEF IInv, HoldersOK, HolderOK
<1>2. ASSUME NEW w \in Workers, Start(w) PROVE row'[r] = row[r]
  <2>1. CASE UNCHANGED row
    BY <2>1
  <2>2. CASE SaveStarting(w) \/ SaveRecording(w)
    <3>1. worker[w].rec # r
      BY <1>1, <2>2 DEF SaveStarting, SaveRecording, Holding, Starting
    <3> QED BY <2>2, <3>1 DEF SaveStarting, SaveRecording, StartSave, Save, IInv, TypeOK
  <2> QED BY <1>2, <2>1, <2>2 DEF Start, StartRequest, StartSession, StartFiles, LinkStarting,
                                  LinkRecording, StartLink, StartRegister
<1>3. ASSUME NEW w \in Workers, Stop(w) PROVE row'[r] = row[r]
  <2>1. CASE UNCHANGED row
    BY <2>1
  <2>2. CASE StopSave(w)
    <3>1. worker[w].rec # r
      BY <1>1, <2>2 DEF StopSave, Holding
    <3> QED BY <2>2, <3>1 DEF StopSave, Save, IInv, TypeOK
  <2> QED BY <1>3, <2>1, <2>2 DEF Stop, StopRequest, EndCall, StopTake, StopLink
<1>4. ASSUME NEW w \in Workers, Delete(w) PROVE row'[r].state \in {row[r].state, "deleted"}
  BY <1>4 DEF Delete, DeleteRequest, DeleteSave, DeleteLink, DeleteFiles, Save, IInv, TypeOK
<1>5. ASSUME NEW q \in Recordings, Finalize(q) PROVE row'[r] = row[r]
  <2>1. CASE UNCHANGED row
    BY <2>1
  <2>2. CASE FinSave(q) \/ FinFail(q)
    BY <2>2 DEF FinSave, FinFail, Save, IInv, TypeOK
  <2> QED BY <1>5, <2>1, <2>2 DEF Finalize, FinEncode, FinPublish, FinLink, FinClean, FinFailLink
<1>6. ASSUME RecoverFail PROVE row'[r] = row[r]
  <2>1. boot.rec # r
    BY <1>6 DEF RecoverFail, IInv, BootOK
  <2> QED BY <1>6, <2>1 DEF RecoverFail, Save, IInv, TypeOK
<1>7. CASE UNCHANGED row
  BY <1>7
<1> QED BY <1>2, <1>3, <1>4, <1>5, <1>6, <1>7
        DEF Next, Work, Connect, Crash, Restart, Recover, RecoverOne, RecoverFailLink, Serve

\* Once its work directory is gone and its finalization is over, a recording that is ready
\* or deleted can only be deleted: Recover, which goes by the directories, never meets it.
THEOREM CleanRowsFinal == Spec => CleanRowsAreFinal
<1> DEFINE Final == \A r \in Recordings :
               row[r].state \in {"ready", "deleted"} /\ work[r] = "none" /\ fin[r] = "none" =>
                   row'[r].state \in {row[r].state, "deleted"}
<1>1. IInv /\ [Next]_recordingVars => [Final]_recordingVars
  BY RowWriters DEF recordingVars
<1> QED BY <1>1, Invariance, PTL DEF Spec, CleanRowsAreFinal

-----------------------------------------------------------------------------
(* The two tables.  Every step that saves a recording is followed by one   *)
(* that tells the row of its call, by the same goroutine or, after a       *)
(* crash, by Recover; between the two nobody else writes the recording.    *)

\* What CallRowAgrees excepts has not happened.
Undisturbed == faults = 0 /\ asked = {}

\* Whoever comes to update the call's row finds the recording as it was saved, and a
\* finalization has a directory by which Recover would find its recording again.
LinkersOK ==
    /\ \A w \in Workers :
          /\ worker[w].pc = "link_starting" => row[worker[w].rec].state = "starting"
          /\ worker[w].pc = "link_recording" => row[worker[w].rec].state = "recording"
          /\ worker[w].pc = "stop_link" => row[worker[w].rec].state = "finalizing"
    /\ \A r \in Recordings :
          /\ fin[r] = "link" => row[r].state = "ready"
          /\ fin[r] = "fail_link" => row[r].state = "failed"
          /\ fin[r] # "none" => work[r] # "none"
    /\ boot.pc = "fail_link" => row[boot.rec].state = "failed"

\* Somebody will update the row of the call of r.
LinkPending(r) ==
    \/ \E w \in Workers : /\ worker[w].pc \in {"link_starting", "link_recording", "stop_link"}
                          /\ worker[w].rec = r
    \/ /\ work[r] # "none"
       /\ \/ boot.pc = "down" \/ r \in boot.todo
          \/ fin[r] \in {"encode", "publish", "save", "link", "fail_save", "fail_link"}

\* A call's row agrees with the recording it names, or will be updated.
RowAgrees(c) ==
    call[c].id # 0 =>
        /\ row[call[c].id] # NoRow /\ row[call[c].id].call = c
        /\ call[c].recState = row[call[c].id].state \/ LinkPending(call[c].id)

AgreeInv == Undisturbed => LinkersOK /\ \A c \in Calls : RowAgrees(c)

-----------------------------------------------------------------------------
\* A step that saves and updates nothing keeps the agreement, if no update is lost.
LEMMA CalmMove ==
    ASSUME IInv, AgreeInv, Undisturbed, UNCHANGED row,
           \A c \in Calls : call'[c].id = call[c].id /\ call'[c].recState = call[c].recState,
           \A w \in Workers : worker'[w].pc \in {"link_starting", "link_recording", "stop_link"}
                                  => worker'[w] = worker[w],
           \A r \in Recordings : /\ fin'[r] \in {"link", "fail_link"} => fin'[r] = fin[r]
                                 /\ fin'[r] # "none" => work'[r] # "none",
           boot'.pc = "fail_link" => boot' = boot,
           \A r \in Recordings : row[r] # NoRow /\ LinkPending(r) => LinkPending(r)'
    PROVE  LinkersOK' /\ \A c \in Calls : RowAgrees(c)'
<1>1. LinkersOK'
  BY DEF AgreeInv, LinkersOK
<1>2. ASSUME NEW c \in Calls PROVE RowAgrees(c)'
  <2>1. RowAgrees(c) /\ call[c].id \in 0 .. MaxRecordings
    BY DEF AgreeInv, IInv, TypeOK, CallRow
  <2> QED BY <2>1 DEF RowAgrees
<1> QED BY <1>1, <1>2

\* A step that saves a recording and will update the row of its call.
LEMMA SaveMove ==
    ASSUME IInv, AgreeInv, Undisturbed, UNCHANGED call, NEW r \in Recordings,
           row'[r] # NoRow, row[r] # NoRow => row'[r].call = row[r].call,
           \A q \in Recordings \ {r} : row'[q] = row[q],
           LinkPending(r)', \A q \in Recordings \ {r} : LinkPending(q) => LinkPending(q)'
    PROVE  \A c \in Calls : RowAgrees(c)'
<1>1. ASSUME NEW c \in Calls PROVE RowAgrees(c)'
  <2>1. RowAgrees(c) /\ call[c].id \in 0 .. MaxRecordings
    BY DEF AgreeInv, IInv, TypeOK, CallRow
  <2> QED BY <2>1 DEF RowAgrees
<1> QED BY <1>1

\* A step that tells the row of a call what the recording is.
LEMMA LinkMove ==
    ASSUME IInv, AgreeInv, Undisturbed, UNCHANGED row, NEW r \in Recordings, NEW c \in Calls,
           row[r] # NoRow, row[r].call = c, NEW state, row[r].state = state, Link(r, c, state),
           \A q \in Recordings \ {r} : LinkPending(q) => LinkPending(q)'
    PROVE  \A d \in Calls : RowAgrees(d)'
<1>1. /\ call'[c].id = r /\ call'[c].recState = state
      /\ \A d \in Calls \ {c} : call'[d] = call[d]
  BY DEF Link, IInv, TypeOK
<1>2. ASSUME NEW d \in Calls PROVE RowAgrees(d)'
  <2>1. RowAgrees(d) /\ call[d].id \in 0 .. MaxRecordings
    BY DEF AgreeInv, IInv, TypeOK, CallRow
  <2>2. CASE d = c
    BY <1>1, <2>2 DEF RowAgrees
  <2>3. CASE d # c
    BY <1>1, <2>1, <2>3 DEF RowAgrees
  <2> QED BY <2>2, <2>3
<1> QED BY <1>2

\* Without deletion and failure no step of Delete is taken.
LEMMA NobodyDeletes ==
    ASSUME IInv, NEW w \in Workers, Delete(w), Undisturbed'
    PROVE  FALSE
<1>1. asked = {} /\ ~ Deleting(w)
  BY DEF IInv, DeletersOK, Undisturbed, Delete, DeleteRequest, DeleteSave, DeleteLink, DeleteFiles
<1> QED BY <1>1 DEF Delete, DeleteRequest, DeleteSave, DeleteLink, DeleteFiles, Deleting, Undisturbed

\* Of the steps of Start and Stop, these save and update nothing.
LEMMA BeforeSaving ==
    ASSUME IInv, AgreeInv, Undisturbed, NEW w \in Workers,
           \/ \E c \in Calls : StartRequest(w, c) \/ StopRequest(w, c) \/ EndCall(w, c)
           \/ StartSession(w) \/ StartFiles(w) \/ StartRegister(w) \/ StopTake(w)
    PROVE  LinkersOK' /\ \A c \in Calls : RowAgrees(c)'
<1>1. /\ worker[w].pc \notin {"link_starting", "link_recording", "stop_link"}
      /\ worker'[w].pc \notin {"link_starting", "link_recording", "stop_link"}
      /\ \A v \in Workers \ {w} : worker'[v] = worker[v]
      /\ UNCHANGED <<row, fin, boot>>
  BY DEF StartRequest, StopRequest, EndCall, StartSession, StartFiles, StartRegister, StopTake,
         Goes, Step, Over, IInv, TypeOK
<1>2. \A c \in Calls : call'[c].id = call[c].id /\ call'[c].recState = call[c].recState
  BY DEF StartRequest, StopRequest, EndCall, StartSession, StartFiles, StartRegister, StopTake,
         SaveCall, IInv, TypeOK
<1>3. \A r \in Recordings : work[r] # "none" => work'[r] # "none"
  BY DEF StartRequest, StopRequest, EndCall, StartSession, StartFiles, StartRegister, StopTake,
         IInv, TypeOK
<1>4. \A r \in Recordings : LinkPending(r) => LinkPending(r)'
  BY <1>1, <1>3 DEF LinkPending
<1>5. \A r \in Recordings : fin'[r] # "none" => work'[r] # "none"
  BY <1>1, <1>3 DEF AgreeInv, LinkersOK
<1> QED BY <1>1, <1>2, <1>4, <1>5, CalmMove

\* Start and Stop save their recording as the only one that holds it.
LEMMA HolderSaves ==
    ASSUME IInv, AgreeInv, Undisturbed, Undisturbed', NEW w \in Workers,
           SaveStarting(w) \/ SaveRecording(w) \/ StopSave(w)
    PROVE  LinkersOK' /\ \A c \in Calls : RowAgrees(c)'
<1>1. PICK r \in Recordings : r = worker[w].rec /\ HolderOK(w) /\ Holding(w)
  BY DEF IInv, HoldersOK, HolderOK, Holding, Starting, SaveStarting, SaveRecording, StopSave
<1>2. PICK state \in Open, where \in {"link_starting", "link_recording", "stop_link"} :
          /\ Save(r, worker[w].call, state) /\ Step(w, where)
          /\ where = "link_starting" <=> state = "starting"
          /\ where = "link_recording" <=> state = "recording"
          /\ where = "stop_link" <=> state = "finalizing"
          /\ UNCHANGED <<call, files, fin, boot>>
  <2>1. \A point : ~ Fault(point)
    BY DEF Fault, Undisturbed
  <2> QED BY <1>1, <2>1 DEF SaveStarting, SaveRecording, StopSave, StartSave
<1>3. /\ row'[r] # NoRow /\ row'[r].call = worker[w].call /\ row'[r].state = state
      /\ \A q \in Recordings \ {r} : row'[q] = row[q]
  BY <1>1, <1>2, SaveEffect DEF IInv, HolderOK
<1>4. /\ worker'[w].pc = where /\ worker'[w].rec = r
      /\ \A v \in Workers \ {w} : worker'[v] = worker[v]
  BY <1>1, <1>2, StepEffect DEF IInv, WorkerPCs
<1>5. LinkersOK'
  <2>1. \A v \in Workers \ {w} : worker[v].pc \in {"link_starting", "link_recording", "stop_link"}
                                     => worker[v].rec \in Recordings \ {r}
    BY <1>1 DEF IInv, HoldersOK, HolderOK, Holding, Starting
  <2>2. fin[r] = "none" /\ boot.pc = "up"
    BY <1>1 DEF HolderOK, SaveStarting, SaveRecording, StopSave
  <2> QED BY <1>2, <1>3, <1>4, <2>1, <2>2 DEF AgreeInv, LinkersOK
<1>6. row[r] # NoRow => row'[r].call = row[r].call
  BY <1>1, <1>3 DEF HolderOK
<1>7. LinkPending(r)' /\ \A q \in Recordings \ {r} : LinkPending(q) => LinkPending(q)'
  BY <1>1, <1>2, <1>4 DEF LinkPending
<1> QED BY <1>1, <1>2, <1>3, <1>5, <1>6, <1>7, SaveMove

\* Start and Stop tell the row of the call what they have saved.
LEMMA HolderLinks ==
    ASSUME IInv, AgreeInv, Undisturbed, Undisturbed', NEW w \in Workers,
           LinkStarting(w) \/ LinkRecording(w) \/ StopLink(w)
    PROVE  LinkersOK' /\ \A c \in Calls : RowAgrees(c)'
<1> DEFINE r == worker[w].rec
<1>0. \A point : ~ Fault(point)
  BY DEF Fault, Undisturbed
<1>1. /\ HolderOK(w) /\ Holding(w) /\ r \in Recordings /\ worker[w].call \in Calls
      /\ row[r] # NoRow /\ row[r].call = worker[w].call
  BY DEF IInv, HoldersOK, HolderOK, Holding, Starting, LinkStarting, LinkRecording, StopLink
<1>2. Link(r, worker[w].call, row[r].state)
  BY <1>0 DEF AgreeInv, LinkersOK, LinkStarting, LinkRecording, StopLink, StartLink
<1>3. /\ worker'[w].pc \in {"save_recording", "start_register", "done"}
      /\ \A v \in Workers \ {w} : worker'[v] = worker[v]
      /\ UNCHANGED <<row, files, boot>>
  BY <1>0 DEF LinkStarting, LinkRecording, StopLink, StartLink, Step, Over, Goes, IInv, TypeOK
<1>4. fin' = fin \/ fin' = [fin EXCEPT ![r] = "encode"]
  BY DEF LinkStarting, LinkRecording, StopLink, StartLink
<1>5. work[r] = "parts" /\ fin[r] = "none" /\ boot.pc = "up"
  BY <1>1 DEF HolderOK, LinkStarting, LinkRecording, StopLink
<1>6. LinkersOK'
  <2>1. \A q \in Recordings : fin'[q] = fin[q] \/ (q = r /\ fin'[q] = "encode")
    BY <1>1, <1>4 DEF IInv, TypeOK
  <2> QED BY <1>1, <1>3, <1>5, <2>1 DEF AgreeInv, LinkersOK
<1>7. \A q \in Recordings \ {r} : LinkPending(q) => LinkPending(q)'
  BY <1>3, <1>4 DEF LinkPending, IInv, TypeOK
<1> HIDE DEF r
<1> QED BY <1>1, <1>2, <1>3, <1>6, <1>7, LinkMove

\* A finalization saves, updates and cleans up, and nobody holds its recording.
LEMMA FinAgrees ==
    ASSUME IInv, AgreeInv, Undisturbed, Undisturbed', NEW r \in Recordings, Finalize(r)
    PROVE  LinkersOK' /\ \A c \in Calls : RowAgrees(c)'
<1>0. /\ \A point : ~ Fault(point)
      /\ fin[r] # "none" /\ work[r] # "none" /\ row[r] # NoRow /\ row[r].call \in Calls
      /\ boot.pc # "down" /\ r \notin boot.todo /\ (r # boot.rec \/ boot.pc # "fail_link")
      /\ \A w \in Workers : Holding(w) => worker[w].rec # r
  <2>1. \A point : ~ Fault(point)
    BY DEF Fault, Undisturbed
  <2>2. fin[r] # "none"
    BY DEF Finalize, FinEncode, FinPublish, FinSave, FinLink, FinClean, FinFail, FinFailLink
  <2>3. work[r] # "none" /\ row[r] # NoRow /\ row[r].call \in Calls
    BY <2>2 DEF AgreeInv, LinkersOK, IInv, FinOK, TypeOK, RecordingRow
  <2>4. boot.pc # "down" /\ r \notin boot.todo /\ (r # boot.rec \/ boot.pc # "fail_link")
    BY <2>2 DEF IInv, BootOK
  <2>5. \A w \in Workers : Holding(w) => worker[w].rec # r
    BY <2>2 DEF IInv, HoldersOK, HolderOK
  <2> QED BY <2>1, <2>2, <2>3, <2>4, <2>5
<1>1. \A w \in Workers : worker[w].pc \in {"link_starting", "link_recording", "stop_link"}
                             => worker[w].rec \in Recordings \ {r}
  BY <1>0 DEF IInv, HoldersOK, HolderOK, Holding, Starting
<1>2. UNCHANGED <<worker, boot>> /\ \A q \in Recordings \ {r} : fin'[q] = fin[q] /\ work'[q] = work[q]
  BY DEF Finalize, FinEncode, FinPublish, FinSave, FinLink, FinClean, FinFail, FinFailLink, Go,
         IInv, TypeOK
<1>3. \A q \in Recordings \ {r} : LinkPending(q) => LinkPending(q)'
  BY <1>2 DEF LinkPending
<1>4. CASE FinEncode(r) \/ FinPublish(r)
  <2>1. /\ UNCHANGED <<tables, work>>
        /\ fin[r] \in {"encode", "publish"} /\ fin'[r] \in {"publish", "save", "fail_save"}
    BY <1>0, <1>4 DEF FinEncode, FinPublish, Go, IInv, TypeOK
  <2>2. LinkPending(r) => LinkPending(r)'
    BY <1>0, <1>2, <2>1 DEF LinkPending
  <2>3. \A q \in Recordings : fin'[q] # "none" => work'[q] # "none"
    BY <1>0, <1>2, <2>1 DEF AgreeInv, LinkersOK
  <2> QED BY <1>2, <1>3, <2>1, <2>2, <2>3, CalmMove
<1>5. CASE FinClean(r)
  <2>1. /\ UNCHANGED tables /\ fin[r] = "clean" /\ fin'[r] \in {"clean", "none"}
        /\ fin'[r] # "none" => work'[r] # "none"
    BY <1>5 DEF FinClean, Go, IInv, TypeOK
  <2>2. ~ LinkPending(r)
    BY <1>0, <1>1, <2>1 DEF LinkPending
  <2>3. \A q \in Recordings : fin'[q] # "none" => work'[q] # "none"
    BY <1>2, <2>1 DEF AgreeInv, LinkersOK
  <2> QED BY <1>2, <1>3, <2>1, <2>2, <2>3, CalmMove
<1>6. CASE FinSave(r) \/ FinFail(r)
  <2>1. PICK state \in {"ready", "failed"} :
            /\ Save(r, row[r].call, state) /\ UNCHANGED <<call, work>>
            /\ fin'[r] = IF state = "ready" THEN "link" ELSE "fail_link"
    BY <1>0, <1>6 DEF FinSave, FinFail, Go, IInv, TypeOK
  <2>2. /\ row'[r] # NoRow /\ row'[r].call = row[r].call /\ row'[r].state = state
        /\ \A q \in Recordings \ {r} : row'[q] = row[q]
    BY <1>0, <2>1, SaveEffect DEF IInv
  <2>3. LinkersOK'
    <3>1. boot.pc = "fail_link" => boot.rec \in Recordings \ {r}
      BY <1>0 DEF IInv, BootOK, TypeOK, Starter
    <3> QED BY <1>0, <1>1, <1>2, <2>1, <2>2, <3>1 DEF AgreeInv, LinkersOK
  <2>4. LinkPending(r)'
    BY <1>0, <2>1 DEF LinkPending
  <2> QED BY <1>3, <2>1, <2>2, <2>3, <2>4, SaveMove
<1>7. CASE FinLink(r) \/ FinFailLink(r)
  <2>1. /\ Link(r, row[r].call, row[r].state) /\ UNCHANGED <<row, work>>
        /\ fin'[r] \in {"clean", "none"}
    BY <1>0, <1>7 DEF FinLink, FinFailLink, Go, IInv, TypeOK, AgreeInv, LinkersOK
  <2>2. LinkersOK'
    BY <1>0, <1>2, <2>1 DEF AgreeInv, LinkersOK
  <2> QED BY <1>0, <1>3, <2>1, <2>2, LinkMove
<1> QED BY <1>4, <1>5, <1>6, <1>7 DEF Finalize

\* A crash leaves every update to Recover, which goes by the work directories.
LEMMA RestartAgrees ==
    ASSUME IInv, AgreeInv, Undisturbed, Undisturbed', Crash \/ Restart \/ Recover
    PROVE  LinkersOK' /\ \A c \in Calls : RowAgrees(c)'
<1>0. \A point : ~ Fault(point)
  BY DEF Fault, Undisturbed
<1>1. CASE Crash
  <2>1. \A w \in Workers : worker'[w].pc \in {"new", "done"}
    BY <1>1 DEF Crash
  <2>2. UNCHANGED <<tables, work>> /\ boot'.pc = "down" /\ \A r \in Recordings : fin'[r] = "none"
    BY <1>1 DEF Crash
  <2>3. \A r \in Recordings : LinkPending(r) => work[r] # "none"
    BY DEF LinkPending, IInv, HoldersOK, HolderOK, Holding, Starting
  <2>4. \A r \in Recordings : LinkPending(r) => LinkPending(r)'
    BY <2>2, <2>3 DEF LinkPending
  <2> QED BY <2>1, <2>2, <2>4, CalmMove
<1>2. CASE Restart
  <2>1. /\ UNCHANGED <<tables, work, worker, fin>> /\ boot'.pc = "scan"
        /\ boot'.todo = {r \in Recordings : work[r] # "none"}
    BY <1>2 DEF Restart
  <2>2. \A r \in Recordings : LinkPending(r) => LinkPending(r)'
    BY <2>1 DEF LinkPending
  <2>3. \A r \in Recordings : fin'[r] # "none" => work'[r] # "none"
    BY <2>1 DEF AgreeInv, LinkersOK
  <2> QED BY <2>1, <2>2, <2>3, CalmMove
<1>3. ASSUME NEW r \in Recordings, RecoverOne(r)
      PROVE  LinkersOK' /\ \A c \in Calls : RowAgrees(c)'
  <2>1. /\ UNCHANGED <<tables, work, worker>> /\ boot.pc = "scan" /\ r \in boot.todo
        /\ boot'.pc \in {"scan", "fail_save"}
        /\ \A q \in Recordings \ {r} : fin'[q] = fin[q] /\ (q \in boot.todo => q \in boot'.todo)
        /\ row[r] # NoRow => r \in boot'.todo \/ fin'[r] = "encode"
        /\ fin'[r] \in {fin[r], "encode"}
    <3>1. boot \in Starter /\ fin \in [Recordings -> FinPCs]
      BY DEF IInv, TypeOK
    <3>2. CASE boot' = [boot EXCEPT !.todo = @ \ {r}] /\ UNCHANGED fin /\ row[r] = NoRow
      BY <1>3, <3>1, <3>2 DEF RecoverOne, Starter
    <3>3. CASE boot' = [boot EXCEPT !.pc = "fail_save", !.rec = r] /\ UNCHANGED fin
      BY <1>3, <3>1, <3>3 DEF RecoverOne, Starter
    <3>4. CASE boot' = [boot EXCEPT !.todo = @ \ {r}] /\ Go(r, "encode")
      BY <1>3, <3>1, <3>4 DEF RecoverOne, Starter, Go
    <3> QED BY <1>3, <3>2, <3>3, <3>4 DEF RecoverOne
  <2>2. work[r] # "none" /\ fin[r] = "none"
    BY <2>1 DEF IInv, BootOK
  <2>3. \A q \in Recordings : row[q] # NoRow /\ LinkPending(q) => LinkPending(q)'
    BY <2>1, <2>2 DEF LinkPending
  <2>4. \A q \in Recordings : fin'[q] # "none" => work'[q] # "none"
    BY <2>1, <2>2 DEF AgreeInv, LinkersOK
  <2>5. \A q \in Recordings : fin'[q] \in {"link", "fail_link"} => fin'[q] = fin[q]
    BY <2>1
  <2> QED BY <2>1, <2>3, <2>4, <2>5, CalmMove
<1>4. CASE RecoverFail \/ RecoverFailLink
  <2>1. PICK r \in Recordings :
            /\ r = boot.rec /\ r \in boot.todo /\ work[r] # "none" /\ fin[r] = "none"
            /\ row[r] # NoRow /\ row[r].call \in Calls
            /\ \A w \in Workers : worker[w].pc \in {"new", "done"}
    BY <1>4 DEF RecoverFail, RecoverFailLink, IInv, BootOK, TypeOK, Starter, RecordingRow
  <2>2. CASE RecoverFail
    <3>1. /\ row'[r] # NoRow /\ row'[r].call = row[r].call /\ row'[r].state = "failed"
          /\ \A q \in Recordings \ {r} : row'[q] = row[q]
      BY <2>1, <2>2, SaveEffect DEF RecoverFail, IInv
    <3>2. /\ UNCHANGED <<call, work, worker, fin>>
          /\ boot'.pc = "fail_link" /\ boot'.todo = boot.todo /\ boot'.rec = r /\ boot.pc = "fail_save"
      BY <2>1, <2>2 DEF RecoverFail, IInv, TypeOK, Starter
    <3>3. LinkersOK'
      BY <2>1, <3>1, <3>2 DEF AgreeInv, LinkersOK
    <3>4. LinkPending(r)' /\ \A q \in Recordings \ {r} : LinkPending(q) => LinkPending(q)'
      BY <2>1, <3>2 DEF LinkPending
    <3> QED BY <2>1, <3>1, <3>2, <3>3, <3>4, SaveMove
  <2>3. CASE RecoverFailLink
    <3>1. /\ Link(r, row[r].call, row[r].state) /\ UNCHANGED <<row, work, worker, fin>>
          /\ boot'.pc = "scan" /\ boot'.todo = boot.todo \ {r} /\ boot.pc = "fail_link"
      BY <1>0, <2>1, <2>3 DEF RecoverFailLink, AgreeInv, LinkersOK
    <3>2. LinkersOK'
      BY <3>1 DEF AgreeInv, LinkersOK
    <3>3. \A q \in Recordings \ {r} : LinkPending(q) => LinkPending(q)'
      BY <3>1 DEF LinkPending
    <3> QED BY <2>1, <3>1, <3>2, <3>3, LinkMove
  <2> QED BY <1>4, <2>2, <2>3
<1>5. CASE Serve
  <2>1. UNCHANGED <<tables, work, worker, fin>> /\ boot.pc = "scan" /\ boot'.pc = "up" /\ boot'.todo = boot.todo
    BY <1>5 DEF Serve, IInv, TypeOK, Starter
  <2>2. \A r \in Recordings : LinkPending(r) => LinkPending(r)'
    BY <2>1 DEF LinkPending
  <2>3. \A r \in Recordings : fin'[r] # "none" => work'[r] # "none"
    BY <2>1 DEF AgreeInv, LinkersOK
  <2> QED BY <2>1, <2>2, <2>3, CalmMove
<1> QED BY <1>1, <1>2, <1>3, <1>4, <1>5 DEF Recover

\* No step makes up for a failure or a deletion.
LEMMA DisturbedStays ==
    ASSUME IInv, [Next]_recordingVars, Undisturbed'
    PROVE  Undisturbed
<1>1. CASE UNCHANGED <<asked, faults>>
  BY <1>1 DEF Undisturbed
<1>2. CASE \E point : Fault(point)
  BY <1>2 DEF Undisturbed, Fault, IInv, TypeOK
<1>3. CASE \E w \in Workers : Delete(w)
  BY <1>3, NobodyDeletes
<1>4. CASE \E w \in Workers : Start(w)
  BY <1>1, <1>2, <1>4
     DEF Start, StartRequest, StartSession, StartFiles, SaveStarting, LinkStarting, SaveRecording,
         LinkRecording, StartRegister, StartSave, StartLink
<1>5. CASE \E w \in Workers : Stop(w)
  BY <1>1, <1>2, <1>5 DEF Stop, StopRequest, EndCall, StopTake, StopSave, StopLink
<1>6. CASE \E r \in Recordings : Finalize(r)
  <2>1. PICK r \in Recordings : Finalize(r)
    BY <1>6
  <2>2. UNCHANGED <<asked, faults>> \/ Fault("encode") \/ Fault("publish") \/ Fault("link")
    BY <2>1 DEF Finalize, FinEncode, FinPublish, FinSave, FinLink, FinClean, FinFail, FinFailLink
  <2> QED BY <1>1, <1>2, <2>2
<1>7. CASE Crash \/ Restart \/ Recover
  <2>1. UNCHANGED <<asked, faults>> \/ Fault("link")
    <3>1. ASSUME NEW r \in Recordings, RecoverOne(r) PROVE UNCHANGED <<asked, faults>>
      BY <3>1 DEF RecoverOne
    <3>2. RecoverFail \/ Serve \/ Crash \/ Restart => UNCHANGED <<asked, faults>>
      BY DEF RecoverFail, Serve, Crash, Restart
    <3>3. RecoverFailLink => UNCHANGED <<asked, faults>> \/ Fault("link")
      BY DEF RecoverFailLink
    <3> QED BY <1>7, <3>1, <3>2, <3>3 DEF Recover
  <2> QED BY <1>1, <1>2, <2>1
<1>8. CASE (\E c \in Calls : Connect(c)) \/ UNCHANGED recordingVars
  BY <1>1, <1>8 DEF Connect, recordingVars
<1> QED BY <1>3, <1>4, <1>5, <1>6, <1>7, <1>8 DEF Next, Work

\* The agreement, or the update that will restore it, is preserved by every step.
LEMMA AgreeKept ==
    ASSUME IInv, AgreeInv, [Next]_recordingVars
    PROVE  AgreeInv'
<1>0. SUFFICES ASSUME Undisturbed', Undisturbed PROVE LinkersOK' /\ \A c \in Calls : RowAgrees(c)'
  BY DisturbedStays DEF AgreeInv
<1>1. ASSUME NEW d \in Calls, Connect(d) PROVE LinkersOK' /\ \A c \in Calls : RowAgrees(c)'
  <2>1. UNCHANGED <<row, files, worker, fin, boot>>
    BY <1>1 DEF Connect
  <2>2. \A c \in Calls : call'[c].id = call[c].id /\ call'[c].recState = call[c].recState
    BY <1>1 DEF Connect, SaveCall, IInv, TypeOK
  <2>3. \A r \in Recordings : LinkPending(r) => LinkPending(r)'
    BY <2>1 DEF LinkPending
  <2>4. \A r \in Recordings : fin'[r] # "none" => work'[r] # "none"
    BY <1>0, <2>1 DEF AgreeInv, LinkersOK
  <2> QED BY <1>0, <2>1, <2>2, <2>3, <2>4, CalmMove
<1>2. ASSUME NEW w \in Workers, Work(w) PROVE LinkersOK' /\ \A c \in Calls : RowAgrees(c)'
  BY <1>0, <1>2, NobodyDeletes, BeforeSaving, HolderSaves, HolderLinks DEF Work, Start, Stop
<1>3. CASE UNCHANGED recordingVars
  BY <1>0, <1>3 DEF AgreeInv, LinkersOK, RowAgrees, LinkPending, recordingVars
<1> QED BY <1>0, <1>1, <1>2, <1>3, FinAgrees, RestartAgrees DEF Next

\* When all is quiet the two tables agree, whatever crashes came between the statements
\* that write them (UpdateCallRecording, finalize, Recover), if no update failed and nothing
\* was deleted.
THEOREM TablesAgree == Spec => []CallRowAgrees
<1>1. ASSUME Init PROVE AgreeInv
  BY <1>1 DEF Init, AgreeInv, LinkersOK, RowAgrees
<1>2. ASSUME IInv, AgreeInv PROVE CallRowAgrees
  <2>1. SUFFICES ASSUME Quiet, Undisturbed, NEW c \in Calls, call[c].id # 0
                 PROVE  call[c].recState = row[call[c].id].state
    BY DEF CallRowAgrees, Undisturbed
  <2>2. call[c].id \in Recordings /\ RowAgrees(c)
    BY <1>2, <2>1 DEF IInv, TypeOK, CallRow, AgreeInv
  <2>3. ~ LinkPending(call[c].id)
    BY <1>2, <2>1, <2>2 DEF LinkPending, Quiet, IInv, BootOK
  <2> QED BY <2>1, <2>2, <2>3 DEF RowAgrees
<1>3. IInv /\ AgreeInv /\ [Next]_recordingVars => AgreeInv'
  BY AgreeKept
<1>4. IInv /\ AgreeInv => CallRowAgrees
  BY <1>2
<1> QED BY <1>1, <1>3, <1>4, Invariance, PTL DEF Spec
==============================================================================
