------------------------------ MODULE Recording ------------------------------
(***************************************************************************)
(* Call recordings: recording/manager.go, the requests and the end of a    *)
(* call that drive it (api/server.go), its tables (db/db.go), and the      *)
(* restart of the gateway.  A request, the end of a call and each          *)
(* finalization run in a goroutine of their own; a step is one critical    *)
(* section, one statement of the database or one change of the files.      *)
(*                                                                         *)
(* A recording is numbered in the order of created_at.  Of its files the   *)
(* model keeps the two PCM parts (with meta.json) in the work directory    *)
(* and the audio file, which stands for the waveform as well.              *)
(***************************************************************************)
EXTENDS Naturals, FiniteSets

CONSTANTS
    Calls,
    Workers,        \* goroutines that serve a request or end a call; each does one job
    Jobs,           \* Jobs[w]: the jobs that w may do: "start", "stop", "delete", "end"
    MaxRecordings,  \* bound: recordings in a behaviour
    FailingPoints,  \* steps whose failure is explored
    MaxFaults,      \* bound: failures in a behaviour
    MaxCrashes      \* bound: crashes in a behaviour

ASSUME RecordingConstants ==
    /\ Jobs \in [Workers -> SUBSET {"start", "stop", "delete", "end"}]
    /\ FailingPoints \subseteq {"start", "stop", "delete", "link", "encode", "publish"}
    /\ {MaxRecordings, MaxFaults, MaxCrashes} \subseteq Nat

VARIABLES
    call,       \* table calls: state, recording_id (0 is NULL) and recording_state
    row,        \* table recordings: call_id and state of each recording
    work,       \* the work directory of each recording
    audio,      \* the recordings whose audio file exists
    live,       \* calls that this process has on the line
    sessions,   \* Manager.sessions: the recording of a call, or 0
    worker,     \* the goroutines: pc, the call and the recording they are about
    fin,        \* the finalize goroutine of each recording
    boot,       \* the start of the process: pc, the work directories to do, the current one
    created,    \* number of recordings created so far
    asked,      \* history: the recordings somebody asked to delete
    before,     \* history: number of recordings created before the last start
    faults, crashes

tables == <<call, row>>
files == <<work, audio>>
history == <<asked, before>>
bounds == <<faults, crashes>>
recordingVars == <<tables, files, live, sessions, worker, fin, boot, created, history, bounds>>

Recordings == 1 .. MaxRecordings

-----------------------------------------------------------------------------
(* Helpers.                                                                *)

NoRow == [call |-> "none", state |-> "none"]
Open == {"starting", "recording", "finalizing"}
Settled == {"ready", "failed", "deleted"}

CallRow == [state : {"none", "active", "ended"}, id : 0 .. MaxRecordings,
            recState : Open \union Settled \union {"none"}]
RecordingRow == [call : Calls, state : Open \union Settled]
WorkerPCs == {"new", "done", "start_session", "start_files", "save_starting", "link_starting",
              "save_recording", "link_recording", "start_register", "stop_take", "stop_save",
              "stop_link", "delete_save", "delete_link", "delete_files"}
Goroutine == [pc : WorkerPCs, call : Calls \union {"none"}, rec : 0 .. MaxRecordings]
FinPCs == {"none", "encode", "publish", "save", "link", "clean", "fail_save", "fail_link"}
Starter == [pc : {"down", "scan", "fail_save", "fail_link", "up"},
            todo : SUBSET Recordings, rec : 0 .. MaxRecordings]

\* SaveRecording overwrites the row, whatever its state is by now.
Save(r, c, state) == row' = [row EXCEPT ![r] = [call |-> c, state |-> state]]

\* UpdateCallRecording, and SaveCall, which keeps the recording's columns.
Link(r, c, state) ==
    call' = [call EXCEPT ![c] = [state |-> call[c].state, id |-> r, recState |-> state]]
SaveCall(c, state) ==
    call' = [call EXCEPT ![c] = [state |-> state, id |-> call[c].id,
                                 recState |-> call[c].recState]]

Fault(point) == /\ point \in FailingPoints /\ faults < MaxFaults
                /\ faults' = faults + 1 /\ UNCHANGED crashes

\* GetRecordingByCall: the newest recording of the call that is not deleted, or 0.
Newest(c) ==
    LET candidates == {r \in Recordings : row[r].call = c /\ row[r].state # "deleted"}
    IN IF candidates = {} THEN 0 ELSE CHOOSE r \in candidates : \A s \in candidates : s <= r

Up == boot.pc = "up"
At(w, where) == Up /\ worker[w].pc = where
Goes(w, where, c, r) == worker' = [worker EXCEPT ![w] = [pc |-> where, call |-> c, rec |-> r]]
Step(w, where) == Goes(w, where, worker[w].call, worker[w].rec)
Over(w) == Goes(w, "done", worker[w].call, 0)

-----------------------------------------------------------------------------
(* The call.  It comes up (CallController, persistCall) and ends.          *)

Connect(c) ==
    /\ Up /\ live = {} /\ call[c].state = "none"
    /\ live' = {c}
    /\ SaveCall(c, "active")
    /\ UNCHANGED <<row, files, sessions, worker, fin, boot, created, history, bounds>>

\* persistCall of an ended call: SaveCall, then Stop.
EndCall(w, c) ==
    /\ At(w, "new") /\ "end" \in Jobs[w] /\ c \in live
    /\ live' = live \ {c}
    /\ SaveCall(c, "ended")
    /\ Goes(w, "stop_take", c, 0)
    /\ UNCHANGED <<row, files, sessions, fin, boot, created, history, bounds>>

-----------------------------------------------------------------------------
(* Manager.Start, with the check of callRecordingAction before it.         *)

\* The refusals by settings and free space leave no trace and are left out.
StartRequest(w, c) ==
    /\ At(w, "new") /\ "start" \in Jobs[w] /\ call[c].state = "active"
    /\ Goes(w, "start_session", c, 0)
    /\ UNCHANGED <<tables, files, live, sessions, fin, boot, created, history, bounds>>

StartSession(w) ==
    /\ At(w, "start_session")
    /\ IF sessions[worker[w].call] = 0 THEN Step(w, "start_files") ELSE Over(w)
    /\ UNCHANGED <<tables, files, live, sessions, fin, boot, created, history, bounds>>

\* No recording of the call is under way; the new one gets its number and its parts.
StartFiles(w) ==
    /\ At(w, "start_files")
    /\ LET newest == Newest(worker[w].call)
       IN \/ /\ newest # 0 /\ row[newest].state \in Open
             /\ Over(w) /\ UNCHANGED <<work, created>>
          \/ /\ newest # 0 => row[newest].state \notin Open
             /\ created < MaxRecordings /\ created' = created + 1
             /\ work' = [work EXCEPT ![created'] = "parts"]
             /\ Goes(w, "save_starting", worker[w].call, created')
    /\ UNCHANGED <<tables, audio, live, sessions, fin, boot, history, bounds>>

\* A failure returns; row and work directory stay as they are.
StartSave(w, state, next) ==
    /\ \/ /\ Save(worker[w].rec, worker[w].call, state)
          /\ Step(w, next) /\ UNCHANGED bounds
       \/ Fault("start") /\ Over(w) /\ UNCHANGED row
    /\ UNCHANGED <<call, files, live, sessions, fin, boot, created, history>>

StartLink(w, state, next) ==
    /\ \/ /\ Link(worker[w].rec, worker[w].call, state)
          /\ Step(w, next) /\ UNCHANGED bounds
       \/ Fault("start") /\ Over(w) /\ UNCHANGED call
    /\ UNCHANGED <<row, files, live, sessions, fin, boot, created, history>>

SaveStarting(w) == At(w, "save_starting") /\ StartSave(w, "starting", "link_starting")
LinkStarting(w) == At(w, "link_starting") /\ StartLink(w, "starting", "save_recording")
SaveRecording(w) == At(w, "save_recording") /\ StartSave(w, "recording", "link_recording")
LinkRecording(w) == At(w, "link_recording") /\ StartLink(w, "recording", "start_register")

\* A session that another Start registered meanwhile is replaced.
StartRegister(w) ==
    /\ At(w, "start_register")
    /\ sessions' = [sessions EXCEPT ![worker[w].call] = worker[w].rec]
    /\ Over(w)
    /\ UNCHANGED <<tables, files, live, fin, boot, created, history, bounds>>

Start(w) ==
    \/ \E c \in Calls : StartRequest(w, c)
    \/ StartSession(w) \/ StartFiles(w) \/ SaveStarting(w) \/ LinkStarting(w)
    \/ SaveRecording(w) \/ LinkRecording(w) \/ StartRegister(w)

-----------------------------------------------------------------------------
(* Manager.Stop, for a request or for the end of the call.                 *)

StopRequest(w, c) ==
    /\ At(w, "new") /\ "stop" \in Jobs[w] /\ call[c].state # "none"
    /\ Goes(w, "stop_take", c, 0)
    /\ UNCHANGED <<tables, files, live, sessions, fin, boot, created, history, bounds>>

StopTake(w) ==
    /\ At(w, "stop_take")
    /\ sessions' = [sessions EXCEPT ![worker[w].call] = 0]
    /\ IF sessions[worker[w].call] = 0
       THEN Over(w)
       ELSE Goes(w, "stop_save", worker[w].call, sessions[worker[w].call])
    /\ UNCHANGED <<tables, files, live, fin, boot, created, history, bounds>>

\* If the row cannot be saved, nobody finalizes the parts before the next start.
StopSave(w) ==
    /\ At(w, "stop_save")
    /\ \/ /\ Save(worker[w].rec, worker[w].call, "finalizing")
          /\ Step(w, "stop_link") /\ UNCHANGED bounds
       \/ Fault("stop") /\ Over(w) /\ UNCHANGED row
    /\ UNCHANGED <<call, files, live, sessions, fin, boot, created, history>>

\* Mutant of StopLink: an error of UpdateCallRecording is not ignored.
StopLinkReturns(w) ==
    /\ At(w, "stop_link")
    /\ \/ /\ Link(worker[w].rec, worker[w].call, "finalizing") /\ UNCHANGED bounds
          /\ fin' = [fin EXCEPT ![worker[w].rec] = "encode"]
       \/ Fault("link") /\ UNCHANGED <<call, fin>>
    /\ Over(w)
    /\ UNCHANGED <<row, files, live, sessions, boot, created, history>>

\* The result of UpdateCallRecording is ignored.
StopLink(w) ==
    /\ At(w, "stop_link")
    /\ \/ Link(worker[w].rec, worker[w].call, "finalizing") /\ UNCHANGED bounds
       \/ Fault("link") /\ UNCHANGED call
    /\ fin' = [fin EXCEPT ![worker[w].rec] = "encode"]
    /\ Over(w)
    /\ UNCHANGED <<row, files, live, sessions, boot, created, history>>

Stop(w) == \/ \E c \in Calls : StopRequest(w, c) \/ EndCall(w, c)
           \/ StopTake(w) \/ StopSave(w) \/ StopLink(w)

-----------------------------------------------------------------------------
(* Manager.finalize.  The encoder and the waveform read the parts and      *)
(* write temporary files; the rename publishes the audio.                  *)

Go(r, where) == fin' = [fin EXCEPT ![r] = where]

\* Needs both parts.
FinEncode(r) ==
    /\ fin[r] = "encode"
    /\ \/ work[r] = "parts" /\ Go(r, "publish") /\ UNCHANGED bounds
       \/ work[r] # "parts" /\ Go(r, "fail_save") /\ UNCHANGED bounds
       \/ Fault("encode") /\ Go(r, "fail_save")
    /\ UNCHANGED <<tables, files, live, sessions, worker, boot, created, history>>

\* Mutant of FinPublish: the temporary file is not renamed.
FinPublishNothing(r) ==
    /\ fin[r] = "publish"
    /\ Go(r, "save")
    /\ UNCHANGED <<tables, files, live, sessions, worker, boot, created, history, bounds>>

\* Size and hash may fail after the rename.
FinPublish(r) ==
    /\ fin[r] = "publish"
    /\ \/ audio' = audio \union {r} /\ Go(r, "save") /\ UNCHANGED bounds
       \/ /\ Fault("publish") /\ Go(r, "fail_save")
          /\ audio' \in {audio, audio \union {r}}
    /\ UNCHANGED <<tables, work, live, sessions, worker, boot, created, history>>

FinSave(r) ==
    /\ fin[r] = "save"
    /\ \/ Save(r, row[r].call, "ready") /\ Go(r, "link") /\ UNCHANGED bounds
       \/ Fault("publish") /\ Go(r, "fail_save") /\ UNCHANGED row
    /\ UNCHANGED <<call, files, live, sessions, worker, boot, created, history>>

\* Mutant of FinLink: the call's row is left at "finalizing".
FinLinkNothing(r) ==
    /\ fin[r] = "link"
    /\ Go(r, "clean")
    /\ UNCHANGED <<tables, files, live, sessions, worker, boot, created, history, bounds>>

FinLink(r) ==
    /\ fin[r] = "link"
    /\ \/ Link(r, row[r].call, "ready") /\ UNCHANGED bounds
       \/ Fault("link") /\ UNCHANGED call
    /\ Go(r, "clean")
    /\ UNCHANGED <<row, files, live, sessions, worker, boot, created, history>>

\* One part, the rest, the directory; Delete may have removed an empty directory.
FinClean(r) ==
    /\ fin[r] = "clean"
    /\ work' = [work EXCEPT ![r] = CASE work[r] = "parts"  -> "broken"
                                     [] work[r] = "broken" -> "empty"
                                     [] OTHER              -> "none"]
    /\ Go(r, IF work'[r] = "none" THEN "none" ELSE "clean")
    /\ UNCHANGED <<tables, audio, live, sessions, worker, boot, created, history, bounds>>

\* Mutant of FinFail: a failed recording loses its parts.
FinFailCleans(r) ==
    /\ fin[r] = "fail_save"
    /\ Save(r, row[r].call, "failed")
    /\ work' = [work EXCEPT ![r] = "none"]
    /\ Go(r, "fail_link")
    /\ UNCHANGED <<call, audio, live, sessions, worker, boot, created, history, bounds>>

\* Manager.fail: the parts stay.
FinFail(r) ==
    /\ fin[r] = "fail_save"
    /\ Save(r, row[r].call, "failed")
    /\ Go(r, "fail_link")
    /\ UNCHANGED <<call, files, live, sessions, worker, boot, created, history, bounds>>

FinFailLink(r) ==
    /\ fin[r] = "fail_link"
    /\ \/ Link(r, row[r].call, "failed") /\ UNCHANGED bounds
       \/ Fault("link") /\ UNCHANGED call
    /\ Go(r, "none")
    /\ UNCHANGED <<row, files, live, sessions, worker, boot, created, history>>

Finalize(r) ==
    FinEncode(r) \/ FinPublish(r) \/ FinSave(r) \/ FinLink(r) \/ FinClean(r)
        \/ FinFail(r) \/ FinFailLink(r)

-----------------------------------------------------------------------------
(* Manager.Delete, for a request or for deleteExpired.                     *)

DeleteRequest(w, r) ==
    /\ At(w, "new") /\ "delete" \in Jobs[w] /\ row[r].state \notin {"none", "deleted"}
    /\ Goes(w, "delete_save", row[r].call, r)
    /\ asked' = asked \union {r}
    /\ UNCHANGED <<tables, files, live, sessions, fin, boot, created, before, bounds>>

DeleteSave(w) ==
    /\ At(w, "delete_save")
    /\ \/ /\ Save(worker[w].rec, worker[w].call, "deleted")
          /\ Step(w, "delete_link") /\ UNCHANGED bounds
       \/ Fault("delete") /\ Over(w) /\ UNCHANGED row
    /\ UNCHANGED <<call, files, live, sessions, fin, boot, created, history>>

DeleteLink(w) ==
    /\ At(w, "delete_link")
    /\ \/ Link(worker[w].rec, worker[w].call, "deleted") /\ UNCHANGED bounds
       \/ Fault("link") /\ UNCHANGED call
    /\ Step(w, "delete_files")
    /\ UNCHANGED <<row, files, live, sessions, fin, boot, created, history>>

\* os.Remove takes away the work directory only when it is empty.
DeleteFiles(w) ==
    /\ At(w, "delete_files")
    /\ LET r == worker[w].rec
       IN /\ audio' = audio \ {r}
          /\ work' = IF work[r] = "empty" THEN [work EXCEPT ![r] = "none"] ELSE work
    /\ Over(w)
    /\ UNCHANGED <<tables, live, sessions, fin, boot, created, history, bounds>>

Delete(w) == \/ \E r \in Recordings : DeleteRequest(w, r)
             \/ DeleteSave(w) \/ DeleteLink(w) \/ DeleteFiles(w)

-----------------------------------------------------------------------------
(* The process ends and starts again; Recover runs before requests do.     *)

Crash ==
    /\ boot.pc # "down" /\ crashes < MaxCrashes /\ crashes' = crashes + 1
    /\ boot' = [pc |-> "down", todo |-> {}, rec |-> 0]
    /\ live' = {}
    /\ sessions' = [c \in Calls |-> 0]
    /\ fin' = [r \in Recordings |-> "none"]
    /\ worker' = [w \in Workers |-> IF worker[w].pc = "new" THEN worker[w]
                                    ELSE [pc |-> "done", call |-> worker[w].call, rec |-> 0]]
    /\ UNCHANGED <<tables, files, created, history, faults>>

\* Mutant of Restart: Recover goes through the table.
RestartScansTable ==
    /\ boot.pc = "down"
    /\ boot' = [pc |-> "scan", todo |-> {r \in Recordings : row[r] # NoRow}, rec |-> 0]
    /\ before' = created
    /\ UNCHANGED <<tables, files, live, sessions, worker, fin, created, asked, bounds>>

\* Recover reads the work directories.
Restart ==
    /\ boot.pc = "down"
    /\ boot' = [pc |-> "scan", todo |-> {r \in Recordings : work[r] # "none"}, rec |-> 0]
    /\ before' = created
    /\ UNCHANGED <<tables, files, live, sessions, worker, fin, created, asked, bounds>>

\* Mutant of RecoverOne: a recording of a call without an end is skipped.
RecoverOneSkips(r) ==
    /\ boot.pc = "scan" /\ r \in boot.todo
    /\ \/ /\ ~ (row[r] # NoRow /\ call[row[r].call].state = "ended")
          /\ boot' = [boot EXCEPT !.todo = @ \ {r}] /\ UNCHANGED fin
       \/ /\ row[r] # NoRow /\ call[row[r].call].state = "ended"
          /\ boot' = [boot EXCEPT !.todo = @ \ {r}] /\ Go(r, "encode")
    /\ UNCHANGED <<tables, files, live, sessions, worker, created, history, bounds>>

\* A directory without a row stays; the recording of a call that has not ended fails,
\* that of an ended call is finalized, whatever the state of its row.
RecoverOne(r) ==
    /\ boot.pc = "scan" /\ r \in boot.todo
    /\ \/ /\ row[r] = NoRow
          /\ boot' = [boot EXCEPT !.todo = @ \ {r}] /\ UNCHANGED fin
       \/ /\ row[r] # NoRow /\ call[row[r].call].state # "ended"
          /\ boot' = [boot EXCEPT !.pc = "fail_save", !.rec = r] /\ UNCHANGED fin
       \/ /\ row[r] # NoRow /\ call[row[r].call].state = "ended"
          /\ boot' = [boot EXCEPT !.todo = @ \ {r}] /\ Go(r, "encode")
    /\ UNCHANGED <<tables, files, live, sessions, worker, created, history, bounds>>

RecoverFail ==
    /\ boot.pc = "fail_save"
    /\ Save(boot.rec, row[boot.rec].call, "failed")
    /\ boot' = [boot EXCEPT !.pc = "fail_link"]
    /\ UNCHANGED <<call, files, live, sessions, worker, fin, created, history, bounds>>

RecoverFailLink ==
    /\ boot.pc = "fail_link"
    /\ \/ Link(boot.rec, row[boot.rec].call, "failed") /\ UNCHANGED bounds
       \/ Fault("link") /\ UNCHANGED call
    /\ boot' = [pc |-> "scan", todo |-> boot.todo \ {boot.rec}, rec |-> 0]
    /\ UNCHANGED <<row, files, live, sessions, worker, fin, created, history>>

Serve ==
    /\ boot.pc = "scan" /\ boot.todo = {}
    /\ boot' = [boot EXCEPT !.pc = "up"]
    /\ UNCHANGED <<tables, files, live, sessions, worker, fin, created, history, bounds>>

Recover == (\E r \in Recordings : RecoverOne(r)) \/ RecoverFail \/ RecoverFailLink \/ Serve

-----------------------------------------------------------------------------
Init ==
    /\ call = [c \in Calls |-> [state |-> "none", id |-> 0, recState |-> "none"]]
    /\ row = [r \in Recordings |-> NoRow]
    /\ work = [r \in Recordings |-> "none"] /\ audio = {}
    /\ live = {} /\ sessions = [c \in Calls |-> 0]
    /\ worker = [w \in Workers |-> [pc |-> "new", call |-> "none", rec |-> 0]]
    /\ fin = [r \in Recordings |-> "none"]
    /\ boot = [pc |-> "up", todo |-> {}, rec |-> 0]
    /\ created = 0 /\ asked = {} /\ before = 0 /\ faults = 0 /\ crashes = 0

Work(w) == Start(w) \/ Stop(w) \/ Delete(w)

Next ==
    \/ \E c \in Calls : Connect(c)
    \/ \E w \in Workers : Work(w)
    \/ \E r \in Recordings : Finalize(r)
    \/ Crash \/ Restart \/ Recover

Spec == Init /\ [][Next]_recordingVars

\* A goroutine that has begun goes on, and a process that ended is started again.
Fairness ==
    /\ \A w \in Workers : WF_recordingVars(worker[w].pc # "new" /\ Work(w))
    /\ \A r \in Recordings : WF_recordingVars(Finalize(r))
    /\ WF_recordingVars(Restart) /\ WF_recordingVars(Recover)

FairSpec == Spec /\ Fairness

-----------------------------------------------------------------------------
(* Properties.                                                             *)

\* The tables, files and goroutines have their types, and a row belongs to a call.
TypeOK ==
    /\ call \in [Calls -> CallRow]
    /\ row \in [Recordings -> RecordingRow \union {NoRow}]
    /\ work \in [Recordings -> {"none", "parts", "broken", "empty"}]
    /\ audio \subseteq Recordings /\ asked \subseteq Recordings
    /\ live \subseteq Calls /\ sessions \in [Calls -> 0 .. MaxRecordings]
    /\ worker \in [Workers -> Goroutine]
    /\ fin \in [Recordings -> FinPCs]
    /\ boot \in Starter
    /\ created \in 0 .. MaxRecordings /\ before \in 0 .. MaxRecordings
    /\ faults \in 0 .. MaxFaults /\ crashes \in 0 .. MaxCrashes

\* A recording that nobody asked to delete keeps its sound, as parts or as audio, through
\* failures of the encoder and of the database, crashes and repeated finalization
\* (ADR-005: a recording must not be lost).
SoundIsKept ==
    \A r \in Recordings \ asked :
        row[r] # NoRow => work[r] = "parts" \/ r \in audio

\* A recording that is ready can be played (AudioPath), unless its deletion was asked for.
ReadyIsPlayable == \A r \in Recordings \ asked : row[r].state = "ready" => r \in audio

\* Sound is written only to a recording in state "recording" that no finalization reads;
\* a deletion does not end the session (WriteCellularFrame, Stop, Delete).
SessionsRecord ==
    \A c \in Calls : sessions[c] # 0 =>
        /\ row[sessions[c]] \in [call : {c}, state : {"recording", "deleted"}]
        /\ fin[sessions[c]] = "none" /\ work[sessions[c]] = "parts"

\* Once its work directory is gone and no finalization is under way, a recording that is
\* ready or deleted can only be deleted: no restart brings it back (finalize, Recover).
CleanRowsAreFinal ==
    [][\A r \in Recordings :
        row[r].state \in {"ready", "deleted"} /\ work[r] = "none" /\ fin[r] = "none" =>
            row'[r].state \in {row[r].state, "deleted"}]_recordingVars

Quiet ==
    /\ Up /\ \A w \in Workers : worker[w].pc \in {"new", "done"}
    /\ \A r \in Recordings : fin[r] = "none"

\* After a restart no recording of the time before it stays under way: whatever step the
\* crash hit, Recover and the finalizations it starts settle the row (Recover, fail).
RestartSettles == Quiet => \A r \in 1 .. before : row[r].state \notin Open

\* When all is quiet, a call's row tells the state of the recording it names, also after
\* a crash between the two tables (UpdateCallRecording), if no update of the row failed
\* and nothing was deleted.
CallRowAgrees ==
    Quiet /\ faults = 0 /\ asked = {} =>
        \A c \in Calls : call[c].id # 0 => call[c].recState = row[call[c].id].state

\* A recording that is stopped gets ready or failed, through crashes (finalize, Recover).
FinalizingEnds ==
    \A r \in Recordings : row[r].state = "finalizing" ~> row[r].state \in Settled

\* Not kept by the code (README, Observations).
\* docs/deployment/nas.md: after the deletion audio and waveform cannot be accessed any
\* more (AudioPath demands "ready").
DeletedStaysDeleted ==
    [][\A r \in Recordings : row[r].state = "deleted" => row'[r].state = "deleted"]_recordingVars
=============================================================================
