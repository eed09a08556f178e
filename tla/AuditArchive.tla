---------------------------- MODULE AuditArchive ----------------------------
(***************************************************************************)
(* The writer behind the audit worker: internal/audit/file.go and          *)
(* archive.go, one per process, and the directory that the processes of a  *)
(* rolling restart share.                                                  *)
(*                                                                         *)
(* In archive mode a process holds the lock of the directory, appends to a *)
(* file named .open and publishes it as .log; what a crash leaves behind   *)
(* is published by the next holder of the lock. Only the worker uses a     *)
(* writer, so its operations do not overlap; a process may end between any *)
(* two of their steps.                                                     *)
(***************************************************************************)
EXTENDS Naturals, FiniteSets, Sequences, SequencesExt

CONSTANTS
  Writers,          (* the processes, one writer each *)
  NoWriter,
  MaxFiles,         (* bound: how many archive files are made *)
  MaxEvents,        (* bound: how many events are written *)
  MaxLines,         (* maxBytes, in events *)
  MaxTroubles       (* bound: how many system calls fail *)

ASSUME ArchiveAssumption ==
  /\ NoWriter \notin Writers
  /\ {MaxFiles, MaxEvents, MaxTroubles} \subseteq Nat /\ MaxLines \in Nat \ {0}

VARIABLES
  files,            (* the directory: per file its extension and lines *)
  made, events,     (* how many files were made, how many events came *)
  dirLock,          (* who holds .writer.lock *)
  writer,           (* per process: where its worker is, and its archiveWriter *)
  recovered,        (* per process: what Glob has found and is not published yet *)
  archiveTroubles   (* history: how many system calls have failed *)

archiveVars ==
  <<files, made, events, dirLock, writer, recovered, archiveTroubles>>

Files == 1..MaxFiles
Absent == [ext |-> "none", lines |-> <<>>]

(* up: the process runs; at: the step of its worker; enabled: archiveEnabled;
   ready: initialized; path: the file, 0 for ""; handle: file # nil;
   due: the interval has passed since openedAt; event: the one to write, 0 for
   a call of Maintain or Close. *)
FreshWriter ==
  [up |-> "down", at |-> "idle", enabled |-> FALSE, ready |-> FALSE,
   path |-> 0, handle |-> FALSE, due |-> FALSE, event |-> 0]

ArchiveInit ==
  /\ files = [f \in Files |-> Absent] /\ made = 0 /\ events = 0
  /\ dirLock = NoWriter
  /\ writer = [w \in Writers |-> FreshWriter]
  /\ recovered = [w \in Writers |-> {}]
  /\ archiveTroubles = 0

At(w, label) == writer[w].up \in {"up", "closing"} /\ writer[w].at = label

(* The worker's record changes; an operation that is over forgets its event. *)
Becomes(w, record) == writer' = [writer EXCEPT ![w] = record]
Goes(w, label) == Becomes(w, [writer[w] EXCEPT !.at = label])
Over(record) == [record EXCEPT !.at = "idle", !.event = 0]

(* A system call may fail; then the operation returns its error. *)
Trouble == archiveTroubles < MaxTroubles /\ archiveTroubles' = archiveTroubles + 1
Fine == UNCHANGED archiveTroubles

IsOpen(f) == files[f].ext = "open"
IsFull(f) == Len(files[f].lines) >= MaxLines

-----------------------------------------------------------------------------
(* What makes the worker call the writer. *)

Starts(w) ==
  /\ writer[w].up = "down"
  /\ \E enabled \in BOOLEAN :
       Becomes(w, [writer[w] EXCEPT !.up = "up", !.enabled = enabled])
  /\ UNCHANGED <<files, made, events, dirLock, recovered, archiveTroubles>>

(* configureWriter, before a write or a call of Maintain. *)
Switches(w) ==
  /\ At(w, "idle") /\ writer[w].up = "up"
  /\ Becomes(w, [writer[w] EXCEPT !.enabled = ~@])
  /\ UNCHANGED <<files, made, events, dirLock, recovered, archiveTroubles>>

(* Write: into the archive, or into audit.log once the archive is sealed. *)
WriteArrives(w) ==
  /\ At(w, "idle") /\ writer[w].up = "up" /\ events < MaxEvents
  /\ events' = events + 1
  /\ Becomes(w, [writer[w] EXCEPT
       !.event = events + 1,
       !.at = IF ~writer[w].enabled THEN "seal"
              ELSE IF writer[w].ready THEN "rotate" ELSE "lock"])
  /\ UNCHANGED <<files, made, dirLock, recovered, archiveTroubles>>

(* Maintain: initialize if the directory exists, then seal what is due. *)
Maintains(w) ==
  /\ At(w, "idle") /\ writer[w].up = "up"
  /\ \/ ~writer[w].ready /\ made > 0 /\ Goes(w, "lock")
     \/ /\ writer[w].ready \/ made = 0
        /\ writer[w].path # 0
        /\ ~writer[w].enabled \/ writer[w].due \/ IsFull(writer[w].path)
        /\ Goes(w, "seal")
  /\ UNCHANGED <<files, made, events, dirLock, recovered, archiveTroubles>>

Closes(w) ==
  /\ At(w, "idle") /\ writer[w].up = "up"
  /\ Becomes(w, [writer[w] EXCEPT !.up = "closing", !.at = "seal"])
  /\ UNCHANGED <<files, made, events, dirLock, recovered, archiveTroubles>>

-----------------------------------------------------------------------------
(* initialize. *)

(* Mutant: the directory is used although another process has its lock. *)
TakeDirLockAnyway(w) ==
  /\ At(w, "lock")
  /\ dirLock' = w /\ Goes(w, "glob")
  /\ UNCHANGED <<files, made, events, recovered, archiveTroubles>>

(* flock does not wait; a lock this writer holds already is kept. *)
TakeDirLock(w) ==
  /\ At(w, "lock")
  /\ IF dirLock \in {NoWriter, w}
     THEN dirLock' = w /\ Goes(w, "glob")
     ELSE Becomes(w, Over(writer[w])) /\ UNCHANGED dirLock
  /\ UNCHANGED <<files, made, events, recovered, archiveTroubles>>

FindLeftovers(w) ==
  /\ At(w, "glob")
  /\ recovered' = [recovered EXCEPT ![w] = {f \in Files : IsOpen(f)}]
  /\ Goes(w, "recover")
  /\ UNCHANGED <<files, made, events, dirLock, archiveTroubles>>

(* publishArchive: an empty file is removed; the target must not exist. *)
PublishedFile(f) ==
  IF files[f].lines = <<>> THEN Absent ELSE [files[f] EXCEPT !.ext = "log"]
Publishes(f) == files' = [files EXCEPT ![f] = PublishedFile(f)]

Recover(w) ==
  /\ At(w, "recover")
  /\ \/ \E f \in recovered[w] :
          /\ Publishes(f) /\ Fine
          /\ recovered' = [recovered EXCEPT ![w] = @ \ {f}]
          /\ UNCHANGED writer
     \/ /\ recovered[w] # {} /\ Trouble
        /\ recovered' = [recovered EXCEPT ![w] = {}]
        /\ Becomes(w, Over(writer[w])) /\ UNCHANGED files
     \/ /\ recovered[w] = {}
        /\ Becomes(w, [IF writer[w].event = 0 THEN Over(writer[w])
                       ELSE [writer[w] EXCEPT !.at = "rotate"] EXCEPT !.ready = TRUE])
        /\ UNCHANGED <<files, recovered, archiveTroubles>>
  /\ UNCHANGED <<made, events, dirLock>>

-----------------------------------------------------------------------------
(* archiveWriter.Write. *)

MustRotate(w) ==
  /\ writer[w].path # 0
  /\ ~writer[w].handle \/ IsFull(writer[w].path) \/ writer[w].due

Rotate(w) ==
  /\ At(w, "rotate")
  /\ Goes(w, IF MustRotate(w) THEN "seal" ELSE IF writer[w].path = 0 THEN "create" ELSE "write")
  /\ UNCHANGED <<files, made, events, dirLock, recovered, archiveTroubles>>

Create(w) ==
  /\ At(w, "create")
  /\ \/ /\ made < MaxFiles /\ Fine
        /\ made' = made + 1
        /\ files' = [files EXCEPT ![made + 1] = [ext |-> "open", lines |-> <<>>]]
        /\ Becomes(w, [writer[w] EXCEPT !.at = "write", !.path = made + 1,
                                        !.handle = TRUE, !.due = FALSE])
     \/ Trouble /\ Becomes(w, Over(writer[w])) /\ UNCHANGED <<files, made>>
  /\ UNCHANGED <<events, dirLock, recovered>>

(* A full file is sealed at once; what is wrong then is reported although the
   event is written. *)
WriteLine(w) ==
  /\ At(w, "write")
  /\ \/ LET f == writer[w].path
            lines == Append(files[f].lines, writer[w].event) IN
        /\ files' = [files EXCEPT ![f].lines = lines] /\ Fine
        /\ Becomes(w, IF Len(lines) < MaxLines THEN Over(writer[w])
                      ELSE [writer[w] EXCEPT !.at = "seal", !.event = 0])
     \/ Trouble /\ Becomes(w, Over(writer[w])) /\ UNCHANGED files
  /\ UNCHANGED <<made, events, dirLock, recovered>>

-----------------------------------------------------------------------------
(* seal. *)

(* What comes after it: the event that made it necessary, or nothing; Close
   goes on after an error. *)
AfterSeal(record) ==
  IF record.up = "closing" THEN [record EXCEPT !.at = "unlock"]
  ELSE IF record.event # 0 /\ record.enabled THEN [record EXCEPT !.at = "create"]
  ELSE Over(record)
AfterError(record) ==
  IF record.up = "closing" THEN [record EXCEPT !.at = "unlock"] ELSE Over(record)

NothingToSeal(w) ==
  /\ At(w, "seal") /\ writer[w].path = 0
  /\ Becomes(w, AfterSeal(writer[w]))
  /\ UNCHANGED <<files, made, events, dirLock, recovered, archiveTroubles>>

(* Mutant: the path is forgotten when the file cannot be synced. *)
CloseFileForgetting(w) ==
  /\ At(w, "seal") /\ writer[w].path # 0 /\ writer[w].handle
  /\ LET closed == [writer[w] EXCEPT !.handle = FALSE] IN
     \/ Fine /\ Becomes(w, closed)
     \/ Trouble /\ Becomes(w, AfterError([closed EXCEPT !.path = 0]))
  /\ UNCHANGED <<files, made, events, dirLock, recovered>>

(* Sync and Close: the file is closed even if one of them fails. *)
CloseFile(w) ==
  /\ At(w, "seal") /\ writer[w].path # 0 /\ writer[w].handle
  /\ LET closed == [writer[w] EXCEPT !.handle = FALSE] IN
     \/ Fine /\ Becomes(w, closed)
     \/ Trouble /\ Becomes(w, AfterError(closed))
  /\ UNCHANGED <<files, made, events, dirLock, recovered>>

PublishFile(w) ==
  /\ At(w, "seal") /\ writer[w].path # 0 /\ ~writer[w].handle
  /\ \/ /\ Publishes(writer[w].path) /\ Fine
        /\ Becomes(w, AfterSeal([writer[w] EXCEPT !.path = 0, !.due = FALSE]))
     \/ Trouble /\ Becomes(w, AfterError(writer[w])) /\ UNCHANGED files
  /\ UNCHANGED <<made, events, dirLock, recovered>>

(* The end of Close, which never runs twice. *)
Unlock(w) ==
  /\ At(w, "unlock")
  /\ dirLock' = IF dirLock = w THEN NoWriter ELSE dirLock
  /\ Becomes(w, [writer[w] EXCEPT !.up = "gone", !.at = "idle"])
  /\ UNCHANGED <<files, made, events, recovered, archiveTroubles>>

-----------------------------------------------------------------------------
(* The environment. *)

(* 24 hours after the file was opened. *)
IntervalPasses(w) ==
  /\ writer[w].up = "up" /\ writer[w].path # 0 /\ ~writer[w].due
  /\ Becomes(w, [writer[w] EXCEPT !.due = TRUE])
  /\ UNCHANGED <<files, made, events, dirLock, recovered, archiveTroubles>>

(* The process ends where it is; the system releases its lock. *)
Dies(w) ==
  /\ writer[w].up \in {"up", "closing"}
  /\ Becomes(w, [FreshWriter EXCEPT !.up = "gone"])
  /\ dirLock' = IF dirLock = w THEN NoWriter ELSE dirLock
  /\ recovered' = [recovered EXCEPT ![w] = {}]
  /\ UNCHANGED <<files, made, events, archiveTroubles>>

WorkerStep(w) ==
  \/ TakeDirLock(w) \/ FindLeftovers(w) \/ Recover(w) \/ Rotate(w) \/ Create(w)
  \/ WriteLine(w) \/ NothingToSeal(w) \/ CloseFile(w) \/ PublishFile(w) \/ Unlock(w)

ArchiveNext ==
  \E w \in Writers :
    \/ WorkerStep(w) \/ Maintains(w)
    \/ Starts(w) \/ Switches(w) \/ WriteArrives(w) \/ Closes(w)
    \/ IntervalPasses(w) \/ Dies(w)

ArchiveSpec == ArchiveInit /\ [][ArchiveNext]_archiveVars

(* The worker runs, its ticker ticks, and time passes. *)
ArchiveFairness ==
  \A w \in Writers :
    /\ WF_archiveVars(WorkerStep(w))
    /\ SF_archiveVars(Maintains(w))
    /\ WF_archiveVars(IntervalPasses(w))

-----------------------------------------------------------------------------
(* Properties. *)

ArchiveTypeOK ==
  /\ files \in [Files -> [ext : {"none", "open", "log"}, lines : Seq(1..MaxEvents)]]
  /\ dirLock \in Writers \cup {NoWriter}
  /\ \A w \in Writers :
       /\ writer[w].up \in {"down", "up", "closing", "gone"}
       /\ writer[w].path \in 0..MaxFiles /\ writer[w].event \in 0..MaxEvents
       /\ recovered[w] \subseteq Files

(* A published file never changes again and is not published twice, and a line
   that has reached a file stays where it is, whichever processes write, crash,
   recover and publish (internal/audit/archive.go:13, "Published .log files are
   immutable"). *)
ArchiveOnlyGrows ==
  [][\A f \in Files :
       /\ files[f].ext = "log" => files'[f] = files[f]
       /\ IsPrefix(files[f].lines, files'[f].lines)]_files

(* An archived line is published in the end, as long as a process that can take
   the lock is up: by rotation, by the maintenance of a switched-off archive,
   by a shutdown, or by the next process. *)
Somebody == \E w \in Writers : writer[w].up = "up"
LinesArePublished ==
  \A f \in Files :
    IsOpen(f) /\ files[f].lines # <<>> ~> files[f].ext = "log" \/ ~Somebody
=============================================================================
