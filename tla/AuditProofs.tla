---------------------------- MODULE AuditProofs ----------------------------
(***************************************************************************)
(* Proofs about the two halves of the request audit: AuditArchive for any  *)
(* number of processes, files and lines, AuditRecorder for any exchanges   *)
(* and any capacity of the queue.                                          *)
(***************************************************************************)
EXTENDS AuditRecorder, AuditArchive, FiniteSetTheorems, FunctionTheorems, TLAPS

-----------------------------------------------------------------------------
(* The archive. *)

WorkerLabels ==
  {"idle", "lock", "glob", "recover", "rotate", "create", "write", "seal", "unlock"}

FileRecords == [ext : {"none", "open", "log"}, lines : Seq(1..MaxEvents)]

WriterRecords ==
  [up : {"down", "up", "closing", "gone"}, at : WorkerLabels,
   enabled : BOOLEAN, ready : BOOLEAN, path : 0..MaxFiles, handle : BOOLEAN,
   due : BOOLEAN, event : 0..MaxEvents]

Lives(r) == r.up \in {"up", "closing"}

(* The writer of a process that was not initialized has no file; one that is
   about to write has been initialized, and has an event. *)
Sound(r) ==
  /\ r.path # 0 => r.ready
  /\ r.at \in {"lock", "glob", "recover"} => ~r.ready
  /\ r.at \in {"rotate", "create", "write"} => r.ready /\ r.event # 0
  /\ r.at = "seal" /\ r.event # 0 /\ r.enabled => r.ready
  /\ r.at = "create" => r.path = 0
  /\ r.at = "write" => r.path # 0
  /\ Lives(r) /\ r.at = "idle" => r.event = 0
  /\ r.up = "down" => r.at = "idle" /\ r.path = 0 /\ ~r.ready /\ r.event = 0

(* An initialized writer holds the lock of the directory, so only the holder
   has an open file, or leftovers to publish, and those are open as well. *)
Guards(w, r, left, lock, directory) ==
  /\ Lives(r) /\ (r.ready \/ r.at \in {"glob", "recover"}) => lock = w
  /\ Lives(r) /\ r.path # 0 => directory[r.path].ext = "open"
  /\ left # {} => Lives(r) /\ r.at = "recover"
  /\ \A f \in left : directory[f].ext = "open"

ArchiveTyped ==
  /\ files \in [Files -> FileRecords]
  /\ made \in 0..MaxFiles /\ events \in 0..MaxEvents
  /\ dirLock \in Writers \cup {NoWriter}
  /\ writer \in [Writers -> WriterRecords]
  /\ recovered \in [Writers -> SUBSET Files]
  /\ archiveTroubles \in Nat

ArchiveInv ==
  /\ ArchiveTyped
  /\ \A f \in Files : f > made => files[f] = Absent
  /\ \A w \in Writers : 
       Sound(writer[w]) /\ Guards(w, writer[w], recovered[w], dirLock, files)

(* The archive is empty at first. *)
LEMMA ArchiveStarts == ArchiveInit => ArchiveInv
BY ArchiveAssumption
   DEF ArchiveInit, ArchiveInv, ArchiveTyped, FreshWriter, FileRecords, WriterRecords, WorkerLabels, Absent,
       Sound, Guards, Lives

(* The worker of w goes on. Only the holder of the lock changes the directory,
   and nobody takes the lock from another process. *)
LEMMA WriterMoves ==
  ASSUME ArchiveInv, NEW w \in Writers, NEW r \in WriterRecords,
         Becomes(w, r), Sound(r), Guards(w, r, recovered'[w], dirLock', files'),
         recovered' \in [Writers -> SUBSET Files],
         \A v \in Writers \ {w} : recovered'[v] = recovered[v],
         events' \in 0..MaxEvents, archiveTroubles' \in Nat,
         made' \in 0..MaxFiles, files' \in [Files -> FileRecords],
         dirLock' \in Writers \cup {NoWriter},
         dirLock' = dirLock \/ dirLock \in {NoWriter, w},
         files' = files \/ dirLock = w,
         \A f \in Files : f > made' => files'[f] = Absent
  PROVE  ArchiveInv'
<1> USE DEF ArchiveInv
<1>1. writer' = [writer EXCEPT ![w] = r] /\ writer \in [Writers -> WriterRecords]
  BY DEF Becomes, ArchiveTyped
<1>2. ArchiveTyped'
  BY <1>1 DEF ArchiveTyped
<1>3. Sound(writer'[w]) /\ Guards(w, writer'[w], recovered'[w], dirLock', files')
  BY <1>1
<1>4. ASSUME NEW v \in Writers \ {w}
      PROVE  Sound(writer'[v]) /\ Guards(v, writer'[v], recovered'[v], dirLock', files')
  <2>1. writer'[v] = writer[v] /\ recovered'[v] = recovered[v] /\ v # NoWriter
    BY <1>1, ArchiveAssumption
  <2>2. Sound(writer[v]) /\ Guards(v, writer[v], recovered[v], dirLock, files)
    OBVIOUS
  <2> QED BY <2>1, <2>2 DEF Guards, Sound, Lives
<1>5. \A v \in Writers :
        Sound(writer'[v]) /\ Guards(v, writer'[v], recovered'[v], dirLock', files')
  BY <1>3, <1>4
<1> QED BY <1>2, <1>5

(* Publishing an open file makes it a log, or removes it if it is empty. *)
LEMMA PublishedIsTyped ==
  ASSUME files \in [Files -> FileRecords], NEW f \in Files, files[f].ext = "open",
         Publishes(f)
  PROVE  /\ files' \in [Files -> FileRecords]
         /\ \A g \in Files \ {f} : files'[g] = files[g]
         /\ files'[f].lines = files[f].lines
BY DEF FileRecords, Publishes, PublishedFile, Absent

(* What follows a seal that left no file, and one that failed. *)
LEMMA AfterIsSound ==
  ASSUME NEW r \in WriterRecords, Sound(r), Lives(r), r.at = "seal"
  PROVE  /\ AfterError(r) \in WriterRecords /\ Sound(AfterError(r))
         /\ AfterError(r).path = r.path /\ AfterError(r).ready = r.ready
         /\ AfterError(r).at \in {"unlock", "idle"}
         /\ r.path = 0 =>
              /\ AfterSeal(r) \in WriterRecords /\ Sound(AfterSeal(r))
              /\ AfterSeal(r).path = 0 /\ AfterSeal(r).ready = r.ready
              /\ AfterSeal(r).at \in {"unlock", "create", "idle"}
<1>1. 0 \in 0..MaxEvents
  BY ArchiveAssumption
<1> QED BY <1>1 DEF AfterSeal, AfterError, Over, WriterRecords, WorkerLabels, Sound, Lives

(* Every step of a writer, a cleanup or a crash keeps the invariant. *)
LEMMA ArchiveGoesOn == ArchiveInv /\ [ArchiveNext]_archiveVars => ArchiveInv'
<1> SUFFICES ASSUME ArchiveInv, [ArchiveNext]_archiveVars
             PROVE  ArchiveInv'
  OBVIOUS
<1>0. /\ files \in [Files -> FileRecords]
      /\ made \in 0..MaxFiles /\ events \in 0..MaxEvents
      /\ dirLock \in Writers \cup {NoWriter}
      /\ recovered \in [Writers -> SUBSET Files] /\ archiveTroubles \in Nat
      /\ \A f \in Files : f > made => files[f] = Absent
      /\ MaxFiles \in Nat /\ MaxEvents \in Nat /\ NoWriter \notin Writers
      /\ \A w \in Writers : /\ writer[w] \in WriterRecords /\ Sound(writer[w])
                            /\ Guards(w, writer[w], recovered[w], dirLock, files)
  BY ArchiveAssumption DEF ArchiveInv, ArchiveTyped
<1>1. ASSUME NEW w \in Writers, Starts(w) PROVE ArchiveInv'
  <2>1. PICK r \in WriterRecords :
          /\ Becomes(w, r)
          /\ \E enabled \in BOOLEAN : r = [writer[w] EXCEPT !.up = "up", !.enabled = enabled]
    BY <1>0, <1>1 DEF Starts, WriterRecords
  <2>2. Sound(r) /\ Guards(w, r, recovered[w], dirLock, files)
    BY <1>0, <1>1, <2>1 DEF Starts, WriterRecords, Sound, Guards, Lives
  <2> QED BY <1>0, <1>1, <2>1, <2>2, WriterMoves DEF Starts
<1>2. ASSUME NEW w \in Writers, Switches(w) PROVE ArchiveInv'
  <2>1. PICK r \in WriterRecords :
          Becomes(w, r) /\ r = [writer[w] EXCEPT !.enabled = ~@]
    BY <1>0, <1>2 DEF Switches, WriterRecords
  <2>2. Sound(r) /\ Guards(w, r, recovered[w], dirLock, files)
    BY <1>0, <1>2, <2>1 DEF Switches, WriterRecords, At, Sound, Guards, Lives
  <2> QED BY <1>0, <1>2, <2>1, <2>2, WriterMoves DEF Switches
<1>3. ASSUME NEW w \in Writers, WriteArrives(w) PROVE ArchiveInv'
  <2>1. PICK r \in WriterRecords : Becomes(w, r) /\ r = [writer[w] EXCEPT
                                 !.event = events + 1,
                                 !.at = IF ~writer[w].enabled THEN "seal"
                                        ELSE IF writer[w].ready THEN "rotate" ELSE "lock"]
    <3>1. events + 1 \in 0..MaxEvents
      BY <1>0, <1>3 DEF WriteArrives
    <3> QED BY <1>0, <1>3, <3>1 DEF WriteArrives, WriterRecords, WorkerLabels, Goes, At
  <2>2. Sound(r) /\ Guards(w, r, recovered[w], dirLock, files)
    BY <1>0, <1>3, <2>1 DEF WriteArrives, WriterRecords, At, Sound, Guards, Lives
  <2> QED BY <1>0, <1>3, <2>1, <2>2, WriterMoves DEF WriteArrives
<1>4. ASSUME NEW w \in Writers, Maintains(w) PROVE ArchiveInv'
  <2>1. PICK r \in WriterRecords : Becomes(w, r) /\ r \in {[writer[w] EXCEPT !.at = "lock"], [writer[w] EXCEPT !.at = "seal"]}
    BY <1>0, <1>4 DEF Maintains, WriterRecords, WorkerLabels, Goes, At
  <2>2. Sound(r) /\ Guards(w, r, recovered[w], dirLock, files)
    <3>1. /\ writer[w] \in WriterRecords /\ Lives(writer[w]) /\ writer[w].at = "idle"
          /\ writer[w].event = 0 /\ writer[w].up = "up" /\ recovered[w] = {}
      BY <1>0, <1>4 DEF Maintains, At, Sound, Guards, Lives
    <3>2. CASE ~writer[w].ready /\ Becomes(w, [writer[w] EXCEPT !.at = "lock"])
      <4>1. writer'[w] = r /\ writer'[w].at = "lock" /\ writer'[w].ready = FALSE
            /\ writer'[w].path = writer[w].path /\ writer'[w].up = "up"
        BY <1>0, <2>1, <3>1, <3>2 DEF WriterRecords, Becomes, ArchiveInv, ArchiveTyped
      <4> QED BY <1>0, <3>1, <3>2, <4>1 DEF Sound, Guards, Lives
    <3>3. CASE writer[w].path # 0 /\ Becomes(w, [writer[w] EXCEPT !.at = "seal"])
      <4>1. writer'[w] = r /\ writer'[w].at = "seal" /\ writer'[w].ready = writer[w].ready
            /\ writer'[w].path = writer[w].path /\ writer'[w].up = "up" /\ writer'[w].event = 0
        BY <1>0, <2>1, <3>1, <3>3 DEF WriterRecords, Becomes, ArchiveInv, ArchiveTyped
      <4> QED BY <1>0, <3>1, <3>3, <4>1 DEF Sound, Guards, Lives
    <3> QED BY <1>4, <3>2, <3>3 DEF Maintains, Goes
  <2> QED BY <1>0, <1>4, <2>1, <2>2, WriterMoves DEF Maintains
<1>5. ASSUME NEW w \in Writers, Closes(w) PROVE ArchiveInv'
  <2>1. PICK r \in WriterRecords : Becomes(w, r) /\ r = [writer[w] EXCEPT !.up = "closing", !.at = "seal"]
    BY <1>0, <1>5 DEF Closes, WriterRecords, WorkerLabels, Goes, At
  <2>2. Sound(r) /\ Guards(w, r, recovered[w], dirLock, files)
    BY <1>0, <1>5, <2>1 DEF Closes, WriterRecords, At, Sound, Guards, Lives
  <2> QED BY <1>0, <1>5, <2>1, <2>2, WriterMoves DEF Closes
<1>6. ASSUME NEW w \in Writers, TakeDirLock(w) PROVE ArchiveInv'
  <2>1. CASE dirLock \in {NoWriter, w}
    <3>1. PICK r \in WriterRecords : Becomes(w, r) /\ r = [writer[w] EXCEPT !.at = "glob"]
      BY <1>0, <1>6, <2>1 DEF TakeDirLock, WriterRecords, WorkerLabels, Goes
    <3>2. dirLock' = w
      BY <1>6, <2>1 DEF TakeDirLock
    <3>3. Sound(r) /\ Guards(w, r, recovered[w], dirLock', files)
      BY <1>0, <1>6, <3>1, <3>2 DEF TakeDirLock, WriterRecords, At, Sound, Guards, Lives
    <3> QED BY <1>0, <1>6, <2>1, <3>1, <3>2, <3>3, WriterMoves DEF TakeDirLock
  <2>2. CASE dirLock \notin {NoWriter, w}
    <3>1. PICK r \in WriterRecords : Becomes(w, r) /\ r = Over(writer[w])
      <4>1. 0 \in 0..MaxEvents
        BY <1>0
      <4> QED BY <1>0, <1>6, <2>2, <4>1 DEF TakeDirLock, WriterRecords, WorkerLabels, Over
    <3>2. Sound(r) /\ Guards(w, r, recovered[w], dirLock, files)
      BY <1>0, <1>6, <3>1 DEF TakeDirLock, WriterRecords, At, Sound, Guards, Lives, Over
    <3> QED BY <1>0, <1>6, <2>2, <3>1, <3>2, WriterMoves DEF TakeDirLock
  <2> QED BY <2>1, <2>2
<1>7. ASSUME NEW w \in Writers, FindLeftovers(w) PROVE ArchiveInv'
  <2>1. PICK r \in WriterRecords : Becomes(w, r) /\ r = [writer[w] EXCEPT !.at = "recover"]
    BY <1>0, <1>7 DEF FindLeftovers, WriterRecords, WorkerLabels, Goes
  <2>2. /\ recovered' = [recovered EXCEPT ![w] = {f \in Files : IsOpen(f)}]
        /\ recovered' \in [Writers -> SUBSET Files]
        /\ recovered'[w] = {f \in Files : IsOpen(f)}
    BY <1>0, <1>7 DEF FindLeftovers
  <2>3. Sound(r) /\ Guards(w, r, recovered'[w], dirLock, files)
    BY <1>0, <1>7, <2>1, <2>2
       DEF FindLeftovers, WriterRecords, At, Sound, Guards, Lives, IsOpen
  <2> QED BY <1>0, <1>7, <2>1, <2>2, <2>3, WriterMoves DEF FindLeftovers
<1>8. ASSUME NEW w \in Writers, Recover(w) PROVE ArchiveInv'
  <2>0. /\ writer[w] \in WriterRecords /\ Lives(writer[w]) /\ writer[w].at = "recover"
        /\ dirLock = w /\ writer[w].path = 0 /\ ~writer[w].ready
        /\ UNCHANGED <<made, events, dirLock>>
    BY <1>0, <1>8 DEF Recover, At, Guards, Lives, Sound, WriterRecords
  <2>1. ASSUME NEW f \in recovered[w], Publishes(f), Fine,
               recovered' = [recovered EXCEPT ![w] = @ \ {f}], UNCHANGED writer
        PROVE  ArchiveInv'
    <3>1. f \in Files /\ files[f].ext = "open"
      BY <1>0 DEF Guards
    <3>2. /\ files' \in [Files -> FileRecords] /\ \A g \in Files \ {f} : files'[g] = files[g]
          /\ \A g \in Files : g > made' => files'[g] = Absent
      BY <1>0, <2>0, <2>1, <3>1, PublishedIsTyped DEF Absent
    <3>3. /\ recovered' \in [Writers -> SUBSET Files] /\ recovered'[w] = recovered[w] \ {f}
          /\ \A v \in Writers \ {w} : recovered'[v] = recovered[v]
      BY <1>0, <2>1
    <3>4. Becomes(w, writer[w]) /\ Sound(writer[w])
      BY <1>0, <2>1 DEF Becomes, ArchiveInv, ArchiveTyped
    <3>5. Guards(w, writer[w], recovered'[w], dirLock', files')
      BY <1>0, <2>0, <3>2, <3>3 DEF Guards
    <3> QED BY <1>0, <2>0, <2>1, <3>2, <3>3, <3>4, <3>5, WriterMoves DEF Fine
  <2>2. ASSUME recovered' = [recovered EXCEPT ![w] = {}],
               Becomes(w, Over(writer[w])), Trouble, UNCHANGED files
        PROVE  ArchiveInv'
    <3>1. PICK r \in WriterRecords : Becomes(w, r) /\ r = Over(writer[w])
      <4>1. 0 \in 0..MaxEvents
        BY <1>0
      <4> QED BY <2>0, <2>2, <4>1 DEF WriterRecords, WorkerLabels, Over
    <3>2. recovered' \in [Writers -> SUBSET Files] /\ recovered'[w] = {}
      BY <1>0, <2>2
    <3>3. Sound(r) /\ Guards(w, r, recovered'[w], dirLock', files')
      BY <1>0, <2>0, <2>2, <3>1, <3>2 DEF WriterRecords, Sound, Guards, Lives, Over
    <3> QED BY <1>0, <2>0, <2>2, <3>1, <3>2, <3>3, WriterMoves DEF Trouble
  <2>3. ASSUME recovered[w] = {}, UNCHANGED <<files, recovered, archiveTroubles>>,
               Becomes(w, [IF writer[w].event = 0 THEN Over(writer[w])
                           ELSE [writer[w] EXCEPT !.at = "rotate"] EXCEPT !.ready = TRUE])
        PROVE  ArchiveInv'
    <3>1. PICK r \in WriterRecords :
            /\ Becomes(w, r)
            /\ r = [IF writer[w].event = 0 THEN Over(writer[w])
                    ELSE [writer[w] EXCEPT !.at = "rotate"] EXCEPT !.ready = TRUE]
      <4>1. 0 \in 0..MaxEvents
        BY <1>0
      <4> QED BY <2>0, <2>3, <4>1 DEF WriterRecords, WorkerLabels, Over
    <3>2. Sound(r) /\ Guards(w, r, recovered[w], dirLock, files)
      BY <1>0, <2>0, <2>3, <3>1 DEF WriterRecords, Sound, Guards, Lives, Over
    <3> QED BY <1>0, <2>0, <2>3, <3>1, <3>2, WriterMoves
  <2> QED BY <1>8, <2>1, <2>2, <2>3 DEF Recover
<1>9. ASSUME NEW w \in Writers, Rotate(w) PROVE ArchiveInv'
  <2>1. PICK r \in WriterRecords : Becomes(w, r) /\ r = [writer[w] EXCEPT !.at = IF MustRotate(w) THEN "seal"
                                                           ELSE IF writer[w].path = 0 THEN "create"
                                                           ELSE "write"]
    BY <1>0, <1>9 DEF Rotate, WriterRecords, WorkerLabels, Goes, At
  <2>2. Sound(r) /\ Guards(w, r, recovered[w], dirLock, files)
    BY <1>0, <1>9, <2>1 DEF Rotate, WriterRecords, At, Sound, Guards, Lives
  <2> QED BY <1>0, <1>9, <2>1, <2>2, WriterMoves DEF Rotate
<1>10. ASSUME NEW w \in Writers, Create(w) PROVE ArchiveInv'
  <2>0. /\ writer[w] \in WriterRecords /\ Lives(writer[w]) /\ writer[w].at = "create"
        /\ writer[w].path = 0 /\ writer[w].ready /\ writer[w].event # 0
        /\ dirLock = w /\ recovered[w] = {}
        /\ UNCHANGED <<events, dirLock, recovered>>
    BY <1>0, <1>10 DEF Create, At, Guards, Lives, Sound
  <2>1. ASSUME made < MaxFiles, Fine, made' = made + 1,
               files' = [files EXCEPT ![made + 1] = [ext |-> "open", lines |-> <<>>]],
               Becomes(w, [writer[w] EXCEPT !.at = "write", !.path = made + 1,
                                            !.handle = TRUE, !.due = FALSE])
        PROVE  ArchiveInv'
    <3>1. made + 1 \in Files /\ made + 1 \in 0..MaxFiles
      BY <1>0, <2>1 DEF Files
    <3>2. /\ files' \in [Files -> FileRecords] /\ files'[made + 1].ext = "open"
          /\ \A g \in Files : g > made' => files'[g] = Absent
      BY <1>0, <2>1, <3>1 DEF FileRecords, Files
    <3>3. PICK r \in WriterRecords :
            /\ Becomes(w, r)
            /\ r = [writer[w] EXCEPT !.at = "write", !.path = made + 1,
                                     !.handle = TRUE, !.due = FALSE]
      BY <2>0, <2>1, <3>1 DEF WriterRecords, WorkerLabels
    <3>4. /\ r.path = made + 1 /\ r.at = "write" /\ r.ready /\ r.event # 0 /\ r.up = writer[w].up
      BY <2>0, <3>3 DEF WriterRecords
    <3>5. Sound(r) /\ Guards(w, r, recovered'[w], dirLock', files')
      BY <1>0, <2>0, <3>2, <3>4 DEF Sound, Guards, Lives
    <3> QED BY <1>0, <2>0, <2>1, <3>1, <3>2, <3>3, <3>5, WriterMoves DEF Fine
  <2>2. ASSUME Trouble, Becomes(w, Over(writer[w])), UNCHANGED <<files, made>>
        PROVE  ArchiveInv'
    <3>1. PICK r \in WriterRecords : Becomes(w, r) /\ r = Over(writer[w])
      <4>1. 0 \in 0..MaxEvents
        BY <1>0
      <4> QED BY <2>0, <2>2, <4>1 DEF WriterRecords, WorkerLabels, Over
    <3>2. Sound(r) /\ Guards(w, r, recovered'[w], dirLock', files')
      BY <1>0, <2>0, <2>2, <3>1 DEF WriterRecords, Sound, Guards, Lives, Over
    <3> QED BY <1>0, <2>0, <2>2, <3>1, <3>2, WriterMoves DEF Trouble
  <2> QED BY <1>10, <2>1, <2>2 DEF Create
<1>11. ASSUME NEW w \in Writers, WriteLine(w) PROVE ArchiveInv'
  <2>0. /\ writer[w] \in WriterRecords /\ Lives(writer[w]) /\ writer[w].at = "write"
        /\ writer[w].ready /\ writer[w].event \in 1..MaxEvents
        /\ writer[w].path \in Files /\ files[writer[w].path].ext = "open"
        /\ dirLock = w /\ recovered[w] = {}
        /\ UNCHANGED <<made, events, dirLock, recovered>>
    BY <1>0, <1>11 DEF WriteLine, At, Guards, Lives, Sound, WriterRecords, Files
  <2>1. ASSUME NEW f, f = writer[w].path, NEW lines, lines = Append(files[f].lines, writer[w].event),
               files' = [files EXCEPT ![f].lines = lines], Fine,
               Becomes(w, IF Len(lines) < MaxLines THEN Over(writer[w])
                          ELSE [writer[w] EXCEPT !.at = "seal", !.event = 0])
        PROVE  ArchiveInv'
    <3>1. files[f] \in FileRecords /\ files[f].lines \in Seq(1..MaxEvents) /\ f \in Files
      BY <1>0, <2>0, <2>1 DEF FileRecords
    <3>2. lines \in Seq(1..MaxEvents)
      BY <2>0, <2>1, <3>1
    <3>3. /\ files' \in [Files -> FileRecords] /\ files'[f].ext = "open"
          /\ \A g \in Files \ {f} : files'[g] = files[g]
      BY <1>0, <2>0, <2>1, <3>1, <3>2 DEF FileRecords
    <3>4. \A g \in Files : g > made' => files'[g] = Absent
      <4>1. Absent.ext = "none" /\ made' = made
        BY <2>0 DEF Absent
      <4>2. ~(f > made)
        BY <1>0, <2>0, <2>1, <4>1
      <4> QED BY <1>0, <3>3, <4>1, <4>2
    <3>5. PICK r \in WriterRecords :
            /\ Becomes(w, r)
            /\ r = Over(writer[w]) \/ r = [writer[w] EXCEPT !.at = "seal", !.event = 0]
      <4>1. 0 \in 0..MaxEvents
        BY <1>0
      <4> QED BY <2>0, <2>1, <4>1 DEF WriterRecords, WorkerLabels, Over
    <3>6. /\ r.path = writer[w].path /\ r.ready /\ r.event = 0 /\ r.up = writer[w].up
          /\ r.at \in {"idle", "seal"}
      BY <2>0, <3>5 DEF WriterRecords, Over
    <3>7. Sound(r) /\ Guards(w, r, recovered'[w], dirLock', files')
      BY <2>0, <2>1, <3>3, <3>6 DEF Sound, Guards, Lives
    <3> QED BY <1>0, <2>0, <2>1, <3>3, <3>4, <3>5, <3>7, WriterMoves DEF Fine
  <2>2. ASSUME Trouble, Becomes(w, Over(writer[w])), UNCHANGED files
        PROVE  ArchiveInv'
    <3>1. PICK r \in WriterRecords : Becomes(w, r) /\ r = Over(writer[w])
      <4>1. 0 \in 0..MaxEvents
        BY <1>0
      <4> QED BY <2>0, <2>2, <4>1 DEF WriterRecords, WorkerLabels, Over
    <3>2. Sound(r) /\ Guards(w, r, recovered'[w], dirLock', files')
      BY <1>0, <2>0, <2>2, <3>1 DEF WriterRecords, Sound, Guards, Lives, Over
    <3> QED BY <1>0, <2>0, <2>2, <3>1, <3>2, WriterMoves DEF Trouble
  <2> QED BY <1>11, <2>1, <2>2 DEF WriteLine
<1>12. ASSUME NEW w \in Writers, NothingToSeal(w) PROVE ArchiveInv'
  <2>0. /\ writer[w] \in WriterRecords /\ Lives(writer[w]) /\ writer[w].at = "seal"
        /\ writer[w].path = 0 /\ Sound(writer[w]) /\ recovered[w] = {}
    BY <1>0, <1>12 DEF NothingToSeal, At, Guards, Lives
  <2>1. PICK r \in WriterRecords : Becomes(w, r) /\ r = AfterSeal(writer[w])
    BY <1>12, <2>0, AfterIsSound DEF NothingToSeal
  <2>2. /\ Sound(r) /\ r.path = 0 /\ r.ready = writer[w].ready
        /\ r.at \in {"unlock", "create", "idle"}
    BY <2>0, <2>1, AfterIsSound
  <2>3. Guards(w, r, recovered[w], dirLock, files)
    BY <1>0, <2>0, <2>2 DEF Guards
  <2> QED BY <1>0, <1>12, <2>1, <2>2, <2>3, WriterMoves DEF NothingToSeal
<1>13. ASSUME NEW w \in Writers, CloseFile(w) PROVE ArchiveInv'
  <2>0. /\ writer[w] \in WriterRecords /\ Lives(writer[w]) /\ writer[w].at = "seal"
        /\ Sound(writer[w]) /\ recovered[w] = {}
    BY <1>0, <1>13 DEF CloseFile, At, Guards, Lives
  <2>1. PICK shut \in WriterRecords : shut = [writer[w] EXCEPT !.handle = FALSE]
    BY <2>0 DEF WriterRecords
  <2>2. /\ Sound(shut) /\ Lives(shut) /\ shut.at = "seal"
        /\ shut.path = writer[w].path /\ shut.ready = writer[w].ready
    BY <2>0, <2>1 DEF WriterRecords, Sound, Lives
  <2>3. PICK r \in WriterRecords : Becomes(w, r) /\ (r = shut \/ r = AfterError(shut))
    BY <1>13, <2>1, <2>2, AfterIsSound DEF CloseFile
  <2>4. /\ Sound(r) /\ r.path = writer[w].path /\ r.ready = writer[w].ready
        /\ r.at \in {"seal", "unlock", "idle"}
    BY <2>2, <2>3, AfterIsSound
  <2>5. Guards(w, r, recovered[w], dirLock, files)
    BY <1>0, <2>0, <2>4 DEF Guards
  <2>6. archiveTroubles' \in Nat
    BY <1>0, <1>13 DEF CloseFile, Fine, Trouble
  <2> QED BY <1>0, <1>13, <2>3, <2>4, <2>5, <2>6, WriterMoves DEF CloseFile
<1>14. ASSUME NEW w \in Writers, PublishFile(w) PROVE ArchiveInv'
  <2>0. /\ writer[w] \in WriterRecords /\ Lives(writer[w]) /\ writer[w].at = "seal"
        /\ Sound(writer[w]) /\ writer[w].ready /\ recovered[w] = {} /\ dirLock = w
        /\ writer[w].path \in Files /\ files[writer[w].path].ext = "open"
        /\ UNCHANGED <<made, events, dirLock, recovered>>
    BY <1>0, <1>14 DEF PublishFile, At, Guards, Lives, Sound, WriterRecords, Files
  <2>1. ASSUME Publishes(writer[w].path), Fine,
               Becomes(w, AfterSeal([writer[w] EXCEPT !.path = 0, !.due = FALSE]))
        PROVE  ArchiveInv'
    <3>1. PICK sealed \in WriterRecords : sealed = [writer[w] EXCEPT !.path = 0, !.due = FALSE]
      <4>1. 0 \in 0..MaxFiles
        BY <1>0
      <4> QED BY <2>0, <4>1 DEF WriterRecords
    <3>2. /\ Sound(sealed) /\ Lives(sealed) /\ sealed.at = "seal" /\ sealed.path = 0
          /\ sealed.ready
      BY <2>0, <3>1 DEF WriterRecords, Sound, Lives
    <3>3. PICK r \in WriterRecords : Becomes(w, r) /\ r = AfterSeal(sealed)
      BY <2>1, <3>1, <3>2, AfterIsSound
    <3>4. Sound(r) /\ r.path = 0
      BY <3>2, <3>3, AfterIsSound
    <3>5. /\ files' \in [Files -> FileRecords]
          /\ \A g \in Files \ {writer[w].path} : files'[g] = files[g]
          /\ \A g \in Files : g > made' => files'[g] = Absent
      BY <1>0, <2>0, <2>1, PublishedIsTyped DEF Absent
    <3>6. Guards(w, r, recovered'[w], dirLock', files')
      BY <2>0, <3>4 DEF Guards
    <3> QED BY <1>0, <2>0, <2>1, <3>3, <3>4, <3>5, <3>6, WriterMoves DEF Fine
  <2>2. ASSUME Trouble, Becomes(w, AfterError(writer[w])), UNCHANGED files
        PROVE  ArchiveInv'
    <3>1. PICK r \in WriterRecords : Becomes(w, r) /\ r = AfterError(writer[w])
      BY <2>0, <2>2, AfterIsSound
    <3>2. /\ Sound(r) /\ r.path = writer[w].path /\ r.ready = writer[w].ready
          /\ r.at \in {"unlock", "idle"}
      BY <2>0, <3>1, AfterIsSound
    <3>3. Guards(w, r, recovered'[w], dirLock', files')
      BY <2>0, <2>2, <3>2 DEF Guards
    <3> QED BY <1>0, <2>0, <2>2, <3>1, <3>2, <3>3, WriterMoves DEF Trouble
  <2> QED BY <1>14, <2>1, <2>2 DEF PublishFile
<1>15. ASSUME NEW w \in Writers, Unlock(w) PROVE ArchiveInv'
  <2>1. PICK r \in WriterRecords :
          Becomes(w, r) /\ r = [writer[w] EXCEPT !.up = "gone", !.at = "idle"]
    BY <1>0, <1>15 DEF Unlock, WriterRecords, WorkerLabels
  <2>2. Sound(r) /\ Guards(w, r, recovered[w], dirLock', files)
    BY <1>0, <1>15, <2>1 DEF Unlock, WriterRecords, At, Sound, Guards, Lives
  <2> QED BY <1>0, <1>15, <2>1, <2>2, WriterMoves DEF Unlock
<1>16. ASSUME NEW w \in Writers, IntervalPasses(w) PROVE ArchiveInv'
  <2>1. PICK r \in WriterRecords : Becomes(w, r) /\ r = [writer[w] EXCEPT !.due = TRUE]
    BY <1>0, <1>16 DEF IntervalPasses, WriterRecords, WorkerLabels, Goes, At
  <2>2. Sound(r) /\ Guards(w, r, recovered[w], dirLock, files)
    BY <1>0, <1>16, <2>1 DEF IntervalPasses, WriterRecords, At, Sound, Guards, Lives
  <2> QED BY <1>0, <1>16, <2>1, <2>2, WriterMoves DEF IntervalPasses
<1>17. ASSUME NEW w \in Writers, Dies(w) PROVE ArchiveInv'
  <2>1. PICK r \in WriterRecords : Becomes(w, r) /\ r = [FreshWriter EXCEPT !.up = "gone"]
    <3>1. 0 \in 0..MaxEvents /\ 0 \in 0..MaxFiles
      BY <1>0
    <3> QED BY <1>17, <3>1 DEF Dies, FreshWriter, WriterRecords, WorkerLabels
  <2>2. recovered' = [recovered EXCEPT ![w] = {}] /\ recovered'[w] = {}
    BY <1>0, <1>17 DEF Dies
  <2>3. Sound(r) /\ Guards(w, r, recovered'[w], dirLock', files)
    BY <1>0, <1>17, <2>1, <2>2 DEF Dies, FreshWriter, Sound, Guards, Lives
  <2> QED BY <1>0, <1>17, <2>1, <2>2, <2>3, WriterMoves DEF Dies
<1>18. CASE UNCHANGED archiveVars
  BY <1>18 DEF archiveVars, ArchiveInv, ArchiveTyped
<1> QED
  BY <1>1, <1>2, <1>3, <1>4, <1>5, <1>6, <1>7, <1>8, <1>9, <1>10, <1>11, <1>12, <1>13,
     <1>14, <1>15, <1>16, <1>17, <1>18 DEF ArchiveNext, WorkerStep

(* Processes that start, write, seal, die and recover keep the invariant. *)
THEOREM ArchiveInvariant == ArchiveSpec => []ArchiveInv
<1> QED BY ArchiveStarts, ArchiveGoesOn, PTL DEF ArchiveSpec

(* The directory, the lock and the writers have their types. *)
THEOREM ArchiveTypes == ArchiveSpec => []ArchiveTypeOK
<1>1. ArchiveInv => ArchiveTypeOK
  BY DEF ArchiveInv, ArchiveTyped, ArchiveTypeOK, FileRecords, WriterRecords
<1> QED BY <1>1, ArchiveInvariant, PTL

(* A file that nothing was added to, and one that was added to, begin as it
   began. *)
LEMMA PrefixOfItself ==
  ASSUME NEW T, NEW s \in Seq(T)
  PROVE  IsPrefix(s, s)
BY DEF IsPrefix

(* See PrefixOfItself: one more line leaves the others as they are. *)
LEMMA PrefixOfAppend ==
  ASSUME NEW T, NEW s \in Seq(T), NEW e \in T
  PROVE  IsPrefix(s, Append(s, e))
<1>1. Append(s, e) \in Seq(T) /\ Len(Append(s, e)) = Len(s) + 1 /\ Len(s) \in Nat
  OBVIOUS
<1>2. SubSeq(s, 1, Len(s)) = SubSeq(Append(s, e), 1, Len(s))
  <2>1. \A i \in 1..Len(s) : s[i] = Append(s, e)[i]
    OBVIOUS
  <2> QED BY <1>1, <2>1
<1> QED BY <1>1, <1>2 DEF IsPrefix

(* An archive file that was published never changes, and no line of a file is
   lost or changed, whichever processes write, die, recover and publish. *)
THEOREM ArchiveKept == ArchiveSpec => ArchiveOnlyGrows
<1> DEFINE Grows(f) ==
      /\ files[f].ext = "log" => files'[f] = files[f]
      /\ IsPrefix(files[f].lines, files'[f].lines)
<1>1. ASSUME ArchiveInv, [ArchiveNext]_archiveVars
      PROVE  [\A f \in Files : Grows(f)]_files
  <2>0. /\ files \in [Files -> FileRecords]
        /\ \A f \in Files : files[f].lines \in Seq(1..MaxEvents)
        /\ \A f \in Files : f > made => files[f] = Absent
        /\ \A w \in Writers : /\ writer[w] \in WriterRecords /\ Sound(writer[w])
                              /\ Guards(w, writer[w], recovered[w], dirLock, files)
    BY <1>1 DEF ArchiveInv, ArchiveTyped, FileRecords
  <2>1. ASSUME NEW f \in Files, files'[f] = files[f]
        PROVE  Grows(f)
    BY <2>0, <2>1, PrefixOfItself
  <2>2. ASSUME NEW f \in Files, files[f].ext = "open", Publishes(f), NEW g \in Files
        PROVE  Grows(g)
    <3>1. files'[f].lines = files[f].lines /\ (g # f => files'[g] = files[g])
      BY <2>0, <2>2, PublishedIsTyped
    <3>2. IsPrefix(files[f].lines, files[f].lines)
      BY <2>0, PrefixOfItself
    <3> QED BY <2>1, <2>2, <3>1, <3>2
  <2>3. ASSUME NEW w \in Writers, Recover(w), NEW f \in Files PROVE Grows(f)
    <3>1. CASE files' = files
      BY <2>1, <3>1
    <3>2. ASSUME NEW g \in recovered[w], Publishes(g) PROVE Grows(f)
      <4>1. g \in Files /\ files[g].ext = "open"
        BY <1>1, <2>0, <3>2 DEF Guards, ArchiveInv, ArchiveTyped
      <4> QED BY <2>2, <3>2, <4>1
    <3> QED BY <2>3, <3>1, <3>2 DEF Recover
  <2>4. ASSUME NEW w \in Writers, Create(w), NEW f \in Files PROVE Grows(f)
    <3>1. CASE files' = files
      BY <2>1, <3>1
    <3>2. CASE made < MaxFiles /\
               files' = [files EXCEPT ![made + 1] = [ext |-> "open", lines |-> <<>>]]
      <4>1. made \in 0..MaxFiles /\ MaxFiles \in Nat
        BY <1>1, ArchiveAssumption DEF ArchiveInv, ArchiveTyped
      <4>2. made + 1 \in Files /\ files[made + 1] = Absent
        BY <2>0, <3>2, <4>1 DEF Files
      <4>3. IsPrefix(files[made + 1].lines, files[made + 1].lines)
        BY <2>0, <4>2, PrefixOfItself
      <4>4. CASE f = made + 1
        BY <2>0, <3>2, <4>2, <4>3, <4>4 DEF Absent
      <4>5. CASE f # made + 1
        BY <2>0, <2>1, <3>2, <4>5
      <4> QED BY <4>4, <4>5
    <3> QED BY <2>4, <3>1, <3>2 DEF Create
  <2>5. ASSUME NEW w \in Writers, WriteLine(w), NEW f \in Files PROVE Grows(f)
    <3>1. CASE files' = files
      BY <2>1, <3>1
    <3>2. ASSUME NEW g, g = writer[w].path,
                 files' = [files EXCEPT ![g].lines = Append(files[g].lines, writer[w].event)]
          PROVE  Grows(f)
      <4>1. /\ g \in Files /\ files[g].ext = "open" /\ writer[w].event \in 1..MaxEvents
        BY <2>0, <2>5, <3>2 DEF WriteLine, At, Sound, Guards, Lives, WriterRecords, Files
      <4>2. IsPrefix(files[g].lines, Append(files[g].lines, writer[w].event))
        BY <2>0, <4>1, PrefixOfAppend
      <4>3. CASE f = g
        BY <2>0, <3>2, <4>1, <4>2, <4>3 DEF FileRecords
      <4>4. CASE f # g
        BY <2>0, <2>1, <3>2, <4>4
      <4> QED BY <4>3, <4>4
    <3> QED BY <2>5, <3>1, <3>2 DEF WriteLine
  <2>6. ASSUME NEW w \in Writers, PublishFile(w), NEW f \in Files PROVE Grows(f)
    <3>1. CASE files' = files
      BY <2>1, <3>1
    <3>2. CASE Publishes(writer[w].path)
      <4>1. writer[w].path \in Files /\ files[writer[w].path].ext = "open"
        BY <2>0, <2>6 DEF PublishFile, At, Guards, Lives, WriterRecords, Files
      <4> QED BY <2>2, <3>2, <4>1
    <3> QED BY <2>6, <3>1, <3>2 DEF PublishFile
  <2>7. ASSUME NEW w \in Writers,
               \/ TakeDirLock(w) \/ FindLeftovers(w) \/ Rotate(w) \/ NothingToSeal(w)
               \/ CloseFile(w) \/ Unlock(w) \/ Maintains(w) \/ Starts(w) \/ Switches(w)
               \/ WriteArrives(w) \/ Closes(w) \/ IntervalPasses(w) \/ Dies(w)
        PROVE  UNCHANGED files
    BY <2>7 DEF TakeDirLock, FindLeftovers, Rotate, NothingToSeal, CloseFile, Unlock, Maintains,
                Starts, Switches, WriteArrives, Closes, IntervalPasses, Dies
  <2>8. CASE UNCHANGED archiveVars
    BY <2>8 DEF archiveVars
  <2> HIDE DEF Grows
  <2> QED
    BY <1>1, <2>3, <2>4, <2>5, <2>6, <2>7, <2>8 DEF ArchiveNext, WorkerStep
<1> QED BY <1>1, ArchiveInvariant, PTL DEF ArchiveSpec, ArchiveOnlyGrows

-----------------------------------------------------------------------------
(* Counting events. *)

Events == [source : Sources, kind : {"start", "body", "end"}, incomplete : BOOLEAN]

(* Where a sequence has an element of a set, and how often. *)
Places(q, E) == {i \in DOMAIN q : q[i] \in E}
Occurs(q, E) == Cardinality(Places(q, E))

(* How often something occurs in a queue is a number: none in an empty one, *)
LEMMA OccursIsNumber ==
  ASSUME NEW T, NEW q \in Seq(T), NEW E
  PROVE  IsFiniteSet(Places(q, E)) /\ Occurs(q, E) \in Nat
<1>1. Len(q) \in Nat /\ Places(q, E) \subseteq 1..Len(q)
  BY DEF Places
<1>2. IsFiniteSet(1..Len(q))
  BY <1>1, FS_Interval
<1>3. IsFiniteSet(Places(q, E))
  BY <1>1, <1>2, FS_Subset
<1> QED BY <1>3, FS_CardinalityType DEF Occurs

(* nothing occurs in an empty queue, *)
LEMMA OccursNowhere ==
  ASSUME NEW E
  PROVE  Occurs(<<>>, E) = 0
<1>1. Places(<<>>, E) = {}
  BY DEF Places
<1> QED BY <1>1, FS_EmptySet DEF Occurs

(* an event that is added counts as one, *)
LEMMA OccursInAppend ==
  ASSUME NEW T, NEW q \in Seq(T), NEW e \in T, NEW E
  PROVE  Occurs(Append(q, e), E) = Occurs(q, E) + (IF e \in E THEN 1 ELSE 0)
<1>1. /\ Append(q, e) \in Seq(T) /\ Len(q) \in Nat
      /\ DOMAIN q = 1..Len(q) /\ DOMAIN Append(q, e) = 1..(Len(q) + 1)
      /\ \A i \in 1..Len(q) : Append(q, e)[i] = q[i]
      /\ Append(q, e)[Len(q) + 1] = e
  OBVIOUS
<1>2. Places(Append(q, e), E) =
        IF e \in E THEN Places(q, E) \cup {Len(q) + 1} ELSE Places(q, E)
  BY <1>1 DEF Places
<1>3. Len(q) + 1 \notin Places(q, E)
  BY <1>1 DEF Places
<1>4. IsFiniteSet(Places(q, E)) /\ Cardinality(Places(q, E)) \in Nat
  BY OccursIsNumber DEF Occurs
<1>5. Cardinality(Places(q, E) \cup {Len(q) + 1}) = Cardinality(Places(q, E)) + 1
  BY <1>3, <1>4, FS_AddElement
<1> QED BY <1>2, <1>4, <1>5 DEF Occurs

(* and so does the first that is taken away. *)
LEMMA OccursInTail ==
  ASSUME NEW T, NEW q \in Seq(T), q # <<>>, NEW E
  PROVE  Occurs(q, E) = Occurs(Tail(q), E) + (IF Head(q) \in E THEN 1 ELSE 0)
<1>1. /\ Tail(q) \in Seq(T) /\ Len(q) \in Nat \ {0} /\ Len(Tail(q)) = Len(q) - 1
      /\ DOMAIN q = 1..Len(q) /\ DOMAIN Tail(q) = 1..(Len(q) - 1)
      /\ \A i \in 1..(Len(q) - 1) : Tail(q)[i] = q[i + 1]
      /\ Head(q) = q[1]
  OBVIOUS
<1> DEFINE later == Places(q, E) \ {1}
           shift == [i \in Places(Tail(q), E) |-> i + 1]
<1>2. shift \in [Places(Tail(q), E) -> later]
  BY <1>1 DEF Places
<1>3. \A i, j \in Places(Tail(q), E) : shift[i] = shift[j] => i = j
  BY <1>1 DEF Places
<1>4. ASSUME NEW k \in later PROVE \E i \in Places(Tail(q), E) : shift[i] = k
  <2>1. k - 1 \in Places(Tail(q), E) /\ k \in Nat
    BY <1>1, <1>4 DEF Places
  <2>2. shift[k - 1] = k
    BY <2>1
  <2> QED BY <2>1, <2>2
<1>5. IsFiniteSet(Places(Tail(q), E)) /\ Cardinality(Places(Tail(q), E)) \in Nat
  BY <1>1, OccursIsNumber DEF Occurs
<1>6. IsFiniteSet(Places(q, E)) /\ Cardinality(Places(q, E)) \in Nat
  BY OccursIsNumber DEF Occurs
<1> HIDE DEF shift, later
<1>7. shift \in Bijection(Places(Tail(q), E), later)
  BY <1>2, <1>3, <1>4, Fun_IsBij
<1>8. Cardinality(later) = Cardinality(Places(Tail(q), E))
  BY <1>5, <1>7, FS_Bijection DEF ExistsBijection
<1>9. 1 \in Places(q, E) <=> Head(q) \in E
  BY <1>1 DEF Places
<1>10. Cardinality(later) =
         IF 1 \in Places(q, E) THEN Cardinality(Places(q, E)) - 1 ELSE Cardinality(Places(q, E))
  BY <1>6, FS_RemoveElement DEF later
<1> QED BY <1>5, <1>6, <1>8, <1>9, <1>10 DEF Occurs

-----------------------------------------------------------------------------
(* The queue and its worker. *)

BodyEvents == {e \in Events : e.kind = "body"}

(* The room that events take in the queue. *)
LEMMA BytesAreCosts ==
  /\ Bytes(<<>>) = 0
  /\ \A q \in Seq(Events) : Bytes(q) \in Nat /\ Bytes(q) = Len(q) + Occurs(q, BodyEvents)
  /\ \A q \in Seq(Events), e \in Events : Bytes(Append(q, e)) = Bytes(q) + Cost(e)
  /\ \A e \in Events : Bytes(<<e>>) = Cost(e) /\ Cost(e) \in Nat
  /\ \A q \in Seq(Events) : q # <<>> => Bytes(q) = Bytes(Tail(q)) + Cost(Head(q))
<1>1. ASSUME NEW q \in Seq(Events)
      PROVE  Bytes(q) = Len(q) + Occurs(q, BodyEvents) /\ Bytes(q) \in Nat
  <2>1. \A i \in DOMAIN q : q[i] \in Events
    OBVIOUS
  <2>2. {i \in DOMAIN q : q[i].kind = "body"} = Places(q, BodyEvents)
    BY <2>1 DEF Places, BodyEvents
  <2>3. Bytes(q) = Len(q) + Occurs(q, BodyEvents)
    BY <2>2 DEF Bytes, Occurs
  <2>4. Len(q) \in Nat /\ Occurs(q, BodyEvents) \in Nat
    BY OccursIsNumber
  <2> QED BY <2>3, <2>4
<1>2. \A e \in Events : Cost(e) = 1 + (IF e \in BodyEvents THEN 1 ELSE 0)
  BY DEF Cost, BodyEvents
<1>3. ASSUME NEW q \in Seq(Events), NEW e \in Events
      PROVE  Bytes(Append(q, e)) = Bytes(q) + Cost(e)
  <2>1. Append(q, e) \in Seq(Events) /\ Len(Append(q, e)) = Len(q) + 1
    OBVIOUS
  <2>2. Occurs(Append(q, e), BodyEvents) =
          Occurs(q, BodyEvents) + (IF e \in BodyEvents THEN 1 ELSE 0)
    BY OccursInAppend
  <2>3. Len(q) \in Nat /\ Occurs(q, BodyEvents) \in Nat
    BY OccursIsNumber
  <2>4. Bytes(Append(q, e)) = Len(Append(q, e)) + Occurs(Append(q, e), BodyEvents)
    BY <1>1, <2>1
  <2>5. Bytes(q) = Len(q) + Occurs(q, BodyEvents)
    BY <1>1
  <2>6. Cost(e) = 1 + (IF e \in BodyEvents THEN 1 ELSE 0)
    BY <1>2
  <2> QED BY <2>1, <2>2, <2>3, <2>4, <2>5, <2>6
<1>4. <<>> \in Seq(Events) /\ Len(<<>>) = 0
  OBVIOUS
<1>5. Bytes(<<>>) = 0
  <2>1. Bytes(<<>>) = Len(<<>>) + Occurs(<<>>, BodyEvents)
    BY <1>1, <1>4
  <2> QED BY <1>4, <2>1, OccursNowhere
<1>6. ASSUME NEW e \in Events PROVE Bytes(<<e>>) = Cost(e) /\ Cost(e) \in Nat
  <2>1. <<e>> = Append(<<>>, e)
    OBVIOUS
  <2>2. Bytes(Append(<<>>, e)) = Bytes(<<>>) + Cost(e)
    BY <1>3, <1>4
  <2>3. Cost(e) \in Nat
    BY DEF Cost
  <2> QED BY <1>5, <2>1, <2>2, <2>3
<1>7. ASSUME NEW q \in Seq(Events), q # <<>>
      PROVE  Bytes(q) = Bytes(Tail(q)) + Cost(Head(q))
  <2>1. /\ Tail(q) \in Seq(Events) /\ Head(q) \in Events
        /\ Len(q) \in Nat \ {0} /\ Len(Tail(q)) = Len(q) - 1
    BY <1>7
  <2>2. Occurs(q, BodyEvents) =
          Occurs(Tail(q), BodyEvents) + (IF Head(q) \in BodyEvents THEN 1 ELSE 0)
    BY <1>7, OccursInTail
  <2>3. Occurs(q, BodyEvents) \in Nat /\ Occurs(Tail(q), BodyEvents) \in Nat
    BY <2>1, OccursIsNumber
  <2>4. Bytes(q) = Len(q) + Occurs(q, BodyEvents)
    BY <1>1
  <2>5. Bytes(Tail(q)) = Len(Tail(q)) + Occurs(Tail(q), BodyEvents)
    BY <1>1, <2>1
  <2>6. Cost(Head(q)) = 1 + (IF Head(q) \in BodyEvents THEN 1 ELSE 0)
    BY <1>2, <2>1
  <2> QED BY <2>1, <2>2, <2>3, <2>4, <2>5, <2>6
<1> QED BY <1>1, <1>3, <1>5, <1>6, <1>7

QueueTyped ==
  /\ queue \in Seq(Events) /\ hand \in {<<>>} \cup {<<e>> : e \in Events}
  /\ written \in [Sources -> Seq(Events)]
  /\ queued \in 0..QueueBytes /\ Len(queue) <= QueueSlots
  /\ accepted \in Nat /\ failures \in Nat
  /\ closed \in BOOLEAN /\ worker \in {"running", "done"}
  /\ IsFiniteSet(WrittenLines)

QueueInv == QueueTyped /\ (worker = "done" => closed) /\ AcceptedIsAccountedFor

(* The queue is empty at first. *)
LEMMA QueueStarts == AuditInit => QueueInv
<1> SUFFICES ASSUME AuditInit PROVE QueueInv
  OBVIOUS
<1>1. <<>> \in Seq(Events) /\ Len(<<>>) = 0
  OBVIOUS
<1>2. WrittenLines = {}
  <2>1. ASSUME NEW u \in WrittenLines PROVE FALSE
    <3>1. PICK s \in Sources : u \in {<<s, i>> : i \in DOMAIN written[s]}
      BY <2>1 DEF WrittenLines
    <3>2. written[s] = <<>>
      BY DEF AuditInit
    <3> QED BY <3>1, <3>2
  <2> QED BY <2>1
<1>3. IsFiniteSet(WrittenLines) /\ Cardinality(WrittenLines) = 0
  BY <1>2, FS_EmptySet
<1>4. QueueTyped
  <2>1. 0 \in 0..QueueBytes /\ 0 <= QueueSlots
    BY RecorderAssumption
  <2> QED BY <1>1, <1>3, <2>1 DEF AuditInit, QueueTyped
<1>5. Bytes(<<>>) = 0
  BY BytesAreCosts
<1>6. /\ queue = <<>> /\ hand = <<>> /\ accepted = 0 /\ failures = 0 /\ queued = 0
      /\ worker = "running"
  BY DEF AuditInit
<1>7. AcceptedIsAccountedFor
  BY <1>1, <1>3, <1>5, <1>6 DEF AcceptedIsAccountedFor
<1> QED BY <1>4, <1>6, <1>7 DEF QueueInv

(* The recorder takes an event, or drops it. *)
LEMMA EnqueueKeepsQueue ==
  ASSUME QueueInv, NEW e \in Events, Enqueue(e)
  PROVE  QueueInv'
<1> USE DEF QueueInv, QueueTyped
<1>1. CASE ~HasRoom(e)
  BY <1>1 DEF Enqueue, recorderVars, WrittenLines, AcceptedIsAccountedFor
<1>2. CASE HasRoom(e)
  <2>1. /\ queue' = Append(queue, e) /\ queued' = queued + Cost(e) /\ accepted' = accepted + 1
        /\ UNCHANGED <<closed, hand, worker, written, failures>>
    BY <1>2 DEF Enqueue
  <2>2. /\ queue' \in Seq(Events) /\ Len(queue') = Len(queue) + 1 /\ Len(queue') <= QueueSlots
        /\ Bytes(queue') = Bytes(queue) + Cost(e) /\ Cost(e) \in Nat /\ Bytes(queue) \in Nat
    <3>1. queue' \in Seq(Events) /\ Len(queue') = Len(queue) + 1 /\ Len(queue) \in Nat
      BY <2>1
    <3>2. Len(queue) < QueueSlots /\ QueueSlots \in Nat
      BY <1>2, RecorderAssumption DEF HasRoom
    <3>3. Bytes(queue') = Bytes(queue) + Cost(e) /\ Cost(e) \in Nat /\ Bytes(queue) \in Nat
      BY <2>1, BytesAreCosts
    <3> QED BY <3>1, <3>2, <3>3
  <2>3. queued' \in 0..QueueBytes
    BY <1>2, <2>1, <2>2, RecorderAssumption DEF HasRoom
  <2>4. WrittenLines' = WrittenLines
    BY <2>1 DEF WrittenLines
  <2>5. /\ Cardinality(WrittenLines) \in Nat
        /\ Len(queue) \in Nat /\ Len(hand) \in Nat /\ Bytes(hand) \in Nat
    BY BytesAreCosts, FS_CardinalityType
  <2>6. worker # "done"
    BY <1>2 DEF HasRoom
  <2>7. QueueTyped'
    BY <2>1, <2>2, <2>3, <2>4
  <2>8. AcceptedIsAccountedFor'
    <3>1. /\ accepted = Len(queue) + Len(hand) + failures + Cardinality(WrittenLines)
          /\ queued = Bytes(queue) + Bytes(hand)
      BY DEF AcceptedIsAccountedFor
    <3>4. /\ accepted \in Nat /\ failures \in Nat /\ queued \in Nat
          /\ Len(hand') = Len(hand) /\ Bytes(hand') = Bytes(hand) /\ failures' = failures
      BY <2>1
    <3> HIDE DEF QueueInv, QueueTyped
    <3>5. /\ Cardinality(WrittenLines') = Cardinality(WrittenLines)
          /\ accepted' = accepted + 1 /\ Len(queue') = Len(queue) + 1
      BY <2>1, <2>2, <2>4
    <3>2. accepted' = Len(queue') + Len(hand') + failures' + Cardinality(WrittenLines')
      <4>1. accepted = Len(queue) + Len(hand) + failures + Cardinality(WrittenLines)
        BY <3>1
      <4>2. accepted + 1 = (Len(queue) + 1) + Len(hand) + failures + Cardinality(WrittenLines)
        BY <2>5, <3>4, <4>1
      <4> QED BY <3>4, <3>5, <4>2
    <3>3. queued' = Bytes(queue') + Bytes(hand')
      BY <2>1, <2>2, <2>5, <3>1, <3>4
    <3> QED BY <2>1, <2>6, <3>2, <3>3 DEF AcceptedIsAccountedFor
  <2> QED BY <2>1, <2>6, <2>7, <2>8
<1> QED BY <1>1, <1>2

(* What the worker takes goes from the queue into its hand, *)
LEMMA TakeKeepsQueue ==
  ASSUME QueueInv, Take
  PROVE  QueueInv'
<1> USE DEF QueueInv, QueueTyped
<1>1. /\ hand' = <<Head(queue)>> /\ queue' = Tail(queue) /\ queue # <<>> /\ hand = <<>>
      /\ worker = "running"
      /\ UNCHANGED <<queued, closed, worker, accepted, written, failures>>
  BY DEF Take
<1>2. /\ Head(queue) \in Events /\ queue' \in Seq(Events) /\ Len(queue') = Len(queue) - 1
      /\ Len(queue) \in Nat \ {0} /\ Len(hand') = 1 /\ Len(hand) = 0
  BY <1>1
<1>3. /\ Bytes(queue) = Bytes(queue') + Cost(Head(queue))
      /\ Bytes(hand') = Cost(Head(queue)) /\ Bytes(hand) = 0
      /\ Bytes(queue') \in Nat /\ Cost(Head(queue)) \in Nat
  BY <1>1, <1>2, BytesAreCosts
<1>4. WrittenLines' = WrittenLines /\ Cardinality(WrittenLines) \in Nat
  BY <1>1, FS_CardinalityType DEF WrittenLines
<1> QED BY <1>1, <1>2, <1>3, <1>4, RecorderAssumption DEF AcceptedIsAccountedFor

(* One more line of a source. *)
LEMMA LinesGrow ==
  ASSUME QueueTyped, NEW e \in Events,
         written' = [written EXCEPT ![e.source] = Append(@, e)]
  PROVE  /\ written' \in [Sources -> Seq(Events)]
         /\ IsFiniteSet(WrittenLines') /\ Cardinality(WrittenLines') = Cardinality(WrittenLines) + 1
<1> DEFINE s == e.source
           line == <<s, Len(written[s]) + 1>>
<1>1. /\ s \in Sources /\ written[s] \in Seq(Events) /\ Len(written[s]) \in Nat
      /\ written'[s] = Append(written[s], e) /\ written'[s] \in Seq(Events)
      /\ \A r \in Sources \ {s} : written'[r] = written[r]
      /\ written' \in [Sources -> Seq(Events)]
  BY DEF QueueTyped, Events
<1>2. DOMAIN written[s] = 1..Len(written[s]) /\ DOMAIN written'[s] = 1..(Len(written[s]) + 1)
  BY <1>1
<1> HIDE DEF s
<1>3. WrittenLines' = WrittenLines \cup {line}
  <2>1. ASSUME NEW r \in Sources
        PROVE  {<<r, i>> : i \in DOMAIN written'[r]} =
                 {<<r, i>> : i \in DOMAIN written[r]} \cup (IF r = s THEN {line} ELSE {})
    <3>1. CASE r = s
      <4>1. 1..(Len(written[s]) + 1) = (1..Len(written[s])) \cup {Len(written[s]) + 1}
        BY <1>1
      <4> QED BY <1>2, <3>1, <4>1
    <3>2. CASE r # s
      BY <1>1, <3>2
    <3> QED BY <3>1, <3>2
  <2>2. ASSUME NEW u PROVE u \in WrittenLines' <=> u \in WrittenLines \/ u = line
    <3>1. u \in WrittenLines' <=> \E r \in Sources : u \in {<<r, i>> : i \in DOMAIN written'[r]}
      BY DEF WrittenLines
    <3>2. u \in WrittenLines <=> \E r \in Sources : u \in {<<r, i>> : i \in DOMAIN written[r]}
      BY DEF WrittenLines
    <3> QED BY <1>1, <2>1, <3>1, <3>2
  <2> QED BY <2>2
<1>4. line \notin WrittenLines
  BY <1>1, <1>2 DEF WrittenLines
<1>5. IsFiniteSet(WrittenLines)
  BY DEF QueueTyped
<1> HIDE DEF line
<1> QED BY <1>1, <1>3, <1>4, <1>5, FS_AddElement

(* and from there into what was written. *)
LEMMA WriteKeepsQueue ==
  ASSUME QueueInv, WriteEvent
  PROVE  QueueInv'
<1> USE DEF QueueInv, QueueTyped
<1>1. PICK e \in Events : hand = <<e>>
  BY DEF WriteEvent
<1>2. /\ hand' = <<>> /\ queued' = queued - Cost(e) /\ hand[1] = e
      /\ UNCHANGED <<queue, closed, worker, accepted>>
      /\ \/ written' = [written EXCEPT ![e.source] = Append(@, e)] /\ UNCHANGED failures
         \/ failures' = failures + 1 /\ UNCHANGED written
  BY <1>1 DEF WriteEvent
<1>3. /\ Bytes(hand) = Cost(e) /\ Cost(e) \in Nat /\ Bytes(hand') = 0 /\ Bytes(queue) \in Nat
      /\ Len(hand) = 1 /\ Len(hand') = 0 /\ Len(queue) \in Nat
  BY <1>1, <1>2, BytesAreCosts
<1>4. queued' \in 0..QueueBytes /\ queued' = Bytes(queue') + Bytes(hand')
  BY <1>2, <1>3, RecorderAssumption DEF AcceptedIsAccountedFor
<1>5. Cardinality(WrittenLines) \in Nat
  BY FS_CardinalityType
<1>6. CASE written' = [written EXCEPT ![e.source] = Append(@, e)] /\ UNCHANGED failures
  <2>1. /\ written' \in [Sources -> Seq(Events)]
        /\ IsFiniteSet(WrittenLines') /\ Cardinality(WrittenLines') = Cardinality(WrittenLines) + 1
    BY <1>6, LinesGrow
  <2> QED BY <1>2, <1>3, <1>4, <1>5, <1>6, <2>1 DEF AcceptedIsAccountedFor
<1>7. CASE failures' = failures + 1 /\ UNCHANGED written
  <2>1. WrittenLines' = WrittenLines
    BY <1>7 DEF WrittenLines
  <2> QED BY <1>2, <1>3, <1>4, <1>5, <1>7, <2>1 DEF AcceptedIsAccountedFor
<1> QED BY <1>2, <1>6, <1>7

-----------------------------------------------------------------------------
(* The session: what it has read, and what the recorder was told of it. *)

Limits == {"", "limit"}
Losses == {"", "incomplete"}
Bodies == [observed : 0..MaxChunks, captured : 0..MaxChunks,
           reason : Limits, outcome : Outcomes]
ExchangeRecords == [state : ExchangeStates, observed : 0..MaxChunks,
                    reason : Losses, outcome : Outcomes]

SessionTyped ==
  /\ handler \in HandlerStates /\ active \in BOOLEAN /\ matched \in BOOLEAN
  /\ listed \subseteq Exchanges /\ ending \subseteq Exchanges
  /\ body \in Bodies /\ sent \in 0..(MaxChunks + 1)
  /\ exchange \in [Exchanges -> ExchangeRecords]

(* The buffer of the inbound body has every chunk until it says otherwise, and
   Finish emits no more than the buffer has. *)
AllBuffered == body.reason = ""
Captured ==
  /\ body.captured <= body.observed
  /\ AllBuffered => body.captured = body.observed
  /\ handler = "request" /\ sent <= MaxChunks => sent <= body.captured

(* Nothing more is read or emitted of a source. *)
Silent(s) == IF s = Inbound THEN handler = "over" ELSE exchange[s].state = "ended"

(* The recorder has taken everything so far, and how much that is. *)
Sure(s) ==
  IF s = Inbound THEN handler # "over" /\ (handler = "request" => sent <= MaxChunks)
  ELSE exchange[s].reason = "" /\ exchange[s].state # "ended"
StartsDue(s) ==
  IF s = Inbound THEN IF handler = "request" THEN 1 ELSE 0
  ELSE IF exchange[s].state = "none" THEN 0
       ELSE IF exchange[s].state = "sent" THEN 1 ELSE 2
BodiesDue(s) ==
  IF s = Inbound THEN IF handler = "request" THEN sent ELSE 0
  ELSE exchange[s].observed

(* The events of a source and a kind, wherever in the recorder they are. *)
SourceKind(s, k) == {e \in Events : e.source = s /\ e.kind = k}
Seen(s, k) ==
  Occurs(written[s], SourceKind(s, k)) + Occurs(hand, SourceKind(s, k))
    + Occurs(queue, SourceKind(s, k))
Holds(q, e) == \E i \in DOMAIN q : q[i] = e
SeenEnds(s) ==
  {e \in SourceKind(s, "end") : Holds(written[s], e) \/ Holds(hand, e) \/ Holds(queue, e)}

IsEnd(e, s) == e.source = s /\ e.kind = "end"
NothingOf(q, s) == \A i \in DOMAIN q : q[i].source # s

(* Behind the end of a source the recorder has nothing of it. *)
InOrder(s) ==
  /\ \A i \in DOMAIN written[s] :
       /\ written[s][i].source = s
       /\ written[s][i].kind = "end" =>
            i = Len(written[s]) /\ NothingOf(hand, s) /\ NothingOf(queue, s)
  /\ \A i \in DOMAIN hand : IsEnd(hand[i], s) => NothingOf(queue, s)
  /\ \A i, j \in DOMAIN queue : IsEnd(queue[i], s) /\ i < j => queue[j].source # s

(* What the record of a source is worth. *)
Recorded(s) ==
  /\ InOrder(s)
  /\ SeenEnds(s) # {} => Silent(s)
  /\ failures = 0 /\ Sure(s) =>
       Seen(s, "start") = StartsDue(s) /\ Seen(s, "body") = BodiesDue(s)
  /\ failures = 0 /\ (\E e \in SeenEnds(s) : ~e.incomplete) =>
       Seen(s, "start") = StartsOf(s) /\ Seen(s, "body") = Observed(s)

RecorderInv == QueueInv /\ SessionTyped /\ Captured /\ \A s \in Sources : Recorded(s)

(* What is queued, in hand or written are sequences of events, which can be
   counted. *)
LEMMA RecorderParts ==
  ASSUME QueueTyped, NEW s \in Sources
  PROVE  /\ queue \in Seq(Events) /\ written[s] \in Seq(Events) /\ hand \in Seq(Events)
         /\ \A k : Seen(s, k) \in Nat
<1>1. \A e \in Events : <<e>> \in Seq(Events)
  OBVIOUS
<1>2. <<>> \in Seq(Events)
  OBVIOUS
<1>3. hand \in Seq(Events)
  <2>1. CASE hand = <<>>
    BY <1>2, <2>1
  <2>2. ASSUME NEW e \in Events, hand = <<e>> PROVE hand \in Seq(Events)
    BY <1>1, <2>2
  <2> QED BY <2>1, <2>2 DEF QueueTyped
<1>4. queue \in Seq(Events) /\ written[s] \in Seq(Events)
  BY DEF QueueTyped
<1>5. ASSUME NEW k PROVE Seen(s, k) \in Nat
  BY <1>3, <1>4, OccursIsNumber DEF Seen
<1> QED BY <1>3, <1>4, <1>5

(* What the recorder has of a source when it takes an event, or drops it. *)
LEMMA EnqueueIsSeen ==
  ASSUME QueueTyped, NEW e \in Events, Enqueue(e), NEW s \in Sources
  PROVE  /\ failures' = failures
         /\ ~HasRoom(e) \/ e.source # s => SeenEnds(s)' = SeenEnds(s)
         /\ SeenEnds(s)' \subseteq SeenEnds(s) \cup (IF IsEnd(e, s) THEN {e} ELSE {})
         /\ \A k \in {"start", "body", "end"} :
              Seen(s, k)' = Seen(s, k)
                + IF HasRoom(e) /\ e.source = s /\ e.kind = k THEN 1 ELSE 0
         /\ InOrder(s) /\ (e.source = s => SeenEnds(s) = {}) => InOrder(s)'
<1>1. CASE ~HasRoom(e)
  <2>1. UNCHANGED <<written, hand, queue, failures>>
    BY <1>1 DEF Enqueue, recorderVars
  <2>2. Seen(s, "start") \in Nat /\ Seen(s, "body") \in Nat /\ Seen(s, "end") \in Nat
    BY RecorderParts
  <2> QED BY <1>1, <2>1, <2>2 DEF Seen, SeenEnds, InOrder, Holds, NothingOf
<1>2. CASE HasRoom(e)
  <2>1. queue' = Append(queue, e) /\ UNCHANGED <<written, hand, failures>>
    BY <1>2 DEF Enqueue
  <2>2. /\ written[s] \in Seq(Events) /\ hand \in Seq(Events) /\ queue \in Seq(Events)
        /\ queue' \in Seq(Events)
    BY <2>1, RecorderParts
  <2>3. /\ Len(queue) \in Nat
        /\ DOMAIN queue = 1..Len(queue) /\ DOMAIN queue' = 1..(Len(queue) + 1)
        /\ \A i \in 1..Len(queue) : queue'[i] = queue[i]
        /\ queue'[Len(queue) + 1] = e
        /\ \A i \in 1..(Len(queue) + 1) : i \in 1..Len(queue) \/ i = Len(queue) + 1
        /\ 1..Len(queue) \subseteq 1..(Len(queue) + 1)
        /\ Len(queue) + 1 \in 1..(Len(queue) + 1)
    BY <2>1, <2>2
  <2>4. ASSUME NEW x PROVE Holds(queue, x)' <=> Holds(queue, x) \/ x = e
    BY <2>3 DEF Holds
  <2>5. SeenEnds(s)' = SeenEnds(s) \cup (IF IsEnd(e, s) THEN {e} ELSE {})
    BY <2>1, <2>4 DEF SeenEnds, IsEnd, SourceKind, Holds
  <2>6. ASSUME NEW k \in {"start", "body", "end"}
        PROVE  Seen(s, k)' = Seen(s, k) + IF e.source = s /\ e.kind = k THEN 1 ELSE 0
    <3>1. e \in SourceKind(s, k) <=> e.source = s /\ e.kind = k
      BY DEF SourceKind
    <3>2. Occurs(queue', SourceKind(s, k)) =
            Occurs(queue, SourceKind(s, k)) + IF e \in SourceKind(s, k) THEN 1 ELSE 0
      BY <2>1, <2>2, OccursInAppend
    <3>3. /\ Occurs(queue, SourceKind(s, k)) \in Nat /\ Occurs(hand, SourceKind(s, k)) \in Nat
          /\ Occurs(written[s], SourceKind(s, k)) \in Nat
      BY <2>2, OccursIsNumber
    <3>4. /\ Occurs(hand', SourceKind(s, k)) = Occurs(hand, SourceKind(s, k))
          /\ Occurs(written'[s], SourceKind(s, k)) = Occurs(written[s], SourceKind(s, k))
      BY <2>1
    <3> QED BY <3>1, <3>2, <3>3, <3>4 DEF Seen
  <2>7. ASSUME InOrder(s), e.source = s => SeenEnds(s) = {} PROVE InOrder(s)'
    <3>1. CASE e.source = s
      <4>0. SeenEnds(s) = {}
        BY <2>7, <3>1
      <4>1. /\ \A i \in DOMAIN written[s] : ~IsEnd(written[s][i], s)
            /\ \A i \in DOMAIN hand : ~IsEnd(hand[i], s)
            /\ \A i \in DOMAIN queue : ~IsEnd(queue[i], s)
        BY <2>2, <4>0 DEF SeenEnds, SourceKind, IsEnd, Holds
      <4>2. \A i, j \in DOMAIN queue' : IsEnd(queue'[i], s) /\ i < j => queue'[j].source # s
        BY <2>3, <4>1
      <4>3. \A i \in DOMAIN written[s] : written[s][i].source = s /\ written[s][i].kind # "end"
        BY <2>7, <4>1 DEF InOrder, IsEnd
      <4> QED BY <2>1, <4>1, <4>2, <4>3 DEF InOrder
    <3>2. CASE e.source # s
      <4>1. NothingOf(queue, s) => NothingOf(queue, s)'
        BY <2>3, <3>2 DEF NothingOf
      <4>2. \A i, j \in DOMAIN queue' : IsEnd(queue'[i], s) /\ i < j => queue'[j].source # s
        BY <2>3, <2>7, <3>2 DEF InOrder, IsEnd
      <4>3. NothingOf(hand, s)' <=> NothingOf(hand, s)
        BY <2>1 DEF NothingOf
      <4> QED BY <2>1, <2>7, <4>1, <4>2, <4>3 DEF InOrder
    <3> QED BY <3>1, <3>2
  <2> QED BY <1>2, <2>1, <2>5, <2>6, <2>7 DEF IsEnd
<1> QED BY <1>1, <1>2

(* The worker's hand holds the event that was first in the queue. *)
LEMMA TakeIsSeen ==
  ASSUME QueueTyped, Take, NEW s \in Sources
  PROVE  /\ failures' = failures /\ SeenEnds(s)' = SeenEnds(s)
         /\ \A k : Seen(s, k)' = Seen(s, k)
         /\ InOrder(s) => InOrder(s)'
<1> DEFINE e == Head(queue)
<1>1. /\ queue # <<>> /\ hand = <<>> /\ hand' = <<e>> /\ queue' = Tail(queue)
      /\ UNCHANGED <<written, failures>>
  BY DEF Take
<1>2. queue \in Seq(Events) /\ written[s] \in Seq(Events)
  BY RecorderParts
<1>3. /\ Len(queue) \in Nat \ {0} /\ DOMAIN queue = 1..Len(queue) /\ queue[1] = e
      /\ DOMAIN queue' = 1..(Len(queue) - 1) /\ queue' \in Seq(Events) /\ e \in Events
      /\ \A i \in 1..(Len(queue) - 1) : queue'[i] = queue[i + 1] /\ i + 1 \in 1..Len(queue)
      /\ \A i \in 1..Len(queue) : i = 1 \/ (i - 1 \in 1..(Len(queue) - 1) /\ queue[i] = queue'[i - 1])
      /\ 1 \in 1..Len(queue)
      /\ DOMAIN hand = {} /\ DOMAIN hand' = {1} /\ hand'[1] = e
  <2>1. /\ Len(queue) \in Nat \ {0} /\ DOMAIN queue = 1..Len(queue) /\ queue[1] = e
        /\ e \in Events
    BY <1>1, <1>2
  <2>2. /\ queue' \in Seq(Events) /\ Len(queue') = Len(queue) - 1
        /\ DOMAIN queue' = 1..(Len(queue) - 1)
    BY <1>1, <1>2
  <2>3. \A i \in 1..(Len(queue) - 1) : queue'[i] = queue[i + 1] /\ i + 1 \in 1..Len(queue)
    BY <1>1, <1>2
  <2>4. \A i \in 1..Len(queue) : i = 1 \/ (i - 1 \in 1..(Len(queue) - 1) /\ queue[i] = queue'[i - 1])
    <3> TAKE i \in 1..Len(queue)
    <3>1. CASE i # 1
      <4>1. i - 1 \in 1..(Len(queue) - 1) /\ (i - 1) + 1 = i
        BY <2>1, <3>1
      <4> QED BY <2>3, <4>1
    <3> QED BY <3>1
  <2>5. DOMAIN hand = {} /\ DOMAIN hand' = {1} /\ hand'[1] = e
    BY <1>1
  <2> HIDE DEF e
  <2>6. 1 \in 1..Len(queue)
    BY <2>1
  <2> QED BY <2>1, <2>2, <2>3, <2>4, <2>5, <2>6, Zenon
<1> HIDE DEF e
<1>4. ASSUME NEW x
      PROVE  Holds(hand, x)' \/ Holds(queue, x)' <=> Holds(hand, x) \/ Holds(queue, x)
  <2>1. Holds(hand, x)' <=> x = e
    BY <1>3 DEF Holds
  <2>2. ~Holds(hand, x)
    BY <1>3 DEF Holds
  <2>3. Holds(queue, x) <=> Holds(queue, x)' \/ x = e
    BY <1>3 DEF Holds
  <2> QED BY <2>1, <2>2, <2>3
<1>5. SeenEnds(s)' = SeenEnds(s)
  <2>1. \A x : Holds(written[s], x)' <=> Holds(written[s], x)
    BY <1>1 DEF Holds
  <2> QED BY <1>4, <2>1 DEF SeenEnds
<1>6. ASSUME NEW k PROVE Seen(s, k)' = Seen(s, k)
  <2> DEFINE E == SourceKind(s, k)
  <2>1. Occurs(queue, E) = Occurs(queue', E) + IF e \in E THEN 1 ELSE 0
    BY <1>1, <1>2, OccursInTail DEF e
  <2>2. Occurs(hand, E) = 0
    BY <1>1, OccursNowhere
  <2>3. Occurs(hand', E) = IF e \in E THEN 1 ELSE 0
    <3>1. hand' = Append(<<>>, e) /\ <<>> \in Seq(Events)
      BY <1>1 DEF e
    <3>2. Occurs(Append(<<>>, e), E) = Occurs(<<>>, E) + IF e \in E THEN 1 ELSE 0
      BY <1>3, <3>1, OccursInAppend
    <3> QED BY <3>1, <3>2, OccursNowhere
  <2>4. Occurs(written'[s], E) = Occurs(written[s], E)
    BY <1>1
  <2>5. Occurs(queue', E) \in Nat /\ Occurs(written[s], E) \in Nat
    BY <1>2, <1>3, OccursIsNumber
  <2> HIDE DEF E
  <2>6. Occurs(written'[s], E) + Occurs(hand', E) + Occurs(queue', E)
          = Occurs(written[s], E) + Occurs(hand, E) + Occurs(queue, E)
    BY <2>1, <2>2, <2>3, <2>4, <2>5
  <2> QED BY <2>6 DEF Seen, E
<1>7. ASSUME InOrder(s) PROVE InOrder(s)'
  <2>1. NothingOf(queue, s) => NothingOf(queue, s)' /\ NothingOf(hand, s)'
    BY <1>3 DEF NothingOf
  <2>2. IsEnd(e, s) => NothingOf(queue, s)'
    <3>1. ASSUME IsEnd(e, s), NEW i \in 1..(Len(queue) - 1) PROVE queue'[i].source # s
      <4>1. 1 < i + 1 /\ i + 1 \in DOMAIN queue /\ 1 \in DOMAIN queue
        BY <1>3, <3>1
      <4> QED BY <1>3, <1>7, <3>1, <4>1 DEF InOrder
    <3> QED BY <1>3, <3>1 DEF NothingOf
  <2>3. ASSUME NEW i \in DOMAIN queue', NEW j \in DOMAIN queue', IsEnd(queue'[i], s), i < j
        PROVE  queue'[j].source # s
    <3>1. i + 1 < j + 1 /\ i + 1 \in DOMAIN queue /\ j + 1 \in DOMAIN queue
      BY <1>3, <2>3
    <3> QED BY <1>3, <1>7, <2>3, <3>1 DEF InOrder
  <2> QED BY <1>1, <1>3, <1>7, <2>1, <2>2, <2>3 DEF InOrder
<1> QED BY <1>1, <1>5, <1>6, <1>7

(* What is written was in the hand; after a write error the record is short. *)
LEMMA WriteIsSeen ==
  ASSUME QueueTyped, WriteEvent, NEW s \in Sources
  PROVE  /\ SeenEnds(s)' \subseteq SeenEnds(s)
         /\ \/ failures' = failures /\ \A k : Seen(s, k)' = Seen(s, k)
            \/ failures' # 0
         /\ InOrder(s) => InOrder(s)'
<1>1. PICK e \in Events : hand = <<e>>
  BY DEF WriteEvent, QueueTyped
<1>2. /\ hand' = <<>> /\ UNCHANGED queue
      /\ \/ written' = [written EXCEPT ![e.source] = Append(@, e)] /\ UNCHANGED failures
         \/ failures' = failures + 1 /\ UNCHANGED written
  BY <1>1 DEF WriteEvent
<1>3. /\ queue \in Seq(Events) /\ written[s] \in Seq(Events) /\ failures \in Nat
      /\ written \in [Sources -> Seq(Events)]
  BY RecorderParts DEF QueueTyped
<1>4. /\ DOMAIN hand = {1} /\ hand[1] = e /\ DOMAIN hand' = {}
  BY <1>1, <1>2
<1>5. CASE UNCHANGED written /\ failures' = failures + 1
  <2>1. failures' # 0
    BY <1>3, <1>5
  <2>2. SeenEnds(s)' \subseteq SeenEnds(s)
    BY <1>2, <1>4, <1>5 DEF SeenEnds, Holds
  <2>3. NothingOf(hand, s)'
    BY <1>4 DEF NothingOf
  <2>4. NothingOf(queue, s)' <=> NothingOf(queue, s)
    BY <1>2 DEF NothingOf
  <2>5. InOrder(s) => InOrder(s)'
    BY <1>2, <1>4, <1>5, <2>3, <2>4 DEF InOrder
  <2> QED BY <2>1, <2>2, <2>5
<1>6. CASE written' = [written EXCEPT ![e.source] = Append(@, e)] /\ UNCHANGED failures
  <2>1. written'[s] = IF s = e.source THEN Append(written[s], e) ELSE written[s]
    BY <1>3, <1>6
  <2>2. /\ Len(written[s]) \in Nat
        /\ DOMAIN written[s] = 1..Len(written[s])
        /\ s = e.source =>
             /\ DOMAIN written'[s] = 1..(Len(written[s]) + 1)
             /\ \A i \in 1..Len(written[s]) : written'[s][i] = written[s][i]
             /\ written'[s][Len(written[s]) + 1] = e
             /\ Len(written'[s]) = Len(written[s]) + 1
        /\ \A i \in 1..(Len(written[s]) + 1) : i \in 1..Len(written[s]) \/ i = Len(written[s]) + 1
        /\ 1..Len(written[s]) \subseteq 1..(Len(written[s]) + 1)
        /\ Len(written[s]) + 1 \in 1..(Len(written[s]) + 1)
    BY <1>3, <2>1
  <2>3. ASSUME NEW x, x.source = s
        PROVE  Holds(written[s], x)' \/ Holds(hand, x)' => Holds(written[s], x) \/ Holds(hand, x)
    <3>1. Holds(hand, x) <=> x = e
      BY <1>4 DEF Holds
    <3>2. ~Holds(hand, x)'
      BY <1>4 DEF Holds
    <3>3. Holds(written[s], x)' => Holds(written[s], x) \/ x = e
      BY <2>1, <2>2 DEF Holds
    <3> QED BY <3>1, <3>2, <3>3
  <2>4. SeenEnds(s)' \subseteq SeenEnds(s)
    <3>1. ASSUME NEW x \in SeenEnds(s)' PROVE x \in SeenEnds(s)
      <4>1. x \in SourceKind(s, "end") /\ x.source = s
        BY <3>1 DEF SeenEnds, SourceKind
      <4>2. Holds(written[s], x)' \/ Holds(hand, x)' \/ Holds(queue, x)'
        BY <3>1 DEF SeenEnds
      <4>3. Holds(queue, x)' <=> Holds(queue, x)
        BY <1>2 DEF Holds
      <4> QED BY <2>3, <4>1, <4>2, <4>3 DEF SeenEnds
    <3> QED BY <3>1
  <2>5. ASSUME NEW k PROVE Seen(s, k)' = Seen(s, k)
    <3> DEFINE E == SourceKind(s, k)
    <3>1. Occurs(written'[s], E) =
            Occurs(written[s], E) + IF s = e.source /\ e \in E THEN 1 ELSE 0
      <4>1. Occurs(written[s], E) \in Nat
        BY <1>3, OccursIsNumber
      <4> QED BY <1>3, <2>1, <4>1, OccursInAppend
    <3>2. Occurs(hand, E) = IF e \in E THEN 1 ELSE 0
      <4>1. hand = Append(<<>>, e) /\ <<>> \in Seq(Events)
        BY <1>1
      <4>2. Occurs(Append(<<>>, e), E) = Occurs(<<>>, E) + IF e \in E THEN 1 ELSE 0
        BY <4>1, OccursInAppend
      <4> QED BY <4>1, <4>2, OccursNowhere
    <3>3. Occurs(hand', E) = 0
      BY <1>2, OccursNowhere
    <3>4. Occurs(queue', E) = Occurs(queue, E)
      BY <1>2
    <3>5. Occurs(queue, E) \in Nat /\ Occurs(written[s], E) \in Nat
      BY <1>3, OccursIsNumber
    <3>6. e \in E => s = e.source
      BY DEF SourceKind
    <3> HIDE DEF E
    <3>7. Occurs(written'[s], E) + Occurs(hand', E) + Occurs(queue', E)
            = Occurs(written[s], E) + Occurs(hand, E) + Occurs(queue, E)
      BY <3>1, <3>2, <3>3, <3>4, <3>5, <3>6
    <3> QED BY <3>7 DEF Seen, E
  <2>6. ASSUME InOrder(s) PROVE InOrder(s)'
    <3>1. NothingOf(hand, s)'
      BY <1>4 DEF NothingOf
    <3>2. NothingOf(queue, s)' <=> NothingOf(queue, s)
      BY <1>2 DEF NothingOf
    <3>3. IsEnd(e, s) => NothingOf(queue, s)
      BY <1>4, <2>6 DEF InOrder
    <3>4. s = e.source => ~NothingOf(hand, s)
      BY <1>4 DEF NothingOf
    <3>5. ASSUME NEW i \in DOMAIN written'[s]
          PROVE  /\ written'[s][i].source = s
                 /\ written'[s][i].kind = "end" => i = Len(written'[s]) /\ NothingOf(queue, s)
      <4>1. CASE s # e.source
        BY <2>1, <2>6, <3>5, <4>1 DEF InOrder
      <4>2. CASE s = e.source /\ i \in 1..Len(written[s])
        BY <2>2, <2>6, <3>4, <4>2 DEF InOrder
      <4>3. CASE s = e.source /\ i = Len(written[s]) + 1
        BY <2>2, <3>3, <4>3 DEF IsEnd
      <4> QED BY <2>2, <3>5, <4>1, <4>2, <4>3
    <3> QED BY <1>2, <1>4, <2>6, <3>1, <3>2, <3>5 DEF InOrder
  <2> QED BY <1>6, <2>4, <2>5, <2>6
<1> QED BY <1>2, <1>5, <1>6

(* A source of which no more is told: what was due of it is due still, unless
   it is no longer sure, and what has ended stays as it ended. *)
Quiet(s) ==
  /\ Silent(s) => Silent(s)' /\ Observed(s)' = Observed(s)
  /\ Sure(s)' => Sure(s) /\ StartsDue(s)' = StartsDue(s) /\ BodiesDue(s)' = BodiesDue(s)

(* A step keeps the record of a source of which the recorder sees no more. *)
LEMMA QuietKeepsRecord ==
  ASSUME NEW s \in Sources, Recorded(s), Quiet(s), InOrder(s)', SeenEnds(s)' \subseteq SeenEnds(s),
         \/ failures' = failures /\ \A k \in {"start", "body"} : Seen(s, k)' = Seen(s, k)
         \/ failures' # 0
  PROVE  Recorded(s)'
<1>1. (SeenEnds(s) # {})' => Silent(s) /\ Silent(s)'
  BY DEF Recorded, Quiet
<1>2. ASSUME (failures = 0 /\ Sure(s))'
      PROVE  (Seen(s, "start") = StartsDue(s) /\ Seen(s, "body") = BodiesDue(s))'
  BY <1>2 DEF Recorded, Quiet
<1>3. ASSUME (failures = 0 /\ \E e \in SeenEnds(s) : ~e.incomplete)'
      PROVE  (Seen(s, "start") = StartsOf(s) /\ Seen(s, "body") = Observed(s))'
  <2>1. PICK e \in SeenEnds(s) : ~e.incomplete
    BY <1>3
  <2>2. failures = 0 /\ Seen(s, "start")' = Seen(s, "start") /\ Seen(s, "body")' = Seen(s, "body")
    BY <1>3
  <2>3. Seen(s, "start") = StartsOf(s) /\ Seen(s, "body") = Observed(s)
    BY <2>1, <2>2 DEF Recorded
  <2>4. Observed(s)' = Observed(s)
    BY <2>1 DEF Recorded, Quiet
  <2>5. StartsOf(s)' = StartsOf(s)
    BY DEF StartsOf
  <2> QED BY <2>2, <2>3, <2>4, <2>5
<1> QED BY <1>1, <1>2, <1>3 DEF Recorded

(* A step of the session that tells the recorder nothing. *)
LEMMA NothingIsTold ==
  ASSUME QueueInv, \A s \in Sources : Recorded(s), UNCHANGED recorderVars,
         \A s \in Sources : Quiet(s)
  PROVE  QueueInv' /\ \A s \in Sources : Recorded(s)'
<1>1. QueueInv'
  BY DEF QueueInv, QueueTyped, recorderVars, AcceptedIsAccountedFor, WrittenLines
<1>2. ASSUME NEW s \in Sources PROVE Recorded(s)'
  <2>1. UNCHANGED <<written, hand, queue, failures>>
    BY DEF recorderVars
  <2>2. SeenEnds(s)' = SeenEnds(s) /\ \A k : Seen(s, k)' = Seen(s, k)
    BY <2>1 DEF SeenEnds, Seen, Holds
  <2>3. InOrder(s)'
    BY <2>1 DEF Recorded, InOrder, NothingOf
  <2> QED BY <2>1, <2>2, <2>3, QuietKeepsRecord
<1> QED BY <1>1, <1>2

(* A step of the recorder alone. *)
LEMMA RecorderGoesOn ==
  ASSUME QueueInv, \A s \in Sources : Recorded(s), UNCHANGED sessionVars,
         Take \/ WriteEvent \/ CloseRecorder \/ WorkerEnds
  PROVE  QueueInv' /\ \A s \in Sources : Recorded(s)'
<1>1. ASSUME NEW s \in Sources PROVE Quiet(s)
  BY DEF sessionVars, Quiet, Silent, Observed, Sure, StartsDue, BodiesDue
<1>2. CASE Take
  BY <1>1, <1>2, TakeKeepsQueue, TakeIsSeen, QuietKeepsRecord DEF QueueInv, Recorded
<1>3. CASE WriteEvent
  <2>1. ASSUME NEW s \in Sources PROVE Recorded(s)'
    <3>1. /\ SeenEnds(s)' \subseteq SeenEnds(s) /\ InOrder(s)'
          /\ \/ failures' = failures /\ \A k : Seen(s, k)' = Seen(s, k)
             \/ failures' # 0
      BY <1>3, WriteIsSeen DEF QueueInv, Recorded
    <3> QED BY <1>1, <3>1, QuietKeepsRecord
  <2> QED BY <1>3, <2>1, WriteKeepsQueue
<1>4. CASE CloseRecorder \/ WorkerEnds
  <2>1. UNCHANGED <<queue, queued, hand, accepted, written, failures>>
    BY <1>4 DEF CloseRecorder, WorkerEnds
  <2>2. closed' \in BOOLEAN /\ worker' \in {"running", "done"}
    BY <1>4 DEF CloseRecorder, WorkerEnds, QueueInv, QueueTyped
  <2>3. worker' = "done" => closed' /\ queue = <<>> /\ hand = <<>>
    BY <1>4 DEF CloseRecorder, WorkerEnds, QueueInv, AcceptedIsAccountedFor
  <2>4. QueueInv'
    BY <2>1, <2>2, <2>3 DEF QueueInv, QueueTyped, AcceptedIsAccountedFor, WrittenLines
  <2>5. ASSUME NEW s \in Sources PROVE Recorded(s)'
    <3>1. SeenEnds(s)' = SeenEnds(s) /\ \A k : Seen(s, k)' = Seen(s, k)
      BY <2>1 DEF SeenEnds, Seen, Holds
    <3>2. InOrder(s)'
      BY <2>1 DEF Recorded, InOrder, NothingOf
    <3> QED BY <1>1, <2>1, <3>1, <3>2, QuietKeepsRecord
  <2> QED BY <2>4, <2>5
<1> QED BY <1>2, <1>3, <1>4

(* A step of the session that emits an event of a source that has not ended. *)
LEMMA EventIsTold ==
  ASSUME QueueInv, \A s \in Sources : Recorded(s), NEW e \in Events, Enqueue(e),
         ~Silent(e.source),
         \A s \in Sources \ {e.source} : Quiet(s),
         Sure(e.source)' =>
           /\ Sure(e.source) /\ HasRoom(e) /\ e.kind # "end"
           /\ StartsDue(e.source)' = StartsDue(e.source) + IF e.kind = "start" THEN 1 ELSE 0
           /\ BodiesDue(e.source)' = BodiesDue(e.source) + IF e.kind = "body" THEN 1 ELSE 0,
         e.kind = "end" =>
           /\ Silent(e.source)'
           /\ ~e.incomplete =>
                /\ Sure(e.source) /\ StartsDue(e.source) = StartsOf(e.source)
                /\ BodiesDue(e.source) = Observed(e.source)'
  PROVE  QueueInv' /\ \A s \in Sources : Recorded(s)'
<1>1. QueueInv'
  BY EnqueueKeepsQueue
<1>2. ASSUME NEW s \in Sources, s # e.source PROVE Recorded(s)'
  <2>1. ~IsEnd(e, s)
    BY <1>2 DEF IsEnd
  <2>2. /\ failures' = failures /\ SeenEnds(s)' \subseteq SeenEnds(s)
        /\ \A k \in {"start", "body"} : Seen(s, k)' = Seen(s, k)
        /\ InOrder(s)'
    <3>1. \A k : Seen(s, k) \in Nat
      BY RecorderParts DEF QueueInv
    <3> QED BY <1>2, <3>1, EnqueueIsSeen DEF QueueInv, Recorded
  <2> QED BY <1>2, <2>2, QuietKeepsRecord
<1>3. ASSUME NEW s, s = e.source PROVE Recorded(s)'
  <2>1. s \in Sources /\ SeenEnds(s) = {} /\ Recorded(s)
    BY <1>3 DEF Events, Recorded
  <2>2. /\ failures' = failures
        /\ SeenEnds(s)' \subseteq IF e.kind = "end" THEN {e} ELSE {}
        /\ \A k \in {"start", "body"} :
             Seen(s, k)' = Seen(s, k) + IF HasRoom(e) /\ e.kind = k THEN 1 ELSE 0
        /\ InOrder(s)'
    BY <1>3, <2>1, EnqueueIsSeen DEF QueueInv, Recorded, IsEnd
  <2>3. ASSUME (failures = 0 /\ Sure(s))'
        PROVE  (Seen(s, "start") = StartsDue(s) /\ Seen(s, "body") = BodiesDue(s))'
    <3>1. /\ Sure(s) /\ HasRoom(e)
          /\ StartsDue(s)' = StartsDue(s) + IF e.kind = "start" THEN 1 ELSE 0
          /\ BodiesDue(s)' = BodiesDue(s) + IF e.kind = "body" THEN 1 ELSE 0
      BY <1>3, <2>3
    <3>2. Seen(s, "start") = StartsDue(s) /\ Seen(s, "body") = BodiesDue(s)
      BY <2>1, <2>2, <2>3, <3>1 DEF Recorded
    <3> QED BY <2>2, <3>1, <3>2
  <2>4. ASSUME (failures = 0 /\ \E x \in SeenEnds(s) : ~x.incomplete)'
        PROVE  (Seen(s, "start") = StartsOf(s) /\ Seen(s, "body") = Observed(s))'
    <3>1. e.kind = "end" /\ ~e.incomplete
      BY <2>2, <2>4
    <3>2. Sure(s) /\ StartsDue(s) = StartsOf(s) /\ BodiesDue(s) = Observed(s)'
      BY <1>3, <3>1
    <3>3. Seen(s, "start") = StartsDue(s) /\ Seen(s, "body") = BodiesDue(s)
      BY <2>1, <2>2, <2>4, <3>2 DEF Recorded
    <3>4. Seen(s, "start")' = Seen(s, "start") /\ Seen(s, "body")' = Seen(s, "body")
      <4>1. Seen(s, "start") \in Nat /\ Seen(s, "body") \in Nat
        BY <2>1, RecorderParts DEF QueueInv
      <4> QED BY <2>2, <3>1, <4>1
    <3>5. StartsOf(s)' = StartsOf(s)
      BY DEF StartsOf
    <3> QED BY <3>2, <3>3, <3>4, <3>5
  <2>5. (SeenEnds(s) # {})' => Silent(s)'
    BY <1>3, <2>2
  <2> QED BY <2>2, <2>3, <2>4, <2>5 DEF Recorded
<1> QED BY <1>1, <1>2, <1>3

(* Nothing has been observed at first. *)
LEMMA RecorderStarts == AuditInit => RecorderInv
<1> SUFFICES ASSUME AuditInit PROVE RecorderInv
  OBVIOUS
<1>1. QueueInv
  BY QueueStarts
<1>2. 0 \in 0..MaxChunks /\ 0 \in 0..(MaxChunks + 1)
  BY RecorderAssumption
<1>3. SessionTyped /\ Captured
  <2>1. body \in Bodies /\ body.observed = 0 /\ body.captured = 0
    BY <1>2 DEF AuditInit, Bodies, Limits, Outcomes
  <2>2. exchange \in [Exchanges -> ExchangeRecords]
    BY <1>2 DEF AuditInit, ExchangeRecords, Losses, ExchangeStates, Outcomes
  <2>3. SessionTyped
    BY <1>2, <2>1, <2>2 DEF AuditInit, SessionTyped, HandlerStates
  <2>4. handler # "request"
    BY DEF AuditInit
  <2>5. Captured
    BY <2>1, <2>4 DEF Captured
  <2> QED BY <2>3, <2>5
<1>4. ASSUME NEW s \in Sources PROVE Recorded(s)
  <2>1. written[s] = <<>> /\ hand = <<>> /\ queue = <<>>
    BY DEF AuditInit
  <2>2. SeenEnds(s) = {} /\ InOrder(s)
    BY <2>1 DEF SeenEnds, Holds, InOrder
  <2>3. Seen(s, "start") = 0 /\ Seen(s, "body") = 0
    BY <2>1, OccursNowhere DEF Seen
  <2>4. StartsDue(s) = 0 /\ BodiesDue(s) = 0
    BY DEF AuditInit, StartsDue, BodiesDue, Sources
  <2> QED BY <2>2, <2>3, <2>4 DEF Recorded
<1> QED BY <1>1, <1>3, <1>4 DEF RecorderInv

(* The steps of an exchange: a record of it changes, and an event is emitted. *)
LEMMA ExchangeMoves ==
  ASSUME RecorderInv, NEW e \in Exchanges, NEW r \in ExchangeRecords,
         exchange' = [exchange EXCEPT ![e] = r], exchange[e].state # "ended",
         UNCHANGED <<handler, body, sent>>, active' \in BOOLEAN, matched' \in BOOLEAN,
         listed' \subseteq Exchanges, ending' \subseteq Exchanges
  PROVE  /\ SessionTyped' /\ Captured'
         /\ exchange'[e] = r /\ e \in Sources /\ e # Inbound /\ ~Silent(e)
         /\ \A s \in Sources \ {e} : Quiet(s)
         /\ r.state = "ended" \/ r.reason # "" => Quiet(e)
<1>1. e # Inbound /\ e \in Sources
  BY RecorderAssumption DEF Sources
<1>2. exchange'[e] = r /\ \A d \in Exchanges \ {e} : exchange'[d] = exchange[d]
  BY DEF RecorderInv, SessionTyped
<1>3. SessionTyped' /\ Captured'
  BY DEF RecorderInv, SessionTyped, Captured, AllBuffered
<1>4. ASSUME NEW s \in Sources \ {e} PROVE Quiet(s)
  <2>1. CASE s = Inbound
    BY <2>1 DEF Quiet, Silent, Sure, Observed, StartsDue, BodiesDue
  <2>2. CASE s # Inbound
    <3>1. s \in Exchanges /\ exchange'[s] = exchange[s]
      BY <1>2, <1>4, <2>2 DEF Sources
    <3>2. (Silent(s)' <=> Silent(s)) /\ (Sure(s)' <=> Sure(s))
      BY <2>2, <3>1 DEF Silent, Sure
    <3>3. /\ Observed(s)' = Observed(s) /\ BodiesDue(s)' = BodiesDue(s)
          /\ StartsDue(s)' = StartsDue(s)
      BY <2>2, <3>1 DEF Observed, StartsDue, BodiesDue
    <3> QED BY <3>2, <3>3 DEF Quiet
  <2> QED BY <2>1, <2>2
<1>5. ~Silent(e) /\ (r.state = "ended" \/ r.reason # "" => Quiet(e))
  BY <1>1, <1>2 DEF Quiet, Silent, Sure
<1> QED BY <1>1, <1>2, <1>3, <1>4, <1>5

(* An exchange that ends emits its last event, whichever handler ends it. *)
LEMMA FinishKeeps ==
  ASSUME RecorderInv, NEW e \in Exchanges, NEW outcome \in Outcomes, FinishLocked(e, outcome),
         exchange[e].state # "ended",
         outcome = "eof" => exchange[e].state \in {"open", "reading"},
         UNCHANGED <<handler, body, sent>>, active' \in BOOLEAN, matched' \in BOOLEAN,
         listed' \subseteq Exchanges, ending' \subseteq Exchanges
  PROVE  RecorderInv'
<1> DEFINE event == EndOf(e, outcome)
<1>1. PICK r \in ExchangeRecords :
        r = [exchange[e] EXCEPT !.state = "ended", !.outcome = ""]
  BY DEF RecorderInv, SessionTyped, ExchangeRecords, ExchangeStates, Outcomes
<1>2. exchange' = [exchange EXCEPT ![e] = r] /\ Enqueue(event)
  BY <1>1 DEF FinishLocked, RecorderInv, SessionTyped
<1>3. r.state = "ended" /\ r.observed = exchange[e].observed
  BY <1>1 DEF RecorderInv, SessionTyped, ExchangeRecords
<1>4. /\ SessionTyped' /\ Captured' /\ exchange'[e] = r /\ e \in Sources /\ e # Inbound
      /\ ~Silent(e) /\ \A s \in Sources \ {e} : Quiet(s)
  BY <1>2, ExchangeMoves
<1>5. /\ event \in Events /\ event.source = e /\ event.kind = "end"
      /\ event.incomplete <=> outcome # "eof" \/ exchange[e].reason # ""
  BY <1>4 DEF EndOf, Event, Events
<1>6. ~Sure(e)' /\ Silent(e)' /\ Observed(e)' = BodiesDue(e)
  BY <1>3, <1>4 DEF Sure, Silent, Observed, BodiesDue
<1>7. ~event.incomplete => Sure(e) /\ StartsDue(e) = StartsOf(e)
  BY <1>4, <1>5 DEF Sure, StartsDue, StartsOf
<1> HIDE DEF event
<1>8. QueueInv' /\ \A s \in Sources : Recorded(s)'
  BY <1>2, <1>4, <1>5, <1>6, <1>7, EventIsTold DEF RecorderInv
<1> QED BY <1>4, <1>8 DEF RecorderInv

(* An exchange that had ended before is ended again without one. *)
LEMMA FinishedKeeps ==
  ASSUME RecorderInv, NEW e \in Exchanges, Finished(e), UNCHANGED <<handler, active, matched, body, sent>>,
         listed' \subseteq Exchanges, ending' \subseteq Exchanges
  PROVE  RecorderInv'
<1>1. active' \in BOOLEAN /\ matched' \in BOOLEAN /\ "cut" \in Outcomes /\ "cut" # "eof"
  BY DEF RecorderInv, SessionTyped, Outcomes
<1>2. CASE exchange[e].state = "ended"
  <2>1. UNCHANGED <<exchange, recorderVars>>
    BY <1>2 DEF Finished
  <2>2. \A s \in Sources : Quiet(s)
    BY <2>1 DEF Quiet, Silent, Sure, Observed, StartsDue, BodiesDue
  <2>3. SessionTyped' /\ Captured'
    BY <1>1, <2>1 DEF RecorderInv, SessionTyped, Captured, AllBuffered
  <2> QED BY <2>1, <2>2, <2>3, NothingIsTold DEF RecorderInv
<1>3. CASE exchange[e].state # "ended"
  BY <1>1, <1>3, FinishKeeps DEF Finished
<1> QED BY <1>2, <1>3

(* The handler or a reader of the body moves on, and nothing is emitted. *)
LEMMA SilentlyKeeps ==
  ASSUME RecorderInv, UNCHANGED <<exchange, sent, recorderVars>>,
         SessionTyped', Captured', handler \notin {"request", "over"}, handler' # "request"
  PROVE  RecorderInv'
<1>1. ASSUME NEW s \in Sources PROVE Quiet(s)
  <2>1. CASE s = Inbound
    BY <2>1 DEF Quiet, Silent, Sure, StartsDue, BodiesDue
  <2>2. CASE s # Inbound
    BY <2>2 DEF Quiet, Silent, Sure, Observed, StartsDue, BodiesDue
  <2> QED BY <2>1, <2>2
<1>2. QueueInv' /\ \A s \in Sources : Recorded(s)'
  BY <1>1, NothingIsTold DEF RecorderInv
<1> QED BY <1>2 DEF RecorderInv

(* The inbound body is emitted at the end of the request. *)
LEMMA InboundKeeps ==
  ASSUME RecorderInv, NEW e \in Events, e.source = Inbound, Enqueue(e),
         UNCHANGED <<exchange, active, matched, listed, ending, body>>,
         handler # "over", handler' \in HandlerStates, sent' \in 0..(MaxChunks + 1),
         handler' = "request" /\ sent' <= MaxChunks => sent' <= body.captured,
         Sure(Inbound)' =>
           /\ Sure(Inbound) /\ HasRoom(e) /\ e.kind # "end"
           /\ StartsDue(Inbound)' = StartsDue(Inbound) + IF e.kind = "start" THEN 1 ELSE 0
           /\ BodiesDue(Inbound)' = BodiesDue(Inbound) + IF e.kind = "body" THEN 1 ELSE 0,
         e.kind = "end" =>
           /\ handler' = "over"
           /\ ~e.incomplete =>
                Sure(Inbound) /\ StartsDue(Inbound) = 1 /\ BodiesDue(Inbound) = body.observed
  PROVE  RecorderInv'
<1>1. SessionTyped' /\ Captured'
  BY DEF RecorderInv, SessionTyped, Captured, AllBuffered
<1>2. ~Silent(Inbound) /\ (handler' = "over" => Silent(Inbound)')
  BY DEF Silent
<1>3. ASSUME NEW s \in Sources \ {Inbound} PROVE Quiet(s)
  BY <1>3 DEF Quiet, Silent, Sure, Observed, StartsDue, BodiesDue
<1>4. StartsOf(Inbound) = 1 /\ Observed(Inbound)' = body.observed
  BY DEF StartsOf, Observed
<1>5. QueueInv' /\ \A s \in Sources : Recorded(s)'
  BY <1>2, <1>3, <1>4, EventIsTold DEF RecorderInv
<1> QED BY <1>1, <1>5 DEF RecorderInv

(* Every step of the handlers, the bodies and the worker keeps the invariant. *)
LEMMA RecorderSteps == RecorderInv /\ [AuditNext]_auditVars => RecorderInv'
<1> SUFFICES ASSUME RecorderInv, [AuditNext]_auditVars PROVE RecorderInv'
  OBVIOUS
<1>0. /\ QueueInv /\ SessionTyped /\ Captured /\ \A s \in Sources : Recorded(s)
      /\ body \in Bodies /\ sent \in 0..(MaxChunks + 1) /\ MaxChunks \in Nat
      /\ \A e \in Exchanges : exchange[e] \in ExchangeRecords /\ e \in Sources /\ e # Inbound
      /\ "cut" \in Outcomes /\ "eof" \in Outcomes /\ "cut" # "eof"
  BY RecorderAssumption DEF RecorderInv, SessionTyped, Sources, Outcomes
<1>a. /\ MaxChunks \in Nat /\ sent \in Nat /\ sent <= MaxChunks + 1
      /\ body.observed \in Nat /\ body.observed <= MaxChunks
      /\ body.captured \in Nat /\ body.captured <= MaxChunks
  <2>1. body.observed \in 0..MaxChunks /\ body.captured \in 0..MaxChunks
    BY <1>0 DEF Bodies
  <2> QED BY <1>0, <2>1
<1>b. \A e \in Exchanges :
        exchange[e].observed \in Nat /\ exchange[e].observed <= MaxChunks
  <2>1. \A e \in Exchanges : exchange[e].observed \in 0..MaxChunks
    BY <1>0 DEF ExchangeRecords
  <2> QED BY <1>a, <2>1
<1>1. CASE ReadInbound
  <2>1. PICK reason \in Limits, outcome \in Outcomes :
          /\ body.reason # "" => reason = "limit"
          /\ body' = [observed |-> body.observed + 1,
                      captured |-> IF reason = "" THEN body.captured + 1 ELSE body.captured,
                      reason |-> reason, outcome |-> outcome]
    BY <1>1 DEF ReadInbound, Limits, Outcomes
  <2>2. body.observed < MaxChunks /\ body.captured <= body.observed
    BY <1>0, <1>1 DEF ReadInbound, Captured
  <2>3. body.observed + 1 \in 0..MaxChunks /\ body.captured + 1 \in 0..MaxChunks
    BY <1>a, <2>2
  <2>4. body' \in Bodies
    BY <1>0, <2>1, <2>3 DEF Bodies
  <2>5. /\ UNCHANGED <<handler, active, matched, listed, ending, sent, exchange, recorderVars>>
        /\ handler \notin {"request", "over"}
    BY <1>1 DEF ReadInbound, SessionIsFree
  <2>6. SessionTyped'
    BY <1>0, <2>4, <2>5 DEF SessionTyped
  <2>7. Captured'
    <3>1. /\ body'.observed = body.observed + 1
          /\ body'.captured \in {body.captured, body.captured + 1}
      BY <2>1
    <3>2. AllBuffered' => body'.captured = body.captured + 1 /\ AllBuffered
      BY <2>1 DEF AllBuffered
    <3>3. AllBuffered => body.captured = body.observed
      BY <1>0 DEF Captured
    <3>4. handler' # "request"
      BY <2>5
    <3> QED BY <1>a, <2>2, <3>1, <3>2, <3>3, <3>4 DEF Captured
  <2> QED BY <2>5, <2>6, <2>7, SilentlyKeeps
<1>2. CASE CloseInbound
  <2>1. body' = [body EXCEPT !.outcome = "cut"] /\ body' \in Bodies
    BY <1>0, <1>2 DEF CloseInbound, Bodies
  <2>2. /\ UNCHANGED <<handler, active, matched, listed, ending, sent, exchange, recorderVars>>
        /\ handler \notin {"request", "over"}
    BY <1>2 DEF CloseInbound, SessionIsFree
  <2>3. SessionTyped'
    BY <1>0, <2>1, <2>2 DEF SessionTyped
  <2>4. Captured'
    <3>1. /\ body'.observed = body.observed /\ body'.captured = body.captured
          /\ AllBuffered' <=> AllBuffered
      BY <1>0, <2>1 DEF Bodies, AllBuffered
    <3> QED BY <1>0, <2>2, <3>1 DEF Captured
  <2> QED BY <2>2, <2>3, <2>4, SilentlyKeeps
<1>3. CASE BeginAttempt \/ FinishAttempt \/ FinishSession \/ AttemptIsOver
  <2>1. /\ UNCHANGED <<matched, body, sent, exchange, recorderVars>>
        /\ handler' \in HandlerStates /\ active' \in BOOLEAN
        /\ listed' \subseteq Exchanges /\ ending' \subseteq Exchanges
        /\ handler \notin {"request", "over"} /\ handler' # "request"
    BY <1>0, <1>3
    DEF BeginAttempt, FinishAttempt, FinishSession, AttemptIsOver, SessionTyped, HandlerStates
  <2>2. SessionTyped' /\ Captured'
    BY <1>0, <2>1 DEF SessionTyped, Captured, AllBuffered
  <2> QED BY <2>1, <2>2, SilentlyKeeps
<1>4. ASSUME NEW e \in Exchanges, FinishExchange(e) \/ FinishListed(e) PROVE RecorderInv'
  BY <1>0, <1>4, FinishedKeeps DEF FinishExchange, FinishListed, SessionTyped
<1>5. CASE EmitRequestStart
  <2> DEFINE event == Event(Inbound, "start", FALSE)
  <2>1. event \in Events /\ event.source = Inbound /\ event.kind = "start"
    BY DEF Event, Events, Sources
  <2>2. /\ handler = "finish"
        /\ UNCHANGED <<active, matched, listed, ending, body, exchange>>
    BY <1>5 DEF EmitRequestStart
  <2>3. CASE matched
    <3>1. /\ Enqueue(event) /\ handler' = "request"
          /\ sent' = IF HasRoom(event) THEN 0 ELSE MaxChunks + 1
      BY <1>5, <2>3 DEF EmitRequestStart, Dropped
    <3>2. /\ sent' \in 0..(MaxChunks + 1) /\ handler' \in HandlerStates
          /\ sent' <= MaxChunks => sent' = 0 /\ HasRoom(event)
      <4>1. handler' \in HandlerStates
        BY <3>1 DEF HandlerStates
      <4> HIDE DEF event
      <4> QED BY <1>a, <3>1, <4>1
    <3>3. Sure(Inbound)' => HasRoom(event) /\ sent' = 0
      BY <3>1, <3>2 DEF Sure
    <3>4. Sure(Inbound) /\ StartsDue(Inbound) = 0 /\ BodiesDue(Inbound) = 0
      BY <2>2 DEF Sure, StartsDue, BodiesDue
    <3>5. StartsDue(Inbound)' = 1 /\ BodiesDue(Inbound)' = sent'
      BY <3>1 DEF StartsDue, BodiesDue
    <3>6. 0 <= body.captured
      BY <1>a
    <3> HIDE DEF event
    <3> QED BY <2>1, <2>2, <3>1, <3>2, <3>3, <3>4, <3>5, <3>6, InboundKeeps
  <2>4. CASE ~matched
    <3>1. handler' = "over" /\ UNCHANGED <<sent, recorderVars>>
      BY <1>5, <2>4 DEF EmitRequestStart
    <3>2. SessionTyped' /\ Captured'
      BY <1>0, <2>2, <3>1 DEF SessionTyped, Captured, AllBuffered, HandlerStates
    <3> QED BY <2>2, <3>1, <3>2, SilentlyKeeps
  <2> QED BY <2>3, <2>4
<1>6. CASE EmitRequestBody
  <2> DEFINE event == Event(Inbound, "body", FALSE)
  <2>1. event \in Events /\ event.source = Inbound /\ event.kind = "body"
    BY DEF Event, Events, Sources
  <2>2. /\ handler = "request" /\ handler' = "request" /\ Enqueue(event)
        /\ UNCHANGED <<active, matched, listed, ending, body, exchange>>
        /\ sent < body.captured /\ sent' = IF HasRoom(event) THEN sent + 1 ELSE MaxChunks + 1
    BY <1>6 DEF EmitRequestBody, Dropped
  <2>3. /\ body.captured \in 0..MaxChunks /\ sent' \in 0..(MaxChunks + 1)
        /\ sent' <= MaxChunks => sent' = sent + 1 /\ HasRoom(event) /\ sent' <= body.captured
        /\ sent <= MaxChunks
    <3> HIDE DEF event
    <3> QED BY <1>a, <2>2
  <2>4. Sure(Inbound)' => HasRoom(event) /\ sent' = sent + 1
    BY <2>2, <2>3 DEF Sure
  <2>5. /\ Sure(Inbound) /\ StartsDue(Inbound) = 1 /\ BodiesDue(Inbound) = sent
        /\ StartsDue(Inbound)' = 1 /\ BodiesDue(Inbound)' = sent'
    BY <2>2, <2>3 DEF Sure, StartsDue, BodiesDue
  <2>6. handler' \in HandlerStates
    BY <2>2 DEF HandlerStates
  <2> HIDE DEF event
  <2> QED BY <2>1, <2>2, <2>3, <2>4, <2>5, <2>6, InboundKeeps
<1>7. CASE EmitRequestEnd
  <2>1. PICK event \in Events :
          /\ event.source = Inbound /\ event.kind = "end" /\ Enqueue(event)
          /\ event.incomplete <=>
               body.outcome # "eof" \/ body.reason # "" \/ sent > MaxChunks
    <3> DEFINE event == Event(Inbound, "end",
                          body.outcome # "eof" \/ body.reason # "" \/ sent > MaxChunks)
    <3>1. /\ event \in Events /\ event.source = Inbound /\ event.kind = "end"
          /\ event.incomplete <=> body.outcome # "eof" \/ body.reason # "" \/ sent > MaxChunks
      BY DEF Event, Events, Sources
    <3>2. Enqueue(event)
      BY <1>7 DEF EmitRequestEnd
    <3> QED BY <3>1, <3>2
  <2>2. /\ handler = "request" /\ handler' = "over" /\ sent >= body.captured
        /\ UNCHANGED <<active, matched, listed, ending, body, sent, exchange>>
    BY <1>7 DEF EmitRequestEnd
  <2>3. ~event.incomplete =>
          Sure(Inbound) /\ StartsDue(Inbound) = 1 /\ BodiesDue(Inbound) = body.observed
    <3>1. ASSUME ~event.incomplete PROVE sent <= MaxChunks /\ sent = body.observed
      <4>1. sent <= MaxChunks /\ AllBuffered
        <5>1. AllBuffered
          BY <2>1, <3>1 DEF AllBuffered
        <5>2. ~(sent > MaxChunks)
          BY <2>1, <3>1
        <5> QED BY <1>a, <5>1, <5>2
      <4>2. sent <= body.captured /\ body.captured = body.observed
        BY <1>0, <2>2, <4>1 DEF Captured
      <4> QED BY <1>a, <2>2, <4>1, <4>2
    <3> QED BY <2>2, <3>1 DEF Sure, StartsDue, BodiesDue
  <2>4. ~Sure(Inbound)' /\ handler' \in HandlerStates
    BY <2>2 DEF Sure, HandlerStates
  <2> QED BY <1>0, <2>1, <2>2, <2>3, <2>4, InboundKeeps
<1>8. ASSUME NEW e \in Exchanges, BeginHTTP(e) \/ ResponseStarts(e) PROVE RecorderInv'
  <2> DEFINE event == Event(e, "start", FALSE)
  <2>1. event \in Events /\ event.source = e /\ event.kind = "start"
    BY <1>0 DEF Event, Events
  <2>2. PICK r \in ExchangeRecords :
          /\ exchange' = [exchange EXCEPT ![e] = r]
          /\ r.observed = exchange[e].observed
          /\ \/ exchange[e].state = "none" /\ r.state = "sent"
             \/ exchange[e].state = "sent" /\ r.state = "open"
          /\ r.reason = "" => HasRoom(event) /\ exchange[e].reason = ""
    <3>1. Reason(e, event) \in Losses
      BY DEF Reason, Losses
    <3>2. PICK st \in {"sent", "open"} :
            /\ exchange' = [exchange EXCEPT ![e].state = st, ![e].reason = Reason(e, event)]
            /\ \/ exchange[e].state = "none" /\ st = "sent"
               \/ exchange[e].state = "sent" /\ st = "open"
      BY <1>8 DEF BeginHTTP, ResponseStarts
    <3> DEFINE r == [exchange[e] EXCEPT !.state = st, !.reason = Reason(e, event)]
    <3>3. /\ r \in ExchangeRecords /\ r.observed = exchange[e].observed /\ r.state = st
          /\ r.reason = Reason(e, event)
      BY <1>0, <3>1, <3>2 DEF ExchangeRecords, ExchangeStates
    <3>4. exchange' = [exchange EXCEPT ![e] = r]
      BY <1>0, <3>2 DEF SessionTyped
    <3>5. Reason(e, event) = "" => HasRoom(event) /\ exchange[e].reason = ""
      BY DEF Reason
    <3> HIDE DEF r
    <3> QED BY <3>2, <3>3, <3>4, <3>5
  <2>3. /\ Enqueue(event) /\ UNCHANGED <<handler, body, sent>>
        /\ active' \in BOOLEAN /\ matched' \in BOOLEAN
        /\ listed' \subseteq Exchanges /\ ending' \subseteq Exchanges
    BY <1>0, <1>8 DEF BeginHTTP, ResponseStarts, SessionTyped
  <2>4. /\ SessionTyped' /\ Captured' /\ exchange'[e] = r /\ ~Silent(e)
        /\ \A s \in Sources \ {e} : Quiet(s)
    BY <2>2, <2>3, ExchangeMoves
  <2>5. Sure(e)' =>
          /\ Sure(e) /\ HasRoom(event) /\ StartsDue(e)' = StartsDue(e) + 1
          /\ BodiesDue(e)' = BodiesDue(e) + 0
    <3>1. exchange[e].observed + 0 = exchange[e].observed
      BY <1>b
    <3>2. e # Inbound /\ exchange'[e] = r
      BY <1>0, <2>4
    <3>3. Sure(e)' => HasRoom(event) /\ exchange[e].reason = ""
      BY <2>2, <3>2 DEF Sure
    <3>4. exchange[e].reason = "" => Sure(e)
      BY <2>2, <3>2 DEF Sure
    <3>5. StartsDue(e)' = StartsDue(e) + 1
      <4>1. \/ exchange[e].state = "none" /\ r.state = "sent"
            \/ exchange[e].state = "sent" /\ r.state = "open"
        BY <2>2
      <4> QED BY <3>2, <4>1 DEF StartsDue
    <3>6. BodiesDue(e)' = BodiesDue(e)
      BY <2>2, <3>2 DEF BodiesDue
    <3>7. BodiesDue(e) = exchange[e].observed
      BY <3>2 DEF BodiesDue
    <3> QED BY <3>1, <3>3, <3>4, <3>5, <3>6, <3>7
  <2> HIDE DEF event
  <2>6. QueueInv' /\ \A s \in Sources : Recorded(s)'
    BY <1>0, <2>1, <2>3, <2>4, <2>5, EventIsTold
  <2> QED BY <2>4, <2>6 DEF RecorderInv
<1>9. ASSUME NEW e \in Exchanges,
             ResponseFails(e) \/ ReadEndsResponse(e) \/ EndsWithoutData(e)
      PROVE  RecorderInv'
  <2>1. PICK outcome \in Outcomes :
          /\ FinishLocked(e, outcome) /\ exchange[e].state # "ended"
          /\ outcome = "eof" => exchange[e].state \in {"open", "reading"}
    BY <1>0, <1>9 DEF ResponseFails, ReadEndsResponse, EndsWithoutData, ExchangeRecords
  <2>2. UNCHANGED <<handler, active, matched, listed, ending, body, sent>>
    BY <1>9 DEF ResponseFails, ReadEndsResponse, EndsWithoutData
  <2> QED BY <1>0, <2>1, <2>2, FinishKeeps DEF SessionTyped
<1>10. ASSUME NEW e \in Exchanges, ReadResponse(e) PROVE RecorderInv'
  <2> DEFINE event == Event(e, "body", FALSE)
  <2>1. event \in Events /\ event.source = e /\ event.kind = "body"
    BY <1>0 DEF Event, Events
  <2>2. PICK outcome \in Outcomes, reason \in Losses :
          /\ exchange' = [exchange EXCEPT ![e] =
               [state    |-> IF outcome = "" THEN "open" ELSE "reading",
                observed |-> exchange[e].observed + 1, reason |-> reason, outcome |-> outcome]]
          /\ \/ /\ exchange[e].reason = "" /\ Enqueue(event)
                /\ reason = "" => HasRoom(event)
             \/ UNCHANGED recorderVars /\ reason = "incomplete"
    BY <1>10 DEF ReadResponse, Outcomes, Losses, Reason
  <2>3. /\ exchange[e].state = "open" /\ exchange[e].observed < MaxChunks
        /\ UNCHANGED <<handler, active, matched, listed, ending, body, sent>>
    BY <1>10 DEF ReadResponse
  <2>4. PICK r \in ExchangeRecords :
          r = [state    |-> IF outcome = "" THEN "open" ELSE "reading",
               observed |-> exchange[e].observed + 1, reason |-> reason, outcome |-> outcome]
    <3>1. exchange[e].observed + 1 \in 0..MaxChunks
      BY <1>a, <1>b, <2>3
    <3>2. (IF outcome = "" THEN "open" ELSE "reading") \in ExchangeStates
      BY DEF ExchangeStates
    <3> QED BY <3>1, <3>2 DEF ExchangeRecords
  <2>5. exchange' = [exchange EXCEPT ![e] = r]
    BY <2>2, <2>4
  <2>9. r.reason = reason /\ r.observed = exchange[e].observed + 1 /\ r.state \in {"open", "reading"}
    BY <2>4
  <2>6. /\ SessionTyped' /\ Captured' /\ exchange'[e] = r /\ ~Silent(e)
        /\ \A s \in Sources \ {e} : Quiet(s)
        /\ r.reason # "" => Quiet(e)
    BY <1>0, <2>3, <2>5, ExchangeMoves DEF SessionTyped
  <2>7. CASE UNCHANGED recorderVars /\ reason = "incomplete"
    <3>1. \A s \in Sources : Quiet(s)
      BY <2>6, <2>7, <2>9
    <3> QED BY <1>0, <2>6, <2>7, <3>1, NothingIsTold DEF RecorderInv
  <2>8. CASE /\ exchange[e].reason = "" /\ Enqueue(event)
             /\ reason = "" => HasRoom(event)
    <3>1. Sure(e)' => reason = ""
      BY <1>0, <2>6, <2>9 DEF Sure
    <3>2. Sure(e)
      BY <1>0, <2>3, <2>8 DEF Sure
    <3>3. StartsDue(e)' = StartsDue(e) + 0 /\ BodiesDue(e)' = BodiesDue(e) + 1
      <4>1. StartsDue(e) = 2 /\ BodiesDue(e) = exchange[e].observed
        BY <1>0, <2>3 DEF StartsDue, BodiesDue
      <4>3. StartsDue(e)' = 2 /\ BodiesDue(e)' = r.observed
        BY <1>0, <2>6, <2>9 DEF StartsDue, BodiesDue
      <4> QED BY <2>9, <4>1, <4>3
    <3> HIDE DEF event
    <3>4. QueueInv' /\ \A s \in Sources : Recorded(s)'
      BY <1>0, <2>1, <2>6, <2>8, <3>1, <3>2, <3>3, EventIsTold
    <3> QED BY <2>6, <3>4 DEF RecorderInv
  <2> QED BY <2>2, <2>7, <2>8
<1>11. CASE Take \/ WriteEvent \/ CloseRecorder \/ WorkerEnds
  <2>1. UNCHANGED sessionVars
    BY <1>11 DEF Take, WriteEvent, CloseRecorder, WorkerEnds
  <2>2. QueueInv' /\ \A s \in Sources : Recorded(s)'
    BY <1>0, <1>11, <2>1, RecorderGoesOn
  <2>3. SessionTyped' /\ Captured'
    BY <1>0, <2>1 DEF sessionVars, SessionTyped, Captured, AllBuffered
  <2> QED BY <2>2, <2>3 DEF RecorderInv
<1>12. CASE UNCHANGED auditVars
  <2>1. UNCHANGED recorderVars /\ UNCHANGED sessionVars
    BY <1>12 DEF auditVars
  <2>2. \A s \in Sources : Quiet(s)
    BY <2>1 DEF sessionVars, Quiet, Silent, Sure, Observed, StartsDue, BodiesDue
  <2>3. SessionTyped' /\ Captured'
    BY <1>0, <2>1 DEF sessionVars, SessionTyped, Captured, AllBuffered
  <2> QED BY <1>0, <2>1, <2>2, <2>3, NothingIsTold DEF RecorderInv
<1> QED
  BY <1>1, <1>2, <1>3, <1>4, <1>5, <1>6, <1>7, <1>8, <1>9, <1>10, <1>11, <1>12
  DEF AuditNext, HandlerStep

(* Whatever the request, its exchanges, the worker and the writer do, and in
   whatever order, the invariant of the recorder and its session holds. *)
THEOREM RecorderInvariant == AuditSpec => []RecorderInv
<1> QED BY RecorderStarts, RecorderSteps, PTL DEF AuditSpec

(* The session, its exchanges and the queue have their types; the queue never
   holds more events or reserves more bytes than it may. *)
THEOREM AuditTypes == AuditSpec => []AuditTypeOK
<1>1. RecorderInv => AuditTypeOK
  <2> SUFFICES ASSUME RecorderInv PROVE AuditTypeOK
    OBVIOUS
  <2>1. /\ SessionTyped /\ queued \in 0..QueueBytes /\ Len(queue) <= QueueSlots
        /\ closed \in BOOLEAN /\ worker \in {"running", "done"}
    BY DEF RecorderInv, QueueInv, QueueTyped
  <2>2. Len(hand) <= 1
    <3>1. CASE hand = <<>>
      BY <3>1
    <3>2. ASSUME NEW e \in Events, hand = <<e>> PROVE Len(hand) <= 1
      BY <3>2
    <3> QED BY <3>1, <3>2 DEF RecorderInv, QueueInv, QueueTyped
  <2>3. body.outcome \in Outcomes /\ body.observed \in 0..MaxChunks
    BY <2>1 DEF SessionTyped, Bodies
  <2>4. \A e \in Exchanges :
          /\ exchange[e].state \in ExchangeStates /\ exchange[e].outcome \in Outcomes
          /\ exchange[e].observed \in 0..MaxChunks
    BY <2>1 DEF SessionTyped, ExchangeRecords
  <2> QED BY <2>1, <2>2, <2>3, <2>4 DEF AuditTypeOK, SessionTyped
<1> QED BY <1>1, RecorderInvariant, PTL

(* Every event the queue took is waiting, in the worker's hand, written or a
   counted write error, and the reserved bytes are those of what waits. *)
THEOREM AcceptedAccounted == AuditSpec => []AcceptedIsAccountedFor
<1>1. RecorderInv => AcceptedIsAccountedFor
  BY DEF RecorderInv, QueueInv
<1> QED BY <1>1, RecorderInvariant, PTL

(* Without a write error, a record that says it is complete has the start of
   its source and every chunk that was read, and nothing comes after an end. *)
THEOREM CompleteIsWhole == AuditSpec => []CompleteMeansWhole
<1>1. RecorderInv => CompleteMeansWhole
  <2> SUFFICES ASSUME RecorderInv, NEW s \in Sources, NEW i \in DOMAIN written[s],
                      written[s][i].kind = "end"
               PROVE  /\ i = Len(written[s])
                      /\ ~written[s][i].incomplete /\ failures = 0 =>
                           Times("start", s) = StartsOf(s) /\ Times("body", s) = Observed(s)
    BY DEF CompleteMeansWhole
  <2>1. QueueTyped /\ Recorded(s) /\ InOrder(s)
    BY DEF RecorderInv, QueueInv, Recorded
  <2>2. /\ i = Len(written[s]) /\ NothingOf(hand, s) /\ NothingOf(queue, s)
        /\ \A j \in DOMAIN written[s] : written[s][j].source = s
    BY <2>1 DEF InOrder
  <2>3. queue \in Seq(Events) /\ hand \in Seq(Events) /\ written[s] \in Seq(Events)
    BY <2>1, RecorderParts
  <2>4. ASSUME NEW k PROVE Seen(s, k) = Times(k, s)
    <3>1. Places(hand, SourceKind(s, k)) = {} /\ Places(queue, SourceKind(s, k)) = {}
      BY <2>2 DEF NothingOf, Places, SourceKind
    <3>2. Occurs(hand, SourceKind(s, k)) = 0 /\ Occurs(queue, SourceKind(s, k)) = 0
      BY <3>1, FS_EmptySet DEF Occurs
    <3>3. \A j \in DOMAIN written[s] : written[s][j] \in Events
      BY <2>3
    <3>4. Places(written[s], SourceKind(s, k)) = {j \in DOMAIN written[s] : written[s][j].kind = k}
      BY <2>2, <3>3 DEF Places, SourceKind
    <3>5. Occurs(written[s], SourceKind(s, k)) = Times(k, s)
      BY <3>4 DEF Occurs, Times
    <3>6. Occurs(written[s], SourceKind(s, k)) \in Nat
      BY <2>3, OccursIsNumber
    <3> QED BY <3>2, <3>5, <3>6 DEF Seen
  <2>5. written[s][i] \in SeenEnds(s)
    <3>1. written[s][i] \in SourceKind(s, "end")
      BY <2>2, <2>3 DEF SourceKind
    <3> QED BY <3>1 DEF SeenEnds, Holds
  <2> QED BY <2>1, <2>2, <2>4, <2>5 DEF Recorded
<1> QED BY <1>1, RecorderInvariant, PTL
=============================================================================
