------------------------------- MODULE MCAudit -------------------------------
(***************************************************************************)
(* The two halves of the request audit on small instances: a request with  *)
(* one exchange over a queue of two events, and two processes that write,  *)
(* crash and recover one archive. They meet in the worker's call of Write, *)
(* which each half describes by its outcomes; a behaviour follows one of   *)
(* them.                                                                   *)
(***************************************************************************)
EXTENDS AuditRecorder, AuditArchive

CONSTANTS upstream, old, new

OneExchange == {upstream}
OldAndNew == {old, new}

VARIABLE half

Init ==
  /\ AuditInit /\ ArchiveInit
  /\ half \in {"recorder", "archive"}
  /\ half = "archive" => body.outcome = ""

Next ==
  /\ UNCHANGED half
  /\ \/ half = "recorder" /\ AuditNext /\ UNCHANGED archiveVars
     \/ half = "archive" /\ ArchiveNext /\ UNCHANGED auditVars

(* The fair steps are disabled while the archive rests: no process is up. *)
Spec ==
  /\ Init /\ [][Next]_<<half, auditVars, archiveVars>>
  /\ ArchiveFairness
=============================================================================
