----------------------------- MODULE MCEvidence -----------------------------
(***************************************************************************)
(* What becomes of an event's files, in two views side by side for TLC: a  *)
(* behaviour is one of the pipeline, or one of the archive on its card.    *)
(* Archive: two events whose upload failed, two names of directories.      *)
(***************************************************************************)
EXTENDS MCEventPipeline, FailedArchive

VARIABLE view

EvidenceInit ==
  /\ view \in {"pipeline", "archive"}
  /\ Init /\ ArchiveInit
  /\ view = "archive" => \A p \in VideoPath : videos[p] = Absent
  /\ view = "archive" => \A s \in Stamps : metas[s] = Absent

PipelineRuns == view = "pipeline" /\ Next /\ UNCHANGED <<view, archiveVars>>
ArchiveRuns == view = "archive" /\ ArchiveNext /\ UNCHANGED <<view, vars>>

EvidenceNext == PipelineRuns \/ ArchiveRuns

EvidenceSpec == EvidenceInit /\ [][EvidenceNext]_<<view, vars, archiveVars>>

=============================================================================
