--------------------------- MODULE StartupCleanup ---------------------------
(***************************************************************************)
(* The one-shot cleanup at start (src/src/startup_cleanup.c) and the part  *)
(* of main (src/src/main.c:125-131) that refuses to go on without it, with *)
(* a device that loses power and a process that is killed at any point.    *)
(*                                                                         *)
(* A file system call changes what programs see; what a power loss leaves  *)
(* of it is open until an fsync. So the directory is `events', and `limbo' *)
(* are the files whose deletion may still be undone; the marker file is    *)
(* `marker', and `disk' are the states a power loss may leave it in.       *)
(***************************************************************************)
EXTENDS Naturals, FiniteSets

CONSTANTS
  Old,        (* event files an earlier version left behind                 *)
  Other,      (* entries with other names, directories and links            *)
  New,        (* event files the application may write                      *)
  Faults,     (* what may go wrong, of AllFaults                            *)
  MaxFaults   (* bound: how often                                           *)

(* "files": an open, unlink, write or fsync that fails before the marker is *)
(* complete; "marker": a marker that could not be written can not be        *)
(* removed either; "parent": the close or the last fsync, after it is       *)
(* complete.                                                                *)
AllFaults == {"power", "kill", "files", "marker", "parent"}

ASSUME CleanupAssumption ==
  /\ Faults \subseteq AllFaults
  /\ MaxFaults \in Nat
  /\ Old \cap Other = {} /\ Old \cap New = {} /\ New \cap Other = {}

VARIABLES
  clear,      (* cfg->clear_events_once, as main reads it at the next start *)
  app,        (* where main is                                              *)
  toSee,      (* entries readdir has still to return                        *)
  events,     (* event files programs see                                   *)
  limbo,      (* deleted, but a power loss may bring them back              *)
  marker,     (* the marker file programs see                               *)
  disk,       (* what a power loss may leave of the marker file             *)
  complete,   (* history: whether a cleanup made its marker and succeeded   *)
  kept,       (* history: events written since then                         *)
  stuck,      (* history: whether a run was cut off by a kill or power      *)
              (* loss, or could not remove the marker it had spoiled        *)
  faults      (* faults so far                                              *)

cleanupVars == <<clear, app, toSee, events, limbo, marker, disk, complete, kept, stuck, faults>>
files == <<events, limbo, marker, disk, complete, kept>>

(* "torn": there, but not the five bytes `done\n' clear_events_once wants.  *)
Markers == {"absent", "torn", "done"}

Goto(step) == app' = step
Fault(kind) == kind \in Faults /\ faults < MaxFaults /\ faults' = faults + 1

-----------------------------------------------------------------------------
(* main up to and with the checks of clear_events_once.                     *)

Configure ==
  /\ app = "off"
  /\ clear' = ~ clear
  /\ UNCHANGED <<app, toSee, files, stuck, faults>>

AlreadyDone == marker = "done"

StartWithoutCleaning ==
  /\ app = "off"
  /\ ~ clear \/ AlreadyDone
  /\ Goto("running")
  /\ UNCHANGED <<clear, toSee, files, stuck, faults>>

(* A marker that is not whole is neither trusted nor replaced: main returns *)
(* at once, at this start and at every later one.                           *)
RefuseMarker ==
  /\ app = "off" /\ clear
  /\ ~ AlreadyDone /\ marker # "absent"
  /\ UNCHANGED cleanupVars

StartCleaning ==
  /\ app = "off" /\ clear
  /\ ~ AlreadyDone /\ marker = "absent"
  /\ Goto("sweeping") /\ toSee' = events \cup Other
  /\ UNCHANGED <<clear, files, stuck, faults>>

-----------------------------------------------------------------------------
(* The sweep, the marker, and their failures.                               *)

(* The entry is looked at and deleted, unless it is no regular event file.  *)
Sweep(entry) ==
  /\ app = "sweeping" /\ entry \in toSee
  /\ toSee' = toSee \ {entry}
  /\ events' = events \ {entry}
  /\ limbo' = limbo \cup ({entry} \cap events)
  /\ UNCHANGED <<clear, app, marker, disk, complete, kept, stuck, faults>>

(* Variant: the deletions are not committed before the marker is made.      *)
CommitDeletions_Skipped ==
  /\ app = "sweeping" /\ toSee = {}
  /\ Goto("creating")
  /\ UNCHANGED <<clear, toSee, files, stuck, faults>>

CommitDeletions ==
  /\ app = "sweeping" /\ toSee = {}
  /\ limbo' = {}
  /\ Goto("creating")
  /\ UNCHANGED <<clear, toSee, events, marker, disk, complete, kept, stuck, faults>>

CreateMarker ==
  /\ app = "creating"
  /\ marker' = "torn" /\ disk' = disk \cup {"torn"}
  /\ Goto("writing")
  /\ UNCHANGED <<clear, toSee, events, limbo, complete, kept, stuck, faults>>

WriteMarker ==
  /\ app = "writing"
  /\ marker' = "done" /\ disk' = disk \cup {"done"}
  /\ Goto("syncing")
  /\ UNCHANGED <<clear, toSee, events, limbo, complete, kept, stuck, faults>>

(* The contents of the marker are safe now, its directory entry is not.     *)
SyncMarker ==
  /\ app = "syncing"
  /\ disk' = disk \ {"torn"}
  /\ Goto("committing")
  /\ UNCHANGED <<clear, toSee, events, limbo, marker, complete, kept, stuck, faults>>

(* Variant: the directory that holds the marker is not synced.              *)
CommitMarker_Skipped ==
  /\ app = "committing"
  /\ complete' = TRUE
  /\ Goto("running")
  /\ UNCHANGED <<clear, toSee, events, limbo, marker, disk, kept, stuck, faults>>

CommitMarker ==
  /\ app = "committing"
  /\ disk' = {marker} /\ complete' = TRUE
  /\ Goto("running")
  /\ UNCHANGED <<clear, toSee, events, limbo, marker, kept, stuck, faults>>

(* Opening the directories, reading, deleting, fsync, making the marker:    *)
(* main returns, what is deleted stays deleted.                             *)
SweepFails ==
  /\ app \in {"off", "sweeping", "creating"} /\ clear
  /\ Fault("files")
  /\ Goto("off") /\ toSee' = {}
  /\ UNCHANGED <<clear, files, stuck>>

(* Variant: a marker that could not be written is left where it is.         *)
MarkerFails_Left ==
  /\ app \in {"writing", "syncing"}
  /\ Fault("files")
  /\ Goto("off")
  /\ UNCHANGED <<clear, toSee, files, stuck>>

(* A write or fsync of the marker fails. It is removed again, but nobody    *)
(* looks whether that succeeds: a torn one may stay, or, when all of it had *)
(* been written, a whole one that the next start believes.                  *)
MarkerFails ==
  /\ app \in {"writing", "syncing"}
  /\ \/ Fault("files") /\ marker' = "absent" /\ disk' = disk \cup {"absent"}
        /\ UNCHANGED stuck
     \/ Fault("marker") /\ UNCHANGED <<marker, disk>> /\ stuck' = TRUE
  /\ Goto("off")
  /\ UNCHANGED <<clear, toSee, events, limbo, complete, kept>>

(* close fails, or the fsync of the directory: the marker stays.            *)
CommitFails ==
  /\ app = "committing"
  /\ Fault("parent")
  /\ Goto("off")
  /\ UNCHANGED <<clear, toSee, files, stuck>>

clear_events_once ==
  \/ StartWithoutCleaning \/ RefuseMarker \/ StartCleaning
  \/ \E entry \in toSee : Sweep(entry)
  \/ CommitDeletions \/ CreateMarker \/ WriteMarker \/ SyncMarker \/ CommitMarker

-----------------------------------------------------------------------------
(* The application, and what happens to it.                                 *)

WriteEvent(f) ==
  /\ app = "running" /\ f \notin events \cup kept
  /\ events' = events \cup {f}
  /\ kept' = IF complete THEN kept \cup {f} ELSE kept
  /\ limbo' = limbo \ {f}
  /\ UNCHANGED <<clear, app, toSee, marker, disk, complete, stuck, faults>>

Exit ==
  /\ app = "running"
  /\ Goto("off")
  /\ UNCHANGED <<clear, toSee, files, stuck, faults>>

Killed ==
  /\ app \notin {"off", "running"}
  /\ Fault("kill")
  /\ stuck' = TRUE
  /\ Goto("off") /\ toSee' = {}
  /\ UNCHANGED <<clear, files>>

(* What was not synced may be lost, in any combination. The application's   *)
(* own files are taken to be safe: what is asked is who deletes them.       *)
PowerLoss ==
  /\ Fault("power")
  /\ stuck' = TRUE
  /\ Goto("off") /\ toSee' = {}
  /\ \E back \in SUBSET limbo : events' = events \cup back
  /\ limbo' = {}
  /\ marker' \in disk /\ disk' = {marker'}
  /\ UNCHANGED <<clear, complete, kept>>

-----------------------------------------------------------------------------
CleanupInit ==
  /\ clear = TRUE /\ app = "off" /\ toSee = {}
  /\ events = Old /\ limbo = {}
  /\ marker = "absent" /\ disk = {"absent"}
  /\ complete = FALSE /\ kept = {} /\ stuck = FALSE /\ faults = 0

CleanupNext ==
  \/ clear_events_once \/ SweepFails \/ MarkerFails \/ CommitFails
  \/ Configure \/ Exit \/ Killed \/ PowerLoss
  \/ \E f \in New : WriteEvent(f)

CleanupSpec == CleanupInit /\ [][CleanupNext]_cleanupVars

(* Whoever starts the package starts it again and again, and main goes on.  *)
FairCleanupSpec == CleanupSpec /\ WF_cleanupVars(clear_events_once)

-----------------------------------------------------------------------------
(* Properties.                                                              *)

(* Variables have their types; the marker programs see is one a power loss  *)
(* may leave.                                                               *)
CleanupTypeOK ==
  /\ clear \in BOOLEAN
  /\ app \in {"off", "sweeping", "creating", "writing", "syncing", "committing", "running"}
  /\ toSee \subseteq Old \cup New \cup Other
  /\ events \subseteq Old \cup New /\ limbo \subseteq Old \cup New
  /\ marker \in disk /\ disk \subseteq Markers
  /\ complete \in BOOLEAN /\ kept \subseteq New
  /\ stuck \in BOOLEAN
  /\ faults \in 0 .. MaxFaults

(* "Commit deletes before recording completion": whenever a whole marker is *)
(* there, or may be there after a power loss, every old file is gone for    *)
(* good, so that no restart can take the work for done when it is not.      *)
MarkerMeansClean == "done" \in disk => Old \cap (events \cup limbo) = {}

(* One shot: an event written after a cleanup has made its marker and       *)
(* returned success is never taken for an old one, whatever the device goes *)
(* through. (A marker found by a start that did not finish it itself may    *)
(* still be lost: that one is trusted without being committed.)             *)
NewEventsAreKept == kept \subseteq events

(* "Do not start producers on failure": asked to clean, the application     *)
(* runs only when no old file is left and none can come back.               *)
RunsOnlyWhenClean ==
  [][app # "running" /\ app' = "running" /\ clear => Old \cap (events' \cup limbo') = {}]_cleanupVars

(* Starts that are repeated end with the application running, unless a torn *)
(* marker is there, which is refused for ever. That takes a run cut off     *)
(* while it made the marker, or two failures on end: of the write or fsync, *)
(* and of the removal that undoes it. No single failure of a call keeps the *)
(* application from running.                                                *)
RunsUnlessMarkerIsTorn ==
  []<>(app = "running" \/ ~ clear) \/ <>[](stuck /\ marker = "torn")

(* A cleanup is made once and for all: no marker before all old events are  *)
(* gone, and after it nothing of the new ones goes.                         *)
CleansOnce == MarkerMeansClean /\ NewEventsAreKept

=============================================================================
