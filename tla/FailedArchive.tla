---------------------------- MODULE FailedArchive ----------------------------
(***************************************************************************)
(* What the uploader does with an event that could not be uploaded         *)
(* (src/src/failed_archive.h): video and metadata are copied into a new    *)
(* directory on the SD card, synced, and then removed from the device, on  *)
(* a card that fails and a device that loses power between any two calls.  *)
(* EventPipeline takes all of it as one step.                              *)
(*                                                                         *)
(* What a power loss leaves of a copy is open until its data, its entry in *)
(* the directory and the directory's entry on the card have been synced.   *)
(* The event in hand is not taken up again at the next start. What becomes *)
(* of the local files in a power loss is left out.                         *)
(***************************************************************************)
EXTENDS Naturals, FiniteSets

CONSTANTS
  Names,         (* names of directories: time, process id and serial       *)
  MaxFailures    (* bound: events whose upload failed                       *)

ASSUME ArchiveAssumption == MaxFailures \in Nat

EventFiles == {"video", "meta"}
NoName == 0

VARIABLES
  failure,       (* the event in hand, and all before it                    *)
  hand,          (* where the code is: at, dir, created, saved_video        *)
  usedNames,     (* names made since the start: the serial differs          *)
  local,         (* [event -> its files in the events directory]            *)
  card,          (* [name -> directory], as NoDirectory                     *)
  failing,       (* history: events for which a call has failed             *)
  torn           (* history: those for which tidying up has failed          *)

archiveVars == <<failure, hand, usedNames, local, card, failing, torn>>

(* file: "none", "part" or "whole"; data and entries: the files of which    *)
(* these are synced; rooted: whether the directory is; from: the events     *)
(* whose files were put into it.                                            *)
NoDirectory == [made |-> FALSE, file |-> [f \in EventFiles |-> "none"],
                data |-> {}, entries |-> {}, rooted |-> FALSE, from |-> {}]

HandTo(place) == hand' = [hand EXCEPT !.at = place]
CallFails == failing' = failing \cup {failure}

-----------------------------------------------------------------------------
(* upload_thread gives the event up.                                        *)
GiveUp ==
  /\ hand.at = "idle" /\ failure < MaxFailures /\ failure' = failure + 1
  /\ hand' = [at |-> "root", dir |-> NoName, created |-> FALSE, saved_video |-> FALSE]
  /\ UNCHANGED <<usedNames, local, card, failing, torn>>

(* goto error: no card, no directory (mkdirat refuses a name that is there: *)
(* clock, process id and serial may be those of an earlier start), no fsync.*)
GotoError ==
  /\ hand.at \in {"root", "open", "sync", "sync root"}
  /\ CallFails /\ HandTo("done")
  /\ UNCHANGED <<failure, usedNames, local, card, torn>>

(* Variant: a directory that is there already is used.                      *)
MakeDirectory_Shared(n) ==
  /\ hand.at = "root" /\ n \notin usedNames /\ usedNames' = usedNames \cup {n}
  /\ card' = [card EXCEPT ![n].made = TRUE]
  /\ hand' = [hand EXCEPT !.at = "open", !.dir = n, !.created = TRUE]
  /\ UNCHANGED <<failure, local, failing, torn>>

MakeDirectory(n) ==
  /\ hand.at = "root" /\ n \notin usedNames /\ usedNames' = usedNames \cup {n}
  /\ ~ card[n].made /\ card' = [card EXCEPT ![n].made = TRUE]
  /\ hand' = [hand EXCEPT !.at = "open", !.dir = n, !.created = TRUE]
  /\ UNCHANGED <<failure, local, failing, torn>>

OpenDirectory ==
  /\ hand.at = "open" /\ HandTo("video")
  /\ UNCHANGED <<failure, usedNames, local, card, failing, torn>>

-----------------------------------------------------------------------------
(* failed_archive_copy, of the video and then of the metadata; afterwards   *)
(* the directory is synced in any case.                                     *)

Copy == card[hand.dir].file[hand.at]

AfterCopy(ok) ==
  hand' = [hand EXCEPT !.at = IF hand.at = "video" /\ ok THEN "meta" ELSE "sync",
                       !.saved_video = IF hand.at = "video" THEN ok ELSE @]

CreateCopy ==
  /\ hand.at \in EventFiles /\ Copy = "none"
  /\ card' = [card EXCEPT ![hand.dir].file[hand.at] = "part", ![hand.dir].from = @ \cup {failure}]
  /\ UNCHANGED <<failure, hand, usedNames, local, failing, torn>>

(* Variant: the copy is not synced.                                         *)
FinishCopy_Unsynced ==
  /\ hand.at \in EventFiles /\ Copy = "part" /\ AfterCopy(TRUE)
  /\ card' = [card EXCEPT ![hand.dir].file[hand.at] = "whole"]
  /\ UNCHANGED <<failure, usedNames, local, failing, torn>>

FinishCopy ==
  /\ hand.at \in EventFiles /\ Copy = "part" /\ AfterCopy(TRUE)
  /\ card' = [card EXCEPT ![hand.dir].file[hand.at] = "whole", ![hand.dir].data = @ \cup {hand.at}]
  /\ UNCHANGED <<failure, usedNames, local, failing, torn>>

(* The copy is removed again, unless unlinkat fails, too.                   *)
CopyFails ==
  /\ hand.at \in EventFiles /\ CallFails /\ AfterCopy(FALSE)
  /\ \/ card' = [card EXCEPT ![hand.dir].file[hand.at] = "none"] /\ UNCHANGED torn
     \/ Copy = "part" /\ torn' = torn \cup {failure} /\ UNCHANGED card
  /\ UNCHANGED <<failure, usedNames, local>>

SyncDirectory ==
  /\ hand.at = "sync" /\ HandTo("sync root")
  /\ card' = [card EXCEPT ![hand.dir].entries =
                            {f \in EventFiles : card[hand.dir].file[f] # "none"}]
  /\ UNCHANGED <<failure, usedNames, local, failing, torn>>

SyncRoot ==
  /\ hand.at = "sync root" /\ HandTo("done")
  /\ card' = [card EXCEPT ![hand.dir].rooted = TRUE]
  /\ UNCHANGED <<failure, usedNames, local, failing, torn>>

(* A directory without the video goes, if it is empty.                      *)
TidyUp ==
  /\ hand.at = "done" /\ HandTo("video gone")
  /\ IF hand.created /\ ~ hand.saved_video
     THEN \/ /\ \A f \in EventFiles : card[hand.dir].file[f] = "none"
             /\ card' = [card EXCEPT ![hand.dir] = NoDirectory] /\ UNCHANGED torn
          \/ torn' = torn \cup {failure} /\ UNCHANGED card
     ELSE UNCHANGED <<card, torn>>
  /\ UNCHANGED <<failure, usedNames, local, failing>>

(* event_file_delete of both local files, whatever happened before.         *)
RemoveLocal ==
  /\ \E f \in EventFiles :
       /\ hand.at = IF f = "video" THEN "video gone" ELSE "meta gone"
       /\ HandTo(IF f = "video" THEN "meta gone" ELSE "idle")
       /\ local' \in {local, [local EXCEPT ![failure] = @ \ {f}]}
  /\ UNCHANGED <<failure, usedNames, card, failing, torn>>

-----------------------------------------------------------------------------
(* What a power loss may leave of a file and of a directory.                *)
FileAfterLoss(d, f) ==
  {d.file[f]} \cup (IF f \in d.data \cap d.entries THEN {} ELSE {"none"})
              \cup (IF f \in d.data \/ d.file[f] = "none" THEN {} ELSE {"part"})

AfterLoss(d) ==
  {[d EXCEPT !.file = [f \in EventFiles |-> IF f = "video" THEN v ELSE m]] :
     v \in FileAfterLoss(d, "video"), m \in FileAfterLoss(d, "meta")}
  \cup (IF d.rooted THEN {} ELSE {NoDirectory})

LosePower ==
  /\ card' \in {c \in [Names -> UNION {AfterLoss(card[n]) : n \in Names}] :
                  \A n \in Names : c[n] \in AfterLoss(card[n])}
  /\ HandTo("idle") /\ usedNames' = {} /\ torn' = torn \cup {failure}
  /\ UNCHANGED <<failure, local, failing>>

ArchiveInit ==
  /\ failure = 0 /\ usedNames = {} /\ failing = {} /\ torn = {}
  /\ hand = [at |-> "idle", dir |-> NoName, created |-> FALSE, saved_video |-> FALSE]
  /\ local = [e \in 1 .. MaxFailures |-> EventFiles]
  /\ card = [n \in Names |-> NoDirectory]

ArchiveNext ==
  \/ GiveUp \/ GotoError \/ (\E n \in Names : MakeDirectory(n)) \/ OpenDirectory
  \/ CreateCopy \/ FinishCopy \/ CopyFails
  \/ SyncDirectory \/ SyncRoot \/ TidyUp \/ RemoveLocal \/ LosePower

ArchiveSpec == ArchiveInit /\ [][ArchiveNext]_archiveVars

-----------------------------------------------------------------------------
(* Properties.                                                              *)

(* Safe on the card, whatever happens from now on.                          *)
OnCard(e, f) ==
  \E n \in Names :
    /\ card[n].from = {e} /\ card[n].rooted /\ card[n].file[f] = "whole"
    /\ f \in card[n].data \cap card[n].entries

(* An event is on the device or on the card for good, file by file, also    *)
(* when the power goes between any two calls: unless a call has failed.     *)
NothingIsLost ==
  \A e \in 1 .. failure : \A f \in EventFiles :
    e \in failing \/ f \in local[e] \/ OnCard(e, f)

(* "Each job gets an exclusive directory, never overwriting older SD        *)
(* evidence": no directory holds files of two events, also when a name      *)
(* comes back after a restart.                                              *)
DirectoriesAreExclusive == \A n \in Names : Cardinality(card[n].from) <= 1

(* Once the local files go, the event's directory holds whole files only,   *)
(* the metadata not without the video; unless tidying up failed as well.    *)
(* This is what EventPipeline takes for the outcome of its step.            *)
ArchivedWhole ==
  hand.at \in {"video gone", "meta gone"} /\ failure \notin torn =>
    \A n \in Names : failure \in card[n].from =>
      card[n].file["video"] = "whole" /\ card[n].file["meta"] # "part"

(* The archive keeps what it was given, apart and whole.                    *)
ArchiveIsSound == NothingIsLost /\ DirectoriesAreExclusive /\ ArchivedWhole

=============================================================================
