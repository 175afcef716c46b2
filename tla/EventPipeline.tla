--------------------------- MODULE EventPipeline ----------------------------
(***************************************************************************)
(* From a confirmed alarm to its evidence: an event is published into the  *)
(* event queue, the clip thread (src/src/clip_writer.c) turns it into a    *)
(* video file and a metadata file and queues a job, the upload thread      *)
(* (src/src/uploader.c) sends both files, retries, and in the end deletes  *)
(* them or moves them to the SD card (event_files.h, failed_archive.h).    *)
(* The main thread (src/src/main.c) stops everything on a signal.          *)
(*                                                                         *)
(* The two queues are the channels that BoundedQueue implements. Which     *)
(* packets a clip holds is left to the packet ring; here a file is who     *)
(* wrote it and whether it is whole. A file's name is made of the time     *)
(* stamp of the event, and the video's also of the codec, so that events   *)
(* with one time stamp compete for their names.                            *)
(***************************************************************************)
EXTENDS Integers, Sequences, FiniteSets

CONSTANTS
  QueueCapacity, (* max_events of the configuration: length of both queues  *)
  UploadRetry,   (* upload_retry                                            *)
  DeleteAfterUpload, (* delete_after_upload                                 *)
  Stamps,        (* event_wall_ms an event may carry                        *)
  Codecs,        (* what the camera may send, out of h264 and h265          *)
  Leftovers,     (* whether an earlier run may have left files              *)
  Faults,        (* what may go wrong, out of the kinds below               *)
  SdMounted,     (* whether a card is mounted at /mnt/mmc01                 *)
  MaxEvents      (* bound of the model: events published in a behaviour     *)

ASSUME PipelineAssumption ==
  /\ QueueCapacity \in Nat \ {0}
  /\ UploadRetry \in Nat \ {0}
  /\ DeleteAfterUpload \in BOOLEAN
  /\ SdMounted \in BOOLEAN /\ Leftovers \in BOOLEAN
  /\ Codecs \subseteq {"h264", "h265"}
  /\ Faults \subseteq {"ring", "write", "delete", "sd", "network"}
  /\ MaxEvents \in Nat

Ids == 1 .. MaxEvents
Event == [id : Ids, stamp : Stamps]
Job == [id : Ids, stamp : Stamps, codec : Codecs]
VideoPath == Stamps \X Codecs
Absent == [owner |-> 0, whole |-> FALSE]
OldFile == [owner |-> -1, whole |-> TRUE]     (* left by an earlier run     *)
File == [owner : Ids, whole : BOOLEAN] \cup {Absent, OldFile}
AtStart == IF Leftovers THEN {Absent, OldFile} ELSE {Absent}
NoJob == [id |-> 0, stamp |-> 0, codec |-> "none"]

VARIABLES
  running,                    (* g_running                                  *)
  events, eventsClosed,       (* the event queue                            *)
  jobs, jobsClosed,           (* the upload queue                           *)
  mainPc, clipPc, uploadPc,   (* where the threads are                      *)
  clipJob,                    (* the event and job of the clip thread       *)
  uploadJob, tries,           (* the job of the upload thread, attempts     *)
  videos, metas,              (* the events directory                       *)
  server,                     (* what the server received, in order         *)
  sd,                         (* what the card holds of each event          *)
  published, fate             (* history: events so far, and their outcome  *)

queues == <<events, eventsClosed, jobs, jobsClosed>>
clipVars == <<clipPc, clipJob>>
uploadVars == <<uploadPc, uploadJob, tries>>
files == <<videos, metas>>
outside == <<server, sd>>
history == <<published, fate>>
vars == <<running, queues, mainPc, clipVars, uploadVars, files, outside, history>>

EventQueue == INSTANCE Channel
  WITH Capacity <- QueueCapacity, Item <- Event,
       contents <- events, closed <- eventsClosed
UploadQueue == INSTANCE Channel
  WITH Capacity <- QueueCapacity, Item <- Job,
       contents <- jobs, closed <- jobsClosed

Fails(kind) == kind \in Faults
Settle(id, outcome) == fate' = [fate EXCEPT ![id] = outcome]

VideoOf(job) == <<job.stamp, job.codec>>
HasOwnVideo(job) == videos[VideoOf(job)] = [owner |-> job.id, whole |-> TRUE]
HasOwnMeta(job) == metas[job.stamp] = [owner |-> job.id, whole |-> TRUE]

-----------------------------------------------------------------------------
(* abnormal_event_publish: never blocks; a full or closed queue drops the   *)
(* event. The HIKFlow threads are never joined: they publish until the      *)
(* process exits.                                                           *)
Publish(stamp) ==
  /\ mainPc # "exited"
  /\ published < MaxEvents
  /\ published' = published + 1
  /\ \/ /\ EventQueue!Accept([id |-> published + 1, stamp |-> stamp])
        /\ Settle(published + 1, "accepted")
     \/ /\ EventQueue!Refuses
        /\ Settle(published + 1, "dropped")
        /\ UNCHANGED <<events, eventsClosed>>
  /\ UNCHANGED <<running, jobs, jobsClosed, mainPc, clipVars, uploadVars,
                 files, outside>>

-----------------------------------------------------------------------------
(* The clip thread.                                                         *)

ClipGoto(label) == clipPc' = label
ClipUnchanged == UNCHANGED <<running, mainPc, uploadVars, outside, published>>

(* The loop condition: first the running flag, then a pop that may wait.    *)
ClipLoop ==
  /\ clipPc = "loop"
  /\ ClipGoto(IF running THEN "pop" ELSE "exited")
  /\ UNCHANGED <<queues, clipJob, files, fate>> /\ ClipUnchanged

ClipPop ==
  /\ clipPc = "pop"
  /\ \/ /\ EventQueue!Deliver
        /\ \E c \in Codecs : clipJob' = [id |-> Head(events).id,
                                         stamp |-> Head(events).stamp, codec |-> c]
        /\ ClipGoto("collect")
     \/ /\ EventQueue!Drained
        /\ ClipGoto("exited")
        /\ UNCHANGED <<events, eventsClosed, clipJob>>
  /\ UNCHANGED <<jobs, jobsClosed, files, fate>> /\ ClipUnchanged

ClipFails ==
  /\ ClipGoto("loop")
  /\ Settle(clipJob.id, "clip failed")

(* build_clip up to the first file: the packets before the event, the wait  *)
(* for those after it (cut short by the shutdown), and nothing to write     *)
(* when the ring had none or could not be copied.                           *)
ClipCollect ==
  /\ clipPc = "collect"
  /\ \/ ClipGoto("create video") /\ UNCHANGED fate
     \/ Fails("ring") /\ ClipFails
  /\ UNCHANGED <<queues, clipJob, files>> /\ ClipUnchanged

(* Variants: the file is truncated when it exists; a name that is taken is  *)
(* cleaned up like a file of one's own.                                     *)
CreateVideo_Truncates ==
  /\ clipPc = "create video"
  /\ videos' = [videos EXCEPT ![VideoOf(clipJob)] =
                                [owner |-> clipJob.id, whole |-> FALSE]]
  /\ ClipGoto("write video")
  /\ UNCHANGED <<queues, clipJob, metas, fate>> /\ ClipUnchanged
CreateVideo_CleansUp ==
  /\ clipPc = "create video"
  /\ \/ /\ videos[VideoOf(clipJob)] = Absent
        /\ videos' = [videos EXCEPT ![VideoOf(clipJob)] =
                                      [owner |-> clipJob.id, whole |-> FALSE]]
        /\ ClipGoto("write video")
     \/ /\ videos[VideoOf(clipJob)] # Absent
        /\ ClipGoto("discard video")
        /\ UNCHANGED videos
  /\ UNCHANGED <<queues, clipJob, metas, fate>> /\ ClipUnchanged

(* event_file_create: O_EXCL refuses a name that is taken. A file that was  *)
(* made but gets no stream is deleted again, and stays, empty, when that    *)
(* fails: that is WriteVideo failing and DiscardVideo after it. (Of the     *)
(* metadata it is WriteMeta.)                                               *)
CreateVideo ==
  /\ clipPc = "create video"
  /\ \/ /\ videos[VideoOf(clipJob)] = Absent
        /\ videos' = [videos EXCEPT ![VideoOf(clipJob)] =
                                      [owner |-> clipJob.id, whole |-> FALSE]]
        /\ ClipGoto("write video")
        /\ UNCHANGED fate
     \/ /\ videos[VideoOf(clipJob)] # Absent \/ Fails("write")
        /\ ClipFails
        /\ UNCHANGED videos
  /\ UNCHANGED <<queues, clipJob, metas>> /\ ClipUnchanged

WriteVideo ==
  /\ clipPc = "write video"
  /\ \/ /\ videos' = [videos EXCEPT ![VideoOf(clipJob)].whole = TRUE]
        /\ ClipGoto("create meta")
     \/ /\ Fails("write")
        /\ ClipGoto("discard video")
        /\ UNCHANGED videos
  /\ UNCHANGED <<queues, clipJob, metas, fate>> /\ ClipUnchanged

(* Variants: the file is truncated when it exists; the video stays behind   *)
(* when its metadata cannot be created.                                     *)
CreateMeta_Truncates ==
  /\ clipPc = "create meta"
  /\ metas' = [metas EXCEPT ![clipJob.stamp] =
                              [owner |-> clipJob.id, whole |-> FALSE]]
  /\ ClipGoto("write meta")
  /\ UNCHANGED <<queues, clipJob, videos, fate>> /\ ClipUnchanged
CreateMeta_LeavesVideo ==
  /\ clipPc = "create meta"
  /\ \/ /\ metas[clipJob.stamp] = Absent
        /\ metas' = [metas EXCEPT ![clipJob.stamp] =
                                    [owner |-> clipJob.id, whole |-> FALSE]]
        /\ ClipGoto("write meta")
        /\ UNCHANGED fate
     \/ /\ metas[clipJob.stamp] # Absent
        /\ ClipFails
        /\ UNCHANGED metas
  /\ UNCHANGED <<queues, clipJob, videos>> /\ ClipUnchanged

(* write_json opens its file in the same exclusive way.                     *)
CreateMeta ==
  /\ clipPc = "create meta"
  /\ \/ /\ metas[clipJob.stamp] = Absent
        /\ metas' = [metas EXCEPT ![clipJob.stamp] =
                                    [owner |-> clipJob.id, whole |-> FALSE]]
        /\ ClipGoto("write meta")
     \/ /\ metas[clipJob.stamp] # Absent \/ Fails("write")
        /\ ClipGoto("discard video")
        /\ UNCHANGED metas
  /\ UNCHANGED <<queues, clipJob, videos, fate>> /\ ClipUnchanged

(* A metadata file that could not be written is deleted, then its video.    *)
WriteMeta ==
  /\ clipPc = "write meta"
  /\ \/ /\ metas' = [metas EXCEPT ![clipJob.stamp].whole = TRUE]
        /\ ClipGoto("push")
        /\ Settle(clipJob.id, "clip ready")
     \/ /\ Fails("write")
        /\ \/ metas' = [metas EXCEPT ![clipJob.stamp] = Absent]
           \/ Fails("delete") /\ UNCHANGED metas
        /\ ClipGoto("discard video")
        /\ UNCHANGED fate
  /\ UNCHANGED <<queues, clipJob, videos>> /\ ClipUnchanged

DiscardVideo ==
  /\ clipPc = "discard video"
  /\ ClipGoto("loop")
  /\ \/ /\ videos' = [videos EXCEPT ![VideoOf(clipJob)] = Absent]
        /\ Settle(clipJob.id, "clip failed")
     \/ /\ Fails("delete")
        /\ Settle(clipJob.id, "left behind")
        /\ UNCHANGED videos
  /\ UNCHANGED <<queues, clipJob, metas>> /\ ClipUnchanged

(* Variant: a push that does not block; a job that finds no room is         *)
(* forgotten.                                                               *)
PushJob_NonBlocking ==
  /\ clipPc = "push"
  /\ \/ UploadQueue!Accept(clipJob)
     \/ UploadQueue!Refuses /\ UNCHANGED <<jobs, jobsClosed>>
  /\ ClipGoto("loop")
  /\ UNCHANGED <<events, eventsClosed, clipJob, files, fate>> /\ ClipUnchanged

(* upload_queue_push with block = 1: waits for room, fails once closed; the *)
(* failure is only logged and the files stay where they are.                *)
PushJob ==
  /\ clipPc = "push"
  /\ \/ UploadQueue!Accept(clipJob) /\ UNCHANGED fate
     \/ /\ jobsClosed
        /\ Settle(clipJob.id, "not queued")
        /\ UNCHANGED <<jobs, jobsClosed>>
  /\ ClipGoto("loop")
  /\ UNCHANGED <<events, eventsClosed, clipJob, files>> /\ ClipUnchanged

ClipThread == \/ ClipLoop \/ ClipPop \/ ClipCollect \/ CreateVideo \/ WriteVideo
              \/ CreateMeta \/ WriteMeta \/ DiscardVideo \/ PushJob

-----------------------------------------------------------------------------
(* The upload thread.                                                       *)

UploadGoto(label) == uploadPc' = label
UploadUnchanged == UNCHANGED <<running, events, eventsClosed, mainPc, clipVars,
                               published>>

UploadLoop ==
  /\ uploadPc = "loop"
  /\ UploadGoto(IF running THEN "pop" ELSE "exited")
  /\ UNCHANGED <<jobs, jobsClosed, uploadJob, tries, files, outside, fate>>
  /\ UploadUnchanged

UploadPop ==
  /\ uploadPc = "pop"
  /\ \/ /\ UploadQueue!Deliver
        /\ uploadJob' = Head(jobs)
        /\ tries' = 0
        /\ UploadGoto("attempt")
     \/ /\ UploadQueue!Drained
        /\ UploadGoto("exited")
        /\ UNCHANGED <<jobs, jobsClosed, uploadJob, tries>>
  /\ UNCHANGED <<files, outside, fate>> /\ UploadUnchanged

MayTry == tries < UploadRetry /\ running

(* What the server stores of a request: whatever the two files hold now.    *)
Request == [job |-> uploadJob.id, video |-> videos[VideoOf(uploadJob)],
            meta |-> metas[uploadJob.stamp]]
Readable == Request.video # Absent /\ Request.meta # Absent

(* upload_once succeeded: a 2xx status came back.                           *)
UploadConfirmed ==
  /\ uploadPc = "attempt" /\ MayTry /\ Readable
  /\ server' = Append(server, Request)
  /\ Settle(uploadJob.id, "confirmed")
  /\ UploadGoto(IF DeleteAfterUpload THEN "delete video" ELSE "loop")
  /\ UNCHANGED <<jobs, jobsClosed, uploadJob, tries, files, sd>>
  /\ UploadUnchanged

(* upload_once failed, and the thread sleeps before it goes on: the server  *)
(* may have stored the request all the same, its answer lost or not 2xx.    *)
UploadFails ==
  /\ uploadPc = "attempt" /\ MayTry
  /\ Fails("network") \/ ~ Readable
  /\ \/ UNCHANGED server
     \/ Readable /\ server' = Append(server, Request)
  /\ tries' = tries + 1
  /\ UNCHANGED <<jobs, jobsClosed, uploadPc, uploadJob, files, sd, fate>>
  /\ UploadUnchanged

(* Variant: only a job whose attempts are used up is copied to the card.    *)
ArchiveFailed_NotAtStop ==
  /\ uploadPc = "attempt" /\ ~ MayTry
  /\ sd' = [sd EXCEPT ![uploadJob.id] =
                        IF tries = UploadRetry THEN {"video", "meta"} ELSE {}]
  /\ Settle(uploadJob.id, "given up")
  /\ UploadGoto("remove video")
  /\ UNCHANGED <<jobs, jobsClosed, uploadJob, tries, files, server>>
  /\ UploadUnchanged

(* failed_archive_and_remove copies the video, then the metadata. Without a *)
(* card, a directory or an fsync nothing is gained; a video that could not  *)
(* be copied takes the directory with it.                                   *)
ArchiveFailed ==
  /\ uploadPc = "attempt" /\ ~ MayTry
  /\ \E copied \in {{}, {"video"}, {"video", "meta"}} :
       /\ copied # {} => SdMounted /\ Readable
       /\ copied # {"video", "meta"} => ~ SdMounted \/ Fails("sd") \/ ~ Readable
       /\ sd' = [sd EXCEPT ![uploadJob.id] = copied]
  /\ Settle(uploadJob.id, "given up")
  /\ UploadGoto("remove video")
  /\ UNCHANGED <<jobs, jobsClosed, uploadJob, tries, files, server>>
  /\ UploadUnchanged

(* event_files_after_upload: the metadata stays when the video cannot be    *)
(* deleted; after an archive both are deleted whatever happens.             *)
DeleteVideo ==
  /\ uploadPc \in {"delete video", "remove video"}
  /\ \/ /\ videos' = [videos EXCEPT ![VideoOf(uploadJob)] = Absent]
        /\ UploadGoto("delete meta")
        /\ UNCHANGED fate
     \/ /\ Fails("delete") /\ uploadPc = "delete video"
        /\ UploadGoto("loop")
        /\ UNCHANGED <<videos, fate>>
     \/ /\ Fails("delete") /\ uploadPc = "remove video"
        /\ UploadGoto("delete meta")
        /\ Settle(uploadJob.id, "left behind")
        /\ UNCHANGED videos
  /\ UNCHANGED <<jobs, jobsClosed, uploadJob, tries, metas, outside>>
  /\ UploadUnchanged

DeleteMeta ==
  /\ uploadPc = "delete meta"
  /\ \/ metas' = [metas EXCEPT ![uploadJob.stamp] = Absent]
     \/ Fails("delete") /\ UNCHANGED metas
  /\ UploadGoto("loop")
  /\ UNCHANGED <<jobs, jobsClosed, uploadJob, tries, videos, outside, fate>>
  /\ UploadUnchanged

UploadThread == \/ UploadLoop \/ UploadPop \/ UploadConfirmed \/ UploadFails
                \/ ArchiveFailed \/ DeleteVideo \/ DeleteMeta

-----------------------------------------------------------------------------
(* The main thread: SIGINT, SIGTERM or a failed start of the detector end   *)
(* its loop; it closes both queues, joins the threads and exits.            *)

MainUnchanged == UNCHANGED <<clipVars, uploadVars, files, outside, history>>

Stop ==
  /\ running
  /\ running' = FALSE
  /\ UNCHANGED <<queues, mainPc>> /\ MainUnchanged

CloseEvents ==
  /\ mainPc = "loop" /\ ~ running
  /\ EventQueue!Close
  /\ mainPc' = "close jobs"
  /\ UNCHANGED <<running, jobs, jobsClosed>> /\ MainUnchanged

(* Variant: only the event queue is closed.                                 *)
CloseJobs_Forgotten ==
  /\ mainPc = "close jobs"
  /\ mainPc' = "join"
  /\ UNCHANGED <<running, queues>> /\ MainUnchanged

CloseJobs ==
  /\ mainPc = "close jobs"
  /\ UploadQueue!Close
  /\ mainPc' = "join"
  /\ UNCHANGED <<running, events, eventsClosed>> /\ MainUnchanged

JoinAndExit ==
  /\ mainPc = "join"
  /\ clipPc = "exited" /\ uploadPc = "exited"
  /\ mainPc' = "exited"
  /\ UNCHANGED <<running, queues>> /\ MainUnchanged

MainThread == CloseEvents \/ CloseJobs \/ JoinAndExit

-----------------------------------------------------------------------------
Init ==
  /\ running = TRUE
  /\ EventQueue!Init /\ UploadQueue!Init
  /\ mainPc = "loop" /\ clipPc = "loop" /\ uploadPc = "loop"
  /\ clipJob = NoJob /\ uploadJob = NoJob /\ tries = 0
  /\ videos \in [VideoPath -> AtStart]
  /\ metas \in [Stamps -> AtStart]
  /\ server = << >>
  /\ sd = [e \in Ids |-> {}]
  /\ published = 0
  /\ fate = [e \in Ids |-> "none"]

Next == \/ \E s \in Stamps : Publish(s)
        \/ ClipThread \/ UploadThread \/ MainThread \/ Stop

Spec == Init /\ [][Next]_vars

(* Threads run, and every call to the network, the disk or the card returns *)
(* (it may fail). recv gives up after five seconds; send does not, so that  *)
(* the server is assumed to read or to go away. Nothing says that alarms    *)
(* come or that the program is ever stopped.                                *)
Fairness == WF_vars(ClipThread) /\ WF_vars(UploadThread) /\ WF_vars(MainThread)

FairSpec == Spec /\ Fairness

-----------------------------------------------------------------------------
Outcomes == {"none", "dropped", "accepted", "clip failed", "clip ready",
             "not queued", "confirmed", "given up", "left behind"}

TypeOK ==
  /\ running \in BOOLEAN
  /\ events \in Seq(Event) /\ Len(events) <= QueueCapacity
  /\ jobs \in Seq(Job) /\ Len(jobs) <= QueueCapacity
  /\ eventsClosed \in BOOLEAN /\ jobsClosed \in BOOLEAN
  /\ mainPc \in {"loop", "close jobs", "join", "exited"}
  /\ clipPc \in {"loop", "pop", "collect", "create video", "write video",
                 "create meta", "write meta", "discard video", "push", "exited"}
  /\ uploadPc \in {"loop", "pop", "attempt", "delete video", "remove video",
                   "delete meta", "exited"}
  /\ clipJob \in Job \cup {NoJob}
  /\ uploadJob \in Job \cup {NoJob}
  /\ tries \in 0 .. UploadRetry
  /\ videos \in [VideoPath -> File]
  /\ metas \in [Stamps -> File]
  /\ server \in Seq([job : Ids, video : File, meta : File])
  /\ sd \in [Ids -> SUBSET {"video", "meta"}]
  /\ published \in 0 .. MaxEvents
  /\ fate \in [Ids -> Outcomes]

(* The jobs whose files must be there: about to be queued, queued, or being *)
(* uploaded.                                                                *)
PendingJobs ==
  {jobs[i] : i \in DOMAIN jobs}
    \cup {j \in {clipJob} : clipPc = "push"}
    \cup {j \in {uploadJob} : uploadPc = "attempt"}

(* "Do not truncate/delete an older or queued event with the same name": a  *)
(* job that waits for its upload owns both its files, whole, whatever other *)
(* events of the same time stamp try to write, fail to write or clean up.   *)
PendingJobsOwnTheirFiles ==
  \A j \in PendingJobs : HasOwnVideo(j) /\ HasOwnMeta(j)

(* Every request the server stores carries the video and the metadata of    *)
(* one and the same event, complete.                                        *)
ServerGetsWholeEvents ==
  \A i \in DOMAIN server :
    LET own == [owner |-> server[i].job, whole |-> TRUE]
    IN  server[i].video = own /\ server[i].meta = own

(* Files left behind by an earlier run are never written over or deleted.   *)
OldFilesAreKept ==
  [][ /\ \A p \in VideoPath : videos[p] = OldFile => videos'[p] = OldFile
      /\ \A s \in Stamps : metas[s] = OldFile => metas'[s] = OldFile ]_vars

(* A clip once complete is never just gone: its video is still in the       *)
(* events directory, or the server confirmed it, or the card has it, or the *)
(* upload was given up and the card did not take it. Only in that last case *)
(* is the evidence lost, and then after UploadRetry attempts or a stop.     *)
LostForGood(e) == fate[e] = "given up" /\ sd[e] = {} /\ (~ SdMounted \/ Fails("sd"))
EvidenceIsSomewhere ==
  \A e \in Ids :
    fate[e] \in {"clip ready", "not queued", "confirmed", "given up"} =>
      \/ \E p \in VideoPath : videos[p] = [owner |-> e, whole |-> TRUE]
      \/ fate[e] = "confirmed" /\ \E i \in DOMAIN server : server[i].job = e
      \/ "video" \in sd[e]
      \/ LostForGood(e)

(* A video comes with its metadata: one without it is being written or      *)
(* deleted by the thread that owns it, and nothing partial stays behind,    *)
(* not even after a shutdown, except what could not be deleted.             *)
InHand(p) == \/ clipPc \notin {"loop", "pop", "exited"} /\ p = VideoOf(clipJob)
             \/ uploadPc \notin {"loop", "pop", "exited"} /\ p = VideoOf(uploadJob)
FilesComeInPairs ==
  \A p \in VideoPath :
    \/ videos[p] \in {Absent, OldFile}
    \/ InHand(p)
    \/ fate[videos[p].owner] = "left behind"
    \/ videos[p].whole /\ metas[p[1]] = videos[p]

(* A stop always ends the process: the closed queues release whichever      *)
(* thread waits, also a clip thread that waits for room among the jobs.     *)
StopEndsTheProcess == ~ running ~> mainPc = "exited"

(* Until the program is stopped, an accepted event is followed up: it does  *)
(* not stay in a queue or in a thread for ever.                             *)
AcceptedIsSettled ==
  \A e \in Ids :
    fate[e] = "accepted" ~>
      (fate[e] \in {"clip failed", "confirmed", "given up"} \/ ~ running)

(* app.conf: "Delete local video and JSON only after confirmed HTTP         *)
(* success." The code deletes them after a failed upload as well.           *)
DeletedOnlyAfterConfirmation ==
  \A e \in Ids :
    fate[e] \in {"clip ready", "not queued", "given up"} =>
      \E p \in VideoPath : videos[p] = [owner |-> e, whole |-> TRUE]

(* An event's video and metadata stay together and whole, from the clip     *)
(* thread to the server, whatever other events of the same name do.         *)
EventsStayWhole ==
  ServerGetsWholeEvents /\ FilesComeInPairs /\ PendingJobsOwnTheirFiles

(* Nothing hangs in the pipeline: an accepted event is followed up, and a   *)
(* stop ends the process.                                                   *)
PipelineIsLive == StopEndsTheProcess /\ AcceptedIsSettled

=============================================================================
