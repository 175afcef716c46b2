------------------------ MODULE EventPipelineProofs -------------------------
(***************************************************************************)
(* Proofs about EventPipeline, for every capacity of the queues, any       *)
(* number of events, time stamps and attempts, and any failing call: the   *)
(* types, the whole and paired files, where the evidence of an event is,   *)
(* and what is left alone. The inductive invariant follows each event from *)
(* the queue to its end (Tokens), and each file from who made it (Files,   *)
(* Kept).                                                                  *)
(***************************************************************************)
EXTENDS EventPipeline, SequenceTheorems, TLAPS

(* A thread has an event in hand.                                          *)
ClipBusy == clipPc \notin {"loop", "pop", "exited"}
UploadBusy == uploadPc \notin {"loop", "pop", "exited"}

(* The queue of events holds accepted events, each once.                   *)
EventsApart ==
  /\ \A i \in DOMAIN events : fate[events[i].id] = "accepted"
  /\ \A i, k \in DOMAIN events : events[i].id = events[k].id => i = k
  /\ \A e \in Ids : e > published => fate[e] = "none"

(* The event of the clip thread has left the queue; its clip is ready once *)
(* metadata are complete.                                                  *)
ClipHolds ==
  ClipBusy =>
    /\ clipJob \in Job
    /\ fate[clipJob.id] = IF clipPc = "push" THEN "clip ready" ELSE "accepted"
    /\ \A i \in DOMAIN events : events[i].id # clipJob.id

(* The queue of jobs holds finished clips, each once, and none that is still *)
(* to be pushed.                                                           *)
JobsApart ==
  /\ \A i \in DOMAIN jobs : fate[jobs[i].id] = "clip ready"
  /\ \A i, k \in DOMAIN jobs : jobs[i].id = jobs[k].id => i = k
  /\ clipPc = "push" => \A i \in DOMAIN jobs : jobs[i].id # clipJob.id

(* The job of the upload thread has left the queue, and the label tells what *)
(* was settled about it.                                                   *)
UploadHolds ==
  /\ UploadBusy => uploadJob \in Job
  /\ uploadPc = "attempt" =>
       /\ fate[uploadJob.id] = "clip ready"
       /\ \A i \in DOMAIN jobs : jobs[i].id # uploadJob.id
       /\ clipPc = "push" => clipJob.id # uploadJob.id
  /\ uploadPc = "delete video" => fate[uploadJob.id] = "confirmed"
  /\ uploadPc = "remove video" => fate[uploadJob.id] = "given up"
  /\ uploadPc = "delete meta" => fate[uploadJob.id] \in {"confirmed", "given up", "left behind"}

(* What the clip thread has made so far, from one of its labels to the next. *)
ClipFiles ==
  /\ clipPc = "write video" =>
       videos[VideoOf(clipJob)] = [owner |-> clipJob.id, whole |-> FALSE]
  /\ clipPc \in {"create meta", "write meta"} => HasOwnVideo(clipJob)
  /\ clipPc = "write meta" => metas[clipJob.stamp] = [owner |-> clipJob.id, whole |-> FALSE]
  /\ clipPc = "discard video" => videos[VideoOf(clipJob)].owner = clipJob.id
  /\ clipPc = "push" => HasOwnVideo(clipJob) /\ HasOwnMeta(clipJob)

(* A job that waits owns both its files.                                   *)
QueuedFiles == \A i \in DOMAIN jobs : HasOwnVideo(jobs[i]) /\ HasOwnMeta(jobs[i])

(* The upload thread deletes the video first; a video that stays although  *)
(* the job is settled could not be deleted.                                *)
UploadFiles ==
  /\ uploadPc \in {"attempt", "delete video", "remove video"} => HasOwnVideo(uploadJob)
  /\ UploadBusy => HasOwnMeta(uploadJob)
  /\ uploadPc = "delete meta" =>
       \A p \in VideoPath : videos[p].owner = uploadJob.id => fate[uploadJob.id] = "left behind"

(* A video has been made by a clip that was accepted, and is the one in hand *)
(* until it is finished.                                                   *)
VideoMakers ==
  \A v \in VideoPath : videos[v].owner \in Ids =>
    /\ fate[videos[v].owner] \notin {"none", "dropped"}
    /\ fate[videos[v].owner] = "accepted" =>
         /\ clipPc \in {"write video", "create meta", "write meta", "discard video"}
         /\ videos[v].owner = clipJob.id

(* The same of the metadata.                                               *)
MetaMakers ==
  \A s \in Stamps : metas[s].owner \in Ids =>
    /\ fate[metas[s].owner] \notin {"none", "dropped"}
    /\ fate[metas[s].owner] = "accepted" =>
         clipPc \in {"write meta", "discard video"} /\ metas[s].owner = clipJob.id

(* No event makes two videos.                                              *)
OneVideoEach ==
  \A p, q \in VideoPath : videos[p].owner = videos[q].owner /\ videos[p].owner \in Ids => p = q

(* A video that is nobody's work in progress is an old one, one that could *)
(* not be deleted, or whole and beside its own metadata.                   *)
Paired ==
  \A p \in VideoPath :
    \/ videos[p] \in {Absent, OldFile}
    \/ ClipBusy /\ p = VideoOf(clipJob) /\ videos[p].owner = clipJob.id
    \/ fate[videos[p].owner] = "left behind"
    \/ videos[p].whole /\ metas[p[1]] = videos[p]

(* Where a finished clip is, by its outcome.                               *)
Kept ==
  \A e \in Ids :
    /\ fate[e] \in {"clip ready", "not queued"} =>
         \E p \in VideoPath : videos[p] = [owner |-> e, whole |-> TRUE]
    /\ fate[e] = "confirmed" => \E i \in DOMAIN server : server[i].job = e
    /\ fate[e] = "given up" => "video" \in sd[e] \/ LostForGood(e)

(* Who holds which event; whose the files are.                             *)
Tokens == EventsApart /\ ClipHolds /\ JobsApart /\ UploadHolds
Files ==
  ClipFiles /\ QueuedFiles /\ UploadFiles /\ VideoMakers /\ MetaMakers /\ OneVideoEach /\ Paired

(* Lemmas about queues of which no two elements have one id.               *)
Distinct(q) == \A i, k \in DOMAIN q : q[i].id = q[k].id => i = k

LEMMA JoinedLast ==
  ASSUME NEW T, NEW q \in Seq(T), NEW x \in T, NEW r, r = Append(q, x),
         Distinct(q), \A i \in DOMAIN q : q[i].id # x.id
  PROVE  /\ Distinct(r)
         /\ \A i \in DOMAIN r : r[i] = x \/ \E k \in DOMAIN q : r[i] = q[k]
<1>1. /\ DOMAIN q = 1 .. Len(q) /\ Len(q) \in Nat
      /\ DOMAIN r = 1 .. Len(q) + 1
      /\ \A i \in 1 .. Len(q) : r[i] = q[i]
      /\ r[Len(q) + 1] = x
  BY AppendProperties, LenProperties
<1>2. \A i \in DOMAIN r : (i \in DOMAIN q /\ r[i] = q[i]) \/ (i = Len(q) + 1 /\ r[i] = x)
  BY <1>1
<1>. QED  BY <1>2 DEF Distinct

LEMMA LeftFirst ==
  ASSUME NEW T, NEW q \in Seq(T), q # << >>, Distinct(q), NEW r, r = Tail(q)
  PROVE  /\ Distinct(r)
         /\ Head(q) = q[1] /\ 1 \in DOMAIN q /\ Head(q) \in T
         /\ \A i \in DOMAIN r : r[i].id # Head(q).id /\ \E k \in DOMAIN q : r[i] = q[k]
<1>1. /\ Head(q) = q[1] /\ 1 \in DOMAIN q /\ Head(q) \in T
      /\ DOMAIN q = 1 .. Len(q) /\ Len(q) \in Nat /\ DOMAIN r = 1 .. Len(q) - 1
      /\ \A i \in DOMAIN r : r[i] = q[i + 1]
  BY HeadTailProperties, LenProperties, EmptySeq
<1>2. \A i \in DOMAIN r : i + 1 \in DOMAIN q /\ i \in Nat /\ i + 1 # 1 /\ r[i] = q[i + 1]
  BY <1>1
<1>3. Distinct(r)
  <2>1. SUFFICES ASSUME NEW i \in DOMAIN r, NEW k \in DOMAIN r, r[i].id = r[k].id PROVE i = k
    BY DEF Distinct
  <2>2. i + 1 = k + 1
    BY <1>2, <2>1 DEF Distinct
  <2> QED BY <1>2, <2>2
<1>. QED  BY <1>1, <1>2, <1>3 DEF Distinct

LEMMA Appended ==
  ASSUME NEW T, NEW q \in Seq(T), NEW x \in T
  PROVE  /\ Append(q, x) \in Seq(T)
         /\ Len(Append(q, x)) = Len(q) + 1
         /\ DOMAIN q = 1 .. Len(q)
         /\ DOMAIN Append(q, x) = 1 .. Len(q) + 1
         /\ \A i \in 1 .. Len(q) : Append(q, x)[i] = q[i]
         /\ Append(q, x)[Len(q) + 1] = x
BY AppendProperties, LenProperties

LEMMA Shortened ==
  ASSUME NEW T, NEW q \in Seq(T), q # << >>
  PROVE  /\ Head(q) \in T /\ Head(q) = q[1] /\ 1 \in DOMAIN q
         /\ Tail(q) \in Seq(T)
         /\ Len(Tail(q)) = Len(q) - 1
         /\ \A i \in DOMAIN Tail(q) : i + 1 \in DOMAIN q /\ i \in Nat /\ Tail(q)[i] = q[i + 1]
BY HeadTailProperties, LenProperties, EmptySeq

(* What the types and tokens say of elements and of what is in hand.       *)
LEMMA ElementsAreJobs ==
  ASSUME TypeOK PROVE
  /\ \A i \in DOMAIN events : events[i].id \in Ids
  /\ \A i \in DOMAIN jobs : jobs[i] \in Job /\ jobs[i].id \in Ids
<1>1. events \in Seq(Event) /\ jobs \in Seq(Job)
  BY DEF TypeOK
<1>2. \A i \in DOMAIN events : events[i] \in Event
  BY <1>1, ElementOfSeq, LenProperties
<1>3. \A i \in DOMAIN jobs : jobs[i] \in Job
  BY <1>1, ElementOfSeq, LenProperties
<1>. QED  BY <1>2, <1>3 DEF Event, Job

LEMMA ClipJobIs ==
  ASSUME TypeOK, ClipHolds, ClipBusy
  PROVE  /\ clipJob \in Job /\ clipJob.id \in Ids /\ clipJob.stamp \in Stamps
         /\ VideoOf(clipJob) \in VideoPath /\ VideoOf(clipJob)[1] = clipJob.stamp
         /\ [owner |-> clipJob.id, whole |-> FALSE] \in File
         /\ [owner |-> clipJob.id, whole |-> TRUE] \in File
BY DEF ClipHolds, Job, VideoOf, VideoPath, File

LEMMA UploadJobIs ==
  ASSUME TypeOK, UploadHolds, UploadBusy
  PROVE  /\ uploadJob \in Job /\ uploadJob.id \in Ids /\ uploadJob.stamp \in Stamps
         /\ VideoOf(uploadJob) \in VideoPath /\ VideoOf(uploadJob)[1] = uploadJob.stamp
BY DEF UploadHolds, Job, VideoOf, VideoPath

LEMMA Owners ==
  ASSUME TypeOK
  PROVE  \A f \in File :
           /\ f.owner \in Ids <=> f \notin {Absent, OldFile}
           /\ f.whole \in BOOLEAN
           /\ f = [owner |-> f.owner, whole |-> f.whole]
<1>. SUFFICES ASSUME NEW f \in File PROVE /\ f.owner \in Ids <=> f \notin {Absent, OldFile}
           /\ f.whole \in BOOLEAN
           /\ f = [owner |-> f.owner, whole |-> f.whole]
  OBVIOUS
<1>1. CASE f \in [owner : Ids, whole : BOOLEAN]
  BY <1>1 DEF Absent, OldFile, Ids
<1>2. CASE f \in {Absent, OldFile}
  <2>1. 0 \notin Ids /\ -1 \notin Ids
    BY PipelineAssumption DEF Ids
  <2>2. CASE f = Absent
    BY <2>1, <2>2 DEF Absent
  <2>3. CASE f = OldFile
    BY <2>1, <2>3 DEF OldFile
  <2>. QED  BY <1>2, <2>2, <2>3
<1>. QED  BY <1>1, <1>2 DEF File

(* The types, by who changes the variables.                                 *)
EventsTyped == events \in Seq(Event) /\ Len(events) <= QueueCapacity /\ eventsClosed \in BOOLEAN
JobsTyped == jobs \in Seq(Job) /\ Len(jobs) <= QueueCapacity /\ jobsClosed \in BOOLEAN
ClipTyped ==
  /\ clipPc \in {"loop", "pop", "collect", "create video", "write video",
                 "create meta", "write meta", "discard video", "push", "exited"}
  /\ clipJob \in Job \cup {NoJob}
UploadTyped ==
  /\ uploadPc \in {"loop", "pop", "attempt", "delete video", "remove video",
                   "delete meta", "exited"}
  /\ uploadJob \in Job \cup {NoJob} /\ tries \in 0 .. UploadRetry
FilesTyped == videos \in [VideoPath -> File] /\ metas \in [Stamps -> File]
OutsideTyped ==
  /\ server \in Seq([job : Ids, video : File, meta : File])
  /\ sd \in [Ids -> SUBSET {"video", "meta"}]
FateTyped == fate \in [Ids -> Outcomes]
MainTyped ==
  /\ running \in BOOLEAN /\ mainPc \in {"loop", "close jobs", "join", "exited"}

LEMMA TypeParts ==
  LET Parts == /\ EventsTyped /\ JobsTyped /\ ClipTyped /\ UploadTyped /\ FilesTyped
               /\ OutsideTyped /\ FateTyped /\ MainTyped /\ published \in 0 .. MaxEvents
  IN  (TypeOK => Parts) /\ (Parts' => TypeOK')
BY DEF TypeOK, EventsTyped, JobsTyped, ClipTyped, UploadTyped, FilesTyped, OutsideTyped,
       FateTyped, MainTyped

LEMMA PartsKept ==
  /\ EventsTyped /\ UNCHANGED <<events, eventsClosed>> => EventsTyped'
  /\ JobsTyped /\ UNCHANGED <<jobs, jobsClosed>> => JobsTyped'
  /\ ClipTyped /\ UNCHANGED clipVars => ClipTyped'
  /\ UploadTyped /\ UNCHANGED uploadVars => UploadTyped'
  /\ FilesTyped /\ UNCHANGED files => FilesTyped'
  /\ OutsideTyped /\ UNCHANGED outside => OutsideTyped'
  /\ FateTyped /\ UNCHANGED fate => FateTyped'
  /\ MainTyped /\ UNCHANGED <<running, mainPc>> => MainTyped'
BY DEF EventsTyped, JobsTyped, ClipTyped, UploadTyped, FilesTyped, OutsideTyped,
       FateTyped, MainTyped, clipVars, uploadVars, files, outside

(* Settling one fate, writing one file.                                    *)
LEMMA FateSettles ==
  ASSUME FateTyped, NEW id \in Ids, NEW o \in Outcomes, Settle(id, o)
  PROVE  FateTyped' /\ fate'[id] = o /\ \A e \in Ids \ {id} : fate'[e] = fate[e]
BY DEF FateTyped, Settle

LEMMA FileWritten ==
  ASSUME FilesTyped
  PROVE  /\ \A p \in VideoPath, f \in File : [videos EXCEPT ![p] = f] \in [VideoPath -> File]
         /\ \A s \in Stamps, f \in File : [metas EXCEPT ![s] = f] \in [Stamps -> File]
         /\ Absent \in File
BY DEF FilesTyped, File

LEMMA Completed ==
  ASSUME NEW id, NEW f, f = [owner |-> id, whole |-> FALSE]
  PROVE  [f EXCEPT !.whole = TRUE] = [owner |-> id, whole |-> TRUE]
<1>1. f \in [owner : {id}, whole : BOOLEAN]
  OBVIOUS
<1>2. [f EXCEPT !.whole = TRUE] \in [owner : {id}, whole : BOOLEAN]
  BY <1>1
<1>3. [f EXCEPT !.whole = TRUE].whole = TRUE /\ [f EXCEPT !.whole = TRUE].owner = id
  BY <1>1
<1>4. \A g \in [owner : {id}, whole : BOOLEAN] : g = [owner |-> g.owner, whole |-> g.whole]
  OBVIOUS
<1>. QED  BY <1>2, <1>3, <1>4

LEMMA WritesOwn ==
  ASSUME TypeOK, ClipHolds, ClipFiles
  PROVE  /\ WriteVideo => \/ UNCHANGED videos
                         \/ videos' = [videos EXCEPT ![VideoOf(clipJob)] =
                                                       [owner |-> clipJob.id, whole |-> TRUE]]
         /\ WriteMeta => \/ UNCHANGED metas
                        \/ metas' = [metas EXCEPT ![clipJob.stamp] =
                                                    [owner |-> clipJob.id, whole |-> TRUE]]
                        \/ metas' = [metas EXCEPT ![clipJob.stamp] = Absent]
<1>1. ASSUME WriteVideo, videos' # videos
      PROVE  videos' = [videos EXCEPT ![VideoOf(clipJob)] =
                                        [owner |-> clipJob.id, whole |-> TRUE]]
  <2>1. /\ videos' = [videos EXCEPT ![VideoOf(clipJob)].whole = TRUE]
        /\ videos[VideoOf(clipJob)] = [owner |-> clipJob.id, whole |-> FALSE]
    BY <1>1 DEF WriteVideo, ClipFiles
  <2>2. [videos[VideoOf(clipJob)] EXCEPT !.whole = TRUE] = [owner |-> clipJob.id, whole |-> TRUE]
    BY <2>1, Completed
  <2>. QED  BY <2>1, <2>2
<1>2. ASSUME WriteMeta, metas' = [metas EXCEPT ![clipJob.stamp].whole = TRUE]
      PROVE  metas' = [metas EXCEPT ![clipJob.stamp] =
                                      [owner |-> clipJob.id, whole |-> TRUE]]
  <2>1. metas[clipJob.stamp] = [owner |-> clipJob.id, whole |-> FALSE]
    BY <1>2 DEF WriteMeta, ClipFiles
  <2>2. [metas[clipJob.stamp] EXCEPT !.whole = TRUE] = [owner |-> clipJob.id, whole |-> TRUE]
    BY <2>1, Completed
  <2>. QED  BY <1>2, <2>2
<1>. QED  BY <1>1, <1>2 DEF WriteMeta

LEMMA PublishTypes == ASSUME TypeOK, NEW s \in Stamps, Publish(s) PROVE TypeOK'
<1>1. published' = published + 1 /\ published < MaxEvents
  BY DEF Publish
<1>2. published' \in 0 .. MaxEvents /\ published + 1 \in Ids
  BY <1>1, TypeParts, PipelineAssumption DEF Ids
<1>3. EventsTyped'
  <2>1. [id |-> published + 1, stamp |-> s] \in Event
    BY <1>2 DEF Event
  <2>2. EventsTyped
    BY TypeParts
  <2>. QED
    BY <2>1, <2>2, Appended, LenProperties, PipelineAssumption
    DEF Publish, EventQueue!Accept, EventQueue!HasRoom, EventsTyped
<1>4. FateTyped'
  BY <1>2, TypeParts, FateSettles DEF Publish, Outcomes
<1>5. /\ UNCHANGED <<jobs, jobsClosed>> /\ UNCHANGED <<running, mainPc>>
      /\ UNCHANGED clipVars /\ UNCHANGED uploadVars /\ UNCHANGED files /\ UNCHANGED outside
  BY DEF Publish
<1>. QED
  BY <1>2, <1>3, <1>4, <1>5, TypeParts, PartsKept

LEMMA ClipTypes == ASSUME TypeOK, ClipHolds, ClipFiles, ClipThread PROVE TypeOK'
<1>1. /\ UNCHANGED <<running, mainPc, published>> /\ UNCHANGED uploadVars /\ UNCHANGED outside
  BY DEF ClipThread, ClipUnchanged, ClipLoop, ClipPop, ClipCollect, CreateVideo, WriteVideo,
         CreateMeta, WriteMeta, DiscardVideo, PushJob
<1>2. MainTyped' /\ UploadTyped' /\ OutsideTyped' /\ published' \in 0 .. MaxEvents
  BY <1>1, TypeParts, PartsKept
<1>3. EventsTyped'
  <2>1. CASE ClipPop /\ EventQueue!Deliver
    BY <2>1, TypeParts, Shortened, LenProperties, PipelineAssumption
    DEF EventQueue!Deliver, EventsTyped
  <2>2. CASE UNCHANGED <<events, eventsClosed>>
    BY <2>2, TypeParts, PartsKept
  <2>. QED
    BY <2>1, <2>2 DEF ClipThread, ClipLoop, ClipPop, ClipCollect, CreateVideo, WriteVideo,
         CreateMeta, WriteMeta, DiscardVideo, PushJob, queues
<1>4. JobsTyped'
  <2>1. CASE PushJob /\ UploadQueue!Accept(clipJob)
    <3>1. clipJob \in Job
      BY <2>1, ClipJobIs DEF PushJob, ClipBusy
    <3>. QED
      BY <2>1, <3>1, TypeParts, Appended, LenProperties, PipelineAssumption
      DEF UploadQueue!Accept, UploadQueue!HasRoom, JobsTyped
  <2>2. CASE UNCHANGED <<jobs, jobsClosed>>
    BY <2>2, TypeParts, PartsKept
  <2>. QED
    BY <2>1, <2>2 DEF ClipThread, ClipLoop, ClipPop, ClipCollect, CreateVideo, WriteVideo,
         CreateMeta, WriteMeta, DiscardVideo, PushJob, queues
<1>5. ClipTyped'
  <2>1. clipJob' \in Job \cup {NoJob}
    <3>1. CASE ClipPop /\ EventQueue!Deliver
      <4>1. Head(events) \in Event
        BY <3>1, TypeParts, Shortened DEF EventQueue!Deliver, EventsTyped
      <4>2. PICK c \in Codecs : clipJob' = [id |-> Head(events).id,
                                            stamp |-> Head(events).stamp, codec |-> c]
        BY <3>1 DEF ClipPop, EventQueue!Deliver, EventQueue!Drained
      <4>. QED  BY <4>1, <4>2 DEF Event, Job
    <3>2. CASE UNCHANGED clipJob
      BY <3>2, TypeParts DEF ClipTyped
    <3>. QED
      BY <3>1, <3>2 DEF ClipThread, ClipLoop, ClipPop, ClipCollect, CreateVideo, WriteVideo,
           CreateMeta, WriteMeta, DiscardVideo, PushJob
  <2>. QED
    BY <2>1 DEF ClipTyped, ClipGoto, ClipFails, ClipThread, ClipLoop, ClipPop, ClipCollect,
         CreateVideo, WriteVideo, CreateMeta, WriteMeta, DiscardVideo, PushJob
<1>6. FilesTyped'
  <2>1. CASE UNCHANGED files
    BY <2>1, TypeParts, PartsKept
  <2>2. CASE CreateVideo \/ WriteVideo \/ CreateMeta \/ WriteMeta \/ DiscardVideo
    <3>1. FilesTyped /\ ClipBusy
      BY <2>2, TypeParts DEF ClipBusy, CreateVideo, WriteVideo, CreateMeta, WriteMeta, DiscardVideo
    <3>2. videos' \in [VideoPath -> File]
      BY <2>2, <3>1, ClipJobIs, FileWritten, WritesOwn
      DEF FilesTyped, CreateVideo, CreateMeta, WriteMeta, DiscardVideo, WriteVideo
    <3>3. metas' \in [Stamps -> File]
      BY <2>2, <3>1, ClipJobIs, FileWritten, WritesOwn
      DEF FilesTyped, CreateVideo, CreateMeta, WriteMeta, DiscardVideo, WriteVideo
    <3>. QED  BY <3>2, <3>3 DEF FilesTyped
  <2>. QED
    BY <2>1, <2>2 DEF ClipThread, ClipLoop, ClipPop, ClipCollect, PushJob
<1>7. FateTyped'
  <2>1. CASE UNCHANGED fate
    BY <2>1, TypeParts, PartsKept
  <2>2. ASSUME NEW o \in Outcomes, Settle(clipJob.id, o), ClipBusy PROVE FateTyped'
    BY <2>2, ClipJobIs, TypeParts, FateSettles
  <2>. QED
    BY <2>1, <2>2 DEF ClipThread, ClipLoop, ClipPop, ClipCollect, ClipFails, CreateVideo, WriteVideo,
         CreateMeta, WriteMeta, DiscardVideo, PushJob, ClipBusy, Outcomes
<1>. QED  BY <1>2, <1>3, <1>4, <1>5, <1>6, <1>7, TypeParts

LEMMA UploadTypes == ASSUME TypeOK, UploadHolds, UploadThread PROVE TypeOK'
<1>1. /\ UNCHANGED <<running, mainPc>> /\ UNCHANGED <<events, eventsClosed>>
      /\ UNCHANGED clipVars /\ UNCHANGED published
  BY DEF UploadThread, UploadUnchanged, UploadLoop, UploadPop, UploadConfirmed, UploadFails,
         ArchiveFailed, DeleteVideo, DeleteMeta
<1>2. MainTyped' /\ EventsTyped' /\ ClipTyped' /\ published' \in 0 .. MaxEvents
  BY <1>1, TypeParts, PartsKept
<1>3. JobsTyped' /\ UploadTyped'
  <2>1. CASE UploadPop /\ UploadQueue!Deliver
    <3>1. JobsTyped' /\ Head(jobs) \in Job
      BY <2>1, TypeParts, Shortened, LenProperties, PipelineAssumption
      DEF UploadQueue!Deliver, JobsTyped
    <3>2. uploadJob' = Head(jobs) /\ tries' = 0 /\ uploadPc' = "attempt"
      BY <2>1 DEF UploadPop, UploadGoto, UploadQueue!Deliver, UploadQueue!Drained
    <3>. QED  BY <3>1, <3>2, PipelineAssumption DEF UploadTyped
  <2>2. CASE UNCHANGED <<jobs, jobsClosed>> /\ UNCHANGED <<uploadJob, tries>>
    <3>1. uploadPc' = uploadPc \/ uploadPc' \in {"loop", "pop", "attempt", "exited", "delete video", "remove video", "delete meta"}
      BY <2>2 DEF UploadThread, UploadGoto, UploadLoop, UploadPop, UploadConfirmed, UploadFails,
             ArchiveFailed, DeleteVideo, DeleteMeta, UploadQueue!Deliver
    <3>. QED  BY <2>2, <3>1, TypeParts, PartsKept DEF UploadTyped
  <2>3. CASE UploadFails
    <3>1. tries' = tries + 1 /\ tries < UploadRetry
      BY <2>3 DEF UploadFails, MayTry
    <3>2. UNCHANGED <<jobs, jobsClosed>> /\ UNCHANGED <<uploadPc, uploadJob>>
      BY <2>3 DEF UploadFails
    <3>3. UploadTyped /\ JobsTyped
      BY TypeParts
    <3>4. tries' \in 0 .. UploadRetry
      <4>1. tries \in 0 .. UploadRetry
        BY <3>3 DEF UploadTyped
      <4>. QED  BY <3>1, <4>1, PipelineAssumption
    <3>. QED  BY <3>2, <3>3, <3>4, PartsKept DEF UploadTyped
  <2>. QED
    BY <2>1, <2>2, <2>3 DEF UploadThread, UploadLoop, UploadPop, UploadConfirmed,
       ArchiveFailed, DeleteVideo, DeleteMeta
<1>4. FilesTyped'
  <2>1. CASE UNCHANGED files
    BY <2>1, TypeParts, PartsKept
  <2>2. CASE DeleteVideo \/ DeleteMeta
    <3>1. FilesTyped /\ UploadBusy
      BY <2>2, TypeParts DEF UploadBusy, DeleteVideo, DeleteMeta
    <3>2. videos' \in [VideoPath -> File]
      BY <2>2, <3>1, UploadJobIs, FileWritten DEF FilesTyped, DeleteVideo, DeleteMeta
    <3>3. metas' \in [Stamps -> File]
      BY <2>2, <3>1, UploadJobIs, FileWritten DEF FilesTyped, DeleteVideo, DeleteMeta
    <3>. QED  BY <3>2, <3>3 DEF FilesTyped
  <2>. QED
    BY <2>1, <2>2 DEF UploadThread, UploadLoop, UploadPop, UploadConfirmed, UploadFails, ArchiveFailed
<1>5. OutsideTyped'
  <2>1. CASE UNCHANGED outside
    BY <2>1, TypeParts, PartsKept
  <2>2. CASE UploadBusy /\ UNCHANGED sd /\ server' = Append(server, Request)
    <3>1. Request \in [job : Ids, video : File, meta : File]
      BY <2>2, UploadJobIs, TypeParts DEF Request, FilesTyped
    <3>. QED  BY <2>2, <3>1, TypeParts, Appended DEF OutsideTyped
  <2>3. CASE ArchiveFailed
    BY <2>3, UploadJobIs, TypeParts DEF ArchiveFailed, UploadBusy, OutsideTyped
  <2>. QED
    BY <2>1, <2>2, <2>3 DEF UploadThread, UploadLoop, UploadPop, UploadConfirmed, UploadFails,
       DeleteVideo, DeleteMeta, UploadBusy, outside
<1>6. FateTyped'
  <2>1. CASE UNCHANGED fate
    BY <2>1, TypeParts, PartsKept
  <2>2. ASSUME NEW o \in Outcomes, Settle(uploadJob.id, o), UploadBusy PROVE FateTyped'
    BY <2>2, UploadJobIs, TypeParts, FateSettles
  <2>. QED
    BY <2>1, <2>2 DEF UploadThread, UploadLoop, UploadPop, UploadConfirmed, UploadFails,
       ArchiveFailed, DeleteVideo, DeleteMeta, UploadBusy, Outcomes
<1>. QED  BY <1>2, <1>3, <1>4, <1>5, <1>6, TypeParts

LEMMA MainTypes == ASSUME TypeOK, MainThread \/ Stop PROVE TypeOK'
<1>1. /\ UNCHANGED clipVars /\ UNCHANGED uploadVars /\ UNCHANGED files /\ UNCHANGED outside
      /\ UNCHANGED fate /\ UNCHANGED published
  BY DEF MainThread, Stop, MainUnchanged, CloseEvents, CloseJobs, JoinAndExit, history
<1>2. EventsTyped' /\ JobsTyped'
  BY TypeParts DEF MainThread, Stop, CloseEvents, CloseJobs, JoinAndExit, EventsTyped, JobsTyped,
     EventQueue!Close, UploadQueue!Close, queues
<1>3. MainTyped'
  BY TypeParts DEF MainThread, Stop, CloseEvents, CloseJobs, JoinAndExit, MainTyped
<1>. QED  BY <1>1, <1>2, <1>3, TypeParts, PartsKept

LEMMA PipelineInitTypes == Init => TypeOK
<1> SUFFICES ASSUME Init PROVE TypeOK
  OBVIOUS
<1>1. EventsTyped /\ JobsTyped
  <2>1. events = << >> /\ jobs = << >> /\ eventsClosed = FALSE /\ jobsClosed = FALSE
    BY DEF Init, EventQueue!Init, UploadQueue!Init
  <2>2. Len(<< >>) <= QueueCapacity
    BY EmptySeq, PipelineAssumption
  <2>. QED  BY <2>1, <2>2, EmptySeq DEF EventsTyped, JobsTyped
<1>2. ClipTyped /\ UploadTyped /\ MainTyped
  BY PipelineAssumption DEF Init, ClipTyped, UploadTyped, MainTyped
<1>3. FilesTyped
  <2>1. AtStart \subseteq File
    BY DEF AtStart, File
  <2>. QED  BY <2>1 DEF Init, FilesTyped
<1>4. OutsideTyped /\ FateTyped
  BY EmptySeq DEF Init, OutsideTyped, FateTyped, Outcomes
<1>5. published \in 0 .. MaxEvents
  BY PipelineAssumption DEF Init
<1>. QED  BY <1>1, <1>2, <1>3, <1>4, <1>5 DEF TypeOK, EventsTyped, JobsTyped, ClipTyped, UploadTyped,
     FilesTyped, OutsideTyped, FateTyped, MainTyped

-----------------------------------------------------------------------------
(* Which event is where.                                                    *)

LEMMA PublishTokens ==
  ASSUME TypeOK, Tokens, NEW s \in Stamps, Publish(s) PROVE Tokens'
<1> DEFINE new == published + 1
<1>1. new \in Ids /\ published' = new /\ new > published /\ published \in Nat
  BY TypeParts, PipelineAssumption DEF Publish, Ids
<1>2. fate[new] = "none"
  BY <1>1 DEF Tokens, EventsApart
<1>3. \A e \in Ids \ {new} : fate'[e] = fate[e]
  BY <1>1, TypeParts, FateSettles DEF Publish, Outcomes
<1>4. /\ UNCHANGED clipPc /\ UNCHANGED clipJob /\ UNCHANGED uploadPc /\ UNCHANGED uploadJob
      /\ UNCHANGED jobs
  BY DEF Publish, clipVars, uploadVars
<1>5. EventsApart'
  <2>1. CASE EventQueue!Accept([id |-> new, stamp |-> s])
    <3>1. [id |-> new, stamp |-> s] \in Event
      BY <1>1 DEF Event
    <3>2. \A i \in DOMAIN events : events[i].id \in Ids \ {new}
      BY <1>2, ElementsAreJobs DEF Tokens, EventsApart
    <3>4. events \in Seq(Event) /\ Distinct(events)
      BY TypeParts DEF EventsTyped, Tokens, EventsApart, Distinct
    <3>5. Distinct(events')
      <4>1. PICK x \in Event : x = [id |-> new, stamp |-> s]
        BY <3>1
      <4>2. events' = Append(events, x)
        BY <2>1, <4>1 DEF EventQueue!Accept
      <4>3. \A i \in DOMAIN events : events[i].id # x.id
        BY <3>2, <4>1
      <4>. QED  BY <3>4, <4>2, <4>3, JoinedLast
    <3>8. \A i \in DOMAIN events' :
               \/ events'[i].id = new
               \/ \E k \in DOMAIN events : events'[i] = events[k]
      BY <2>1, <3>1, <3>2, <3>4, JoinedLast DEF EventQueue!Accept
    <3>3. fate'[new] = "accepted"
      <4>1. ~ EventQueue!Refuses
        BY <2>1, TypeParts, LenProperties, PipelineAssumption
        DEF EventsTyped, EventQueue!Accept, EventQueue!HasRoom, EventQueue!Refuses
      <4>2. Settle(new, "accepted")
        BY <4>1 DEF Publish
      <4>. QED  BY <1>1, <4>2, TypeParts, FateSettles DEF Outcomes
    <3>6. \A e \in Ids : e > published' => fate'[e] = "none"
      BY <1>1, <1>3 DEF Tokens, EventsApart, Ids
    <3>7. \A i \in DOMAIN events' : fate'[events'[i].id] = "accepted"
      BY <1>3, <3>2, <3>3, <3>8 DEF Tokens, EventsApart
    <3>. QED  BY <3>5, <3>6, <3>7 DEF EventsApart, Distinct
  <2>2. CASE UNCHANGED events
    <3>1. \A i \in DOMAIN events : events[i].id \in Ids \ {new}
      BY <1>2, ElementsAreJobs DEF Tokens, EventsApart
    <3>. QED  BY <1>1, <1>3, <2>2, <3>1 DEF Tokens, EventsApart, Ids
  <2>. QED  BY <2>1, <2>2 DEF Publish
<1>6. ClipHolds'
  <2>1. ASSUME ClipBusy PROVE clipJob.id \in Ids \ {new}
    BY <1>2, <2>1, ClipJobIs DEF Tokens, ClipHolds
  <2>2. \A i \in DOMAIN events' :
          events'[i].id = new \/ \E k \in DOMAIN events : events'[i] = events[k]
    <3>1. [id |-> new, stamp |-> s] \in Event /\ events \in Seq(Event)
      BY <1>1, TypeParts DEF Event, EventsTyped
    <3>2. Distinct(events) /\ \A i \in DOMAIN events : events[i].id # new
      BY <1>2 DEF Tokens, EventsApart, Distinct
    <3>. QED  BY <3>1, <3>2, JoinedLast DEF Publish, EventQueue!Accept
  <2>. QED  BY <1>3, <1>4, <2>1, <2>2 DEF Tokens, ClipHolds, ClipBusy
<1>7. JobsApart' /\ UploadHolds'
  <2>1. \A i \in DOMAIN jobs : jobs[i].id \in Ids \ {new}
    BY <1>2, ElementsAreJobs DEF Tokens, JobsApart
  <2>2. UploadBusy /\ uploadPc # "delete meta" /\ TypeOK => uploadJob.id \in Ids \ {new}
    <3>1. UploadTyped
      BY TypeParts
    <3>. QED
      BY <1>2, <3>1, UploadJobIs DEF Tokens, UploadHolds, UploadBusy, UploadTyped
  <2>5. uploadPc = "delete meta" => uploadJob.id \in Ids \ {new}
    BY <1>2, UploadJobIs DEF Tokens, UploadHolds, UploadBusy
  <2>3. JobsApart'
    BY <1>3, <1>4, <2>1 DEF Tokens, JobsApart
  <2>4. UploadHolds'
    BY <1>3, <1>4, <2>2, <2>5 DEF Tokens, UploadHolds, UploadBusy
  <2>. QED  BY <2>3, <2>4
<1>. QED  BY <1>5, <1>6, <1>7 DEF Tokens

(* What a step of the clip thread does to the fate of an event: that of the *)
(* one in hand may be settled, all others stay.                             *)
LEMMA ClipSettles ==
  ASSUME TypeOK, Tokens, ClipThread
  PROVE  \/ UNCHANGED fate
         \/ /\ ClipBusy /\ \A e \in Ids \ {clipJob.id} : fate'[e] = fate[e]
            /\ \/ /\ clipPc = "write meta" /\ clipPc' = "push"
                  /\ fate'[clipJob.id] = "clip ready"
               \/ /\ clipPc' = "loop"
                  /\ fate'[clipJob.id] \in {"clip failed", "left behind"}
                  /\ clipPc # "push"
               \/ /\ clipPc = "push" /\ clipPc' = "loop" /\ UNCHANGED jobs
                  /\ fate'[clipJob.id] = "not queued"
<1>1. ASSUME NEW o \in Outcomes, Settle(clipJob.id, o), ClipBusy
      PROVE  fate'[clipJob.id] = o /\ \A e \in Ids \ {clipJob.id} : fate'[e] = fate[e]
  BY <1>1, ClipJobIs, TypeParts, FateSettles DEF Tokens
<1>2. {"clip ready", "clip failed", "left behind", "not queued"} \subseteq Outcomes
  BY DEF Outcomes
<1>. QED
  BY <1>1, <1>2 DEF ClipThread, ClipGoto, ClipFails, ClipLoop, ClipPop, ClipCollect, CreateVideo,
     WriteVideo, CreateMeta, WriteMeta, DiscardVideo, PushJob, ClipBusy

LEMMA ClipTokens ==
  ASSUME TypeOK, Tokens, ClipThread PROVE Tokens'
<1>1. UNCHANGED published /\ UNCHANGED uploadPc /\ UNCHANGED uploadJob
  BY DEF ClipThread, ClipUnchanged, ClipLoop, ClipPop, ClipCollect, CreateVideo, WriteVideo,
         CreateMeta, WriteMeta, DiscardVideo, PushJob, uploadVars
<1>2. CASE ClipPop /\ EventQueue!Deliver
  <2>1. /\ UNCHANGED <<jobs, fate>> /\ clipPc' = "collect" /\ clipPc = "pop"
        /\ events' = Tail(events) /\ events # << >>
    BY <1>2, Shortened, TypeParts, LenProperties
    DEF ClipPop, ClipGoto, EventQueue!Deliver, EventQueue!Drained
  <2>2. PICK c \in Codecs : clipJob' = [id |-> Head(events).id,
                                        stamp |-> Head(events).stamp, codec |-> c]
    BY <1>2 DEF ClipPop, EventQueue!Deliver, EventQueue!Drained
  <2>3. /\ Distinct(events') /\ Head(events) = events[1] /\ 1 \in DOMAIN events
        /\ Head(events) \in Event
        /\ \A i \in DOMAIN events' :
             events'[i].id # events[1].id /\ \E k \in DOMAIN events : events'[i] = events[k]
    <3>1. events \in Seq(Event) /\ Distinct(events)
      BY TypeParts DEF EventsTyped, Tokens, EventsApart, Distinct
    <3>2. Distinct(events')
      BY <2>1, <3>1, LeftFirst
    <3>3. Head(events) = events[1] /\ 1 \in DOMAIN events /\ Head(events) \in Event
      BY <2>1, <3>1, LeftFirst
    <3>4. \A i \in DOMAIN events' :
             events'[i].id # events[1].id /\ \E k \in DOMAIN events : events'[i] = events[k]
      BY <2>1, <3>1, LeftFirst
    <3>. QED  BY <3>2, <3>3, <3>4
  <2>4. clipJob' \in Job /\ clipJob'.id = events[1].id
    BY <2>2, <2>3 DEF Job, Event
  <2>5. EventsApart'
    BY <1>1, <2>1, <2>3 DEF Tokens, EventsApart, Distinct
  <2>6. ClipHolds'
    BY <2>1, <2>3, <2>4 DEF Tokens, EventsApart, ClipHolds
  <2>7. JobsApart' /\ UploadHolds'
    BY <1>1, <2>1 DEF Tokens, JobsApart, UploadHolds, UploadBusy
  <2>. QED  BY <2>5, <2>6, <2>7 DEF Tokens
<1>3. CASE PushJob /\ UploadQueue!Accept(clipJob)
  <2>1. /\ UNCHANGED events /\ clipPc' = "loop" /\ clipPc = "push" /\ ClipBusy
        /\ jobs' = Append(jobs, clipJob) /\ UNCHANGED clipJob
    BY <1>3 DEF PushJob, ClipGoto, UploadQueue!Accept, ClipBusy
  <2>2. UNCHANGED fate
    BY <1>3 DEF PushJob, UploadQueue!Accept, UploadQueue!HasRoom
  <2>3. clipJob \in Job /\ clipJob.id \in Ids /\ fate[clipJob.id] = "clip ready"
    BY <2>1, ClipJobIs DEF Tokens, ClipHolds
  <2>4. /\ Distinct(jobs')
        /\ \A i \in DOMAIN jobs' :
             jobs'[i] = clipJob \/ \E k \in DOMAIN jobs : jobs'[i] = jobs[k]
    <3>1. jobs \in Seq(Job) /\ Distinct(jobs) /\ \A i \in DOMAIN jobs : jobs[i].id # clipJob.id
      BY <2>1, TypeParts DEF JobsTyped, Tokens, JobsApart, Distinct
    <3>2. jobs' = Append(jobs, clipJob) /\ clipJob \in Job
      BY <2>1, <2>3
    <3>3. Distinct(jobs')
      BY <3>1, <3>2, JoinedLast
    <3>4. \A i \in DOMAIN jobs' : jobs'[i] = clipJob \/ \E k \in DOMAIN jobs : jobs'[i] = jobs[k]
      BY <3>1, <3>2, JoinedLast
    <3>. QED  BY <3>3, <3>4
  <2>5. EventsApart' /\ ClipHolds'
    BY <1>1, <2>1, <2>2 DEF Tokens, EventsApart, ClipHolds, ClipBusy
  <2>6. JobsApart'
    <3>1. \A i \in DOMAIN jobs' : fate'[jobs'[i].id] = "clip ready"
      BY <2>2, <2>3, <2>4 DEF Tokens, JobsApart
    <3>. QED  BY <2>1, <2>4, <3>1 DEF JobsApart, Distinct
  <2>7. UploadHolds'
    <3>1. uploadPc = "attempt" => \A i \in DOMAIN jobs' : jobs'[i].id # uploadJob.id
      BY <2>1, <2>4 DEF Tokens, UploadHolds
    <3>. QED  BY <1>1, <2>1, <2>2, <3>1 DEF Tokens, UploadHolds, UploadBusy
  <2>. QED  BY <2>5, <2>6, <2>7 DEF Tokens
<1>4. CASE UNCHANGED <<events, jobs>> /\ UNCHANGED clipJob
  <2>1. ClipBusy /\ clipPc # "push" => fate[clipJob.id] = "accepted"
    BY DEF Tokens, ClipHolds
  <2>2. /\ clipPc' = "push" => clipPc = "write meta" /\ fate'[clipJob.id] = "clip ready"
        /\ clipPc' \notin {"loop", "pop", "exited", "push"} => ClipBusy /\ UNCHANGED fate /\ clipPc # "push"
    <3>1. clipPc' = "push" => clipPc = "write meta" /\ Settle(clipJob.id, "clip ready")
      BY DEF ClipThread, ClipGoto, ClipFails, ClipLoop, ClipPop, ClipCollect,
         CreateVideo, WriteVideo, CreateMeta, WriteMeta, DiscardVideo, PushJob
    <3>2. events # << >> => events # Tail(events)
      BY TypeParts, Shortened, LenProperties DEF EventsTyped
    <3>3. ~ EventQueue!Deliver
      BY <1>4, <3>2 DEF EventQueue!Deliver
    <3>4. clipPc' \notin {"loop", "pop", "exited", "push"} => ClipBusy /\ UNCHANGED fate /\ clipPc # "push"
      BY <3>3 DEF ClipThread, ClipGoto, ClipFails, ClipLoop, ClipPop, ClipCollect,
         CreateVideo, WriteVideo, CreateMeta, WriteMeta, DiscardVideo, PushJob, ClipBusy
    <3>5. "clip ready" \in Outcomes
      BY DEF Outcomes
    <3>. QED  BY <3>1, <3>4, <3>5, ClipJobIs, TypeParts, FateSettles DEF Tokens, ClipBusy
  <2>3. EventsApart'
    BY <1>1, <1>4, ClipSettles, ClipJobIs, ElementsAreJobs DEF Tokens, EventsApart, ClipHolds
  <2>4. ClipHolds'
    BY <1>4, <2>2 DEF Tokens, ClipHolds, ClipBusy
  <2>5. JobsApart'
    BY <1>4, <2>1, <2>2, ClipSettles, ClipJobIs, ElementsAreJobs DEF Tokens, JobsApart, ClipBusy
  <2>6. UploadHolds'
    <3>1. UploadBusy => uploadJob \in Job /\ uploadJob.id \in Ids
      BY UploadJobIs DEF Tokens
    <3>2. CASE UNCHANGED fate
      BY <1>1, <1>4, <2>1, <2>2, <3>2 DEF Tokens, UploadHolds, ClipBusy, UploadBusy
    <3>3. CASE ClipBusy /\ clipPc # "push" /\ \A e \in Ids \ {clipJob.id} : fate'[e] = fate[e]
      <4>1. UploadBusy => uploadJob.id # clipJob.id
        BY <2>1, <3>3, TypeParts DEF Tokens, UploadHolds, UploadBusy, UploadTyped
      <4>. QED
        BY <1>1, <1>4, <2>2, <3>1, <3>3, <4>1 DEF Tokens, UploadHolds, UploadBusy
    <3>4. CASE clipPc = "push" /\ clipPc' = "loop" /\ \A e \in Ids \ {clipJob.id} : fate'[e] = fate[e]
      <4>1. UploadBusy => uploadJob.id # clipJob.id
        BY <3>4, TypeParts DEF Tokens, ClipHolds, ClipBusy, UploadHolds, UploadBusy, UploadTyped
      <4>. QED
        BY <1>1, <1>4, <3>1, <3>4, <4>1 DEF Tokens, UploadHolds, UploadBusy
    <3>. QED  BY <3>2, <3>3, <3>4, ClipSettles
  <2>. QED  BY <2>3, <2>4, <2>5, <2>6 DEF Tokens
<1>. QED
  BY <1>2, <1>3, <1>4 DEF ClipThread, ClipLoop, ClipPop, ClipCollect, CreateVideo, WriteVideo,
     CreateMeta, WriteMeta, DiscardVideo, PushJob, queues

LEMMA UploadSettles ==
  ASSUME TypeOK, Tokens, UploadThread
  PROVE  \/ UNCHANGED fate
         \/ /\ UploadBusy /\ \A e \in Ids \ {uploadJob.id} : fate'[e] = fate[e]
            /\ UNCHANGED <<jobs, uploadJob>>
            /\ \/ /\ uploadPc = "attempt" /\ uploadPc' \in {"delete video", "loop"}
                  /\ fate'[uploadJob.id] = "confirmed"
               \/ /\ uploadPc = "attempt" /\ uploadPc' = "remove video"
                  /\ fate'[uploadJob.id] = "given up"
               \/ /\ uploadPc = "remove video" /\ uploadPc' = "delete meta"
                  /\ fate'[uploadJob.id] = "left behind"
<1>1. ASSUME NEW o \in Outcomes, Settle(uploadJob.id, o), UploadBusy
      PROVE  fate'[uploadJob.id] = o /\ \A e \in Ids \ {uploadJob.id} : fate'[e] = fate[e]
  BY <1>1, UploadJobIs, TypeParts, FateSettles DEF Tokens
<1>2. {"confirmed", "given up", "left behind"} \subseteq Outcomes
  BY DEF Outcomes
<1>3. CASE UploadConfirmed \/ ArchiveFailed \/ DeleteVideo
  BY <1>1, <1>2, <1>3 DEF UploadConfirmed, ArchiveFailed, DeleteVideo, UploadGoto, UploadBusy
<1>. QED
  BY <1>3 DEF UploadThread, UploadLoop, UploadPop, UploadFails, DeleteMeta

(* Where the upload thread goes when it settles nothing.                    *)
LEMMA UploadStates ==
  ASSUME TypeOK, Tokens, UploadThread, UNCHANGED <<fate, uploadJob, jobs>>
  PROVE  \/ uploadPc' = uploadPc \/ uploadPc' \in {"loop", "pop", "exited"}
         \/ uploadPc \in {"delete video", "remove video"} /\ uploadPc' = "delete meta"
<1>1. jobs # << >> => jobs # Tail(jobs)
  BY TypeParts, Shortened, LenProperties DEF JobsTyped
<1>2. ~ UploadConfirmed /\ ~ ArchiveFailed
  <2>1. {"confirmed", "given up"} \subseteq Outcomes
    BY DEF Outcomes
  <2>2. uploadPc = "attempt" => fate[uploadJob.id] = "clip ready" /\ uploadJob.id \in Ids
    BY UploadJobIs DEF Tokens, UploadHolds, UploadBusy
  <2>. QED
    BY <2>1, <2>2, TypeParts, FateSettles DEF UploadConfirmed, ArchiveFailed
<1>. QED
  BY <1>1, <1>2 DEF UploadThread, UploadGoto, UploadLoop, UploadPop, UploadFails, DeleteVideo,
     DeleteMeta, UploadQueue!Deliver

LEMMA UploadTokens ==
  ASSUME TypeOK, Tokens, UploadThread PROVE Tokens'
<1>1. /\ UNCHANGED published /\ UNCHANGED clipPc /\ UNCHANGED clipJob /\ UNCHANGED events
  BY DEF UploadThread, UploadUnchanged, UploadLoop, UploadPop, UploadConfirmed, UploadFails,
         ArchiveFailed, DeleteVideo, DeleteMeta, clipVars
<1>2. CASE UploadPop /\ UploadQueue!Deliver
  <2>1. /\ UNCHANGED fate /\ uploadPc' = "attempt"
        /\ UNCHANGED clipPc /\ UNCHANGED clipJob
    BY <1>1, <1>2 DEF UploadPop, UploadGoto, UploadQueue!Deliver, UploadQueue!Drained
  <2>2. /\ Distinct(jobs') /\ uploadJob' \in Job
        /\ \E k \in DOMAIN jobs : uploadJob' = jobs[k]
        /\ \A i \in DOMAIN jobs' : jobs'[i].id # uploadJob'.id
        /\ \A i \in DOMAIN jobs' : \E k \in DOMAIN jobs : jobs'[i] = jobs[k]
    <3>1. jobs \in Seq(Job) /\ Distinct(jobs)
      BY TypeParts DEF JobsTyped, Tokens, JobsApart, Distinct
    <3>2. jobs # << >> /\ jobs' = Tail(jobs) /\ uploadJob' = Head(jobs)
      BY <1>2 DEF UploadPop, UploadQueue!Deliver, UploadQueue!Drained
    <3>3. Distinct(jobs')
      BY <3>1, <3>2, LeftFirst
    <3>4. uploadJob' \in Job /\ \E k \in DOMAIN jobs : uploadJob' = jobs[k]
      BY <3>1, <3>2, LeftFirst
    <3>5. \A i \in DOMAIN jobs' :
             jobs'[i].id # uploadJob'.id /\ \E k \in DOMAIN jobs : jobs'[i] = jobs[k]
      BY <3>1, <3>2, LeftFirst
    <3>. QED  BY <3>3, <3>4, <3>5
  <2>3. EventsApart' /\ ClipHolds'
    BY <1>1, <2>1 DEF Tokens, EventsApart, ClipHolds, ClipBusy
  <2>4. JobsApart'
    <3>1. \A i \in DOMAIN jobs' : \E k \in DOMAIN jobs : jobs'[i] = jobs[k]
      BY <2>2
    <3>2. JobsApart
      BY DEF Tokens
    <3>3. ASSUME NEW i \in DOMAIN jobs' PROVE fate[jobs'[i].id] = "clip ready"
      <4>1. PICK k \in DOMAIN jobs : jobs'[i] = jobs[k]
        BY <3>1
      <4>. QED  BY <3>2, <4>1 DEF JobsApart
    <3>4. clipPc = "push" => \A i \in DOMAIN jobs' : jobs'[i].id # clipJob.id
      BY <3>1, <3>2 DEF JobsApart
    <3>. QED  BY <2>1, <2>2, <3>3, <3>4 DEF JobsApart, Distinct
  <2>5. UploadHolds'
    <3>1. /\ fate[uploadJob'.id] = "clip ready"
          /\ clipPc = "push" => uploadJob'.id # clipJob.id
      BY <2>2 DEF Tokens, JobsApart
    <3>. QED  BY <2>1, <2>2, <3>1 DEF UploadHolds, UploadBusy
  <2>. QED  BY <2>3, <2>4, <2>5 DEF Tokens
<1>3. CASE UNCHANGED <<jobs, uploadJob>>
  <2>1. UploadBusy => uploadJob \in Job /\ uploadJob.id \in Ids
    BY UploadJobIs DEF Tokens
  <2>2. CASE UNCHANGED fate
    <3>1. EventsApart' /\ ClipHolds' /\ JobsApart'
      BY <1>1, <1>3, <2>2 DEF Tokens, EventsApart, ClipHolds, ClipBusy, JobsApart
    <3>5. UploadHolds'
      BY <1>1, <1>3, <2>2, UploadStates DEF Tokens, UploadHolds, UploadBusy
    <3>. QED  BY <3>1, <3>5 DEF Tokens
  <2>3. CASE /\ UploadBusy /\ \A e \in Ids \ {uploadJob.id} : fate'[e] = fate[e]
             /\ fate[uploadJob.id] \notin {"none", "accepted"}
             /\ uploadPc = "attempt" \/ fate[uploadJob.id] # "clip ready"
    <3>1. EventsApart'
      BY <1>1, <2>3, ElementsAreJobs DEF Tokens, EventsApart
    <3>2. ClipBusy => clipJob.id \in Ids /\ clipJob.id # uploadJob.id
      BY <2>3, ClipJobIs DEF Tokens, ClipHolds, UploadHolds, ClipBusy
    <3>3. ClipHolds'
      BY <1>1, <2>3, <3>2 DEF Tokens, ClipHolds, ClipBusy
    <3>4. \A i \in DOMAIN jobs : jobs[i].id \in Ids /\ jobs[i].id # uploadJob.id
      BY <2>3, ElementsAreJobs DEF Tokens, JobsApart, UploadHolds
    <3>5. JobsApart'
      BY <1>1, <1>3, <2>3, <3>4 DEF Tokens, JobsApart
    <3>6. UploadHolds'
      <4>1. uploadPc' = "attempt" => uploadPc = "attempt" /\ UNCHANGED fate
        BY <2>3 DEF UploadThread, UploadGoto, UploadBusy, UploadLoop, UploadPop, UploadConfirmed,
           UploadFails, ArchiveFailed, DeleteVideo, DeleteMeta
      <4>2. UploadHolds
        BY DEF Tokens
      <4>3. uploadPc' = "attempt" => UploadHolds'
        BY <1>1, <1>3, <2>1, <4>1, <4>2 DEF UploadHolds, UploadBusy
      <4>4. uploadPc' # "attempt" /\ UNCHANGED fate => UploadHolds'
        BY <1>1, <1>3, <2>1, <2>3, <4>2, UploadStates DEF UploadHolds, UploadBusy
      <4>5. uploadPc' # "attempt" /\ fate' # fate => UploadHolds'
        BY <1>1, <1>3, <2>1, UploadSettles DEF UploadHolds, UploadBusy
      <4>. QED  BY <4>3, <4>4, <4>5
    <3>. QED  BY <3>1, <3>3, <3>5, <3>6 DEF Tokens
  <2>. QED  BY <2>2, <2>3, UploadSettles DEF Tokens, UploadHolds, UploadBusy
<1>. QED
  BY <1>2, <1>3 DEF UploadThread, UploadLoop, UploadPop, UploadConfirmed, UploadFails,
     ArchiveFailed, DeleteVideo, DeleteMeta
-----------------------------------------------------------------------------
(* Whose the files are.                                                     *)

LEMMA ClipAndUploadApart ==
  ASSUME TypeOK, Tokens, ClipBusy
  PROVE  /\ UploadBusy => uploadJob.id # clipJob.id
         /\ \A i \in DOMAIN jobs : jobs[i].id # clipJob.id
<1>1. UploadBusy => uploadJob.id # clipJob.id
  <2>1. ClipHolds /\ UploadHolds /\ UploadTyped
    BY TypeParts DEF Tokens
  <2>. QED  BY <2>1 DEF ClipHolds, UploadHolds, UploadBusy, UploadTyped
<1>2. ASSUME NEW i \in DOMAIN jobs PROVE jobs[i].id # clipJob.id
  BY DEF Tokens, ClipHolds, JobsApart
<1>. QED  BY <1>1, <1>2

(* The clip thread touches no file but its own: one it has made, or one     *)
(* under a name that is free.                                               *)
LEMMA ClipTouches ==
  ASSUME TypeOK, Tokens, ClipFiles, ClipThread
  PROVE  /\ \A v \in VideoPath :
              \/ videos'[v] = videos[v]
              \/ /\ ClipBusy /\ v = VideoOf(clipJob) /\ clipPc # "push"
                 /\ videos[v] = Absent \/ videos[v].owner = clipJob.id
                 /\ videos'[v] = Absent \/ videos'[v].owner = clipJob.id
         /\ \A s \in Stamps :
              \/ metas'[s] = metas[s]
              \/ /\ ClipBusy /\ s = clipJob.stamp /\ clipPc # "push"
                 /\ metas[s] = Absent \/ metas[s].owner = clipJob.id
                 /\ metas'[s] = Absent \/ metas'[s].owner = clipJob.id
<1>1. ClipHolds /\ FilesTyped
  BY TypeParts DEF Tokens
<1>2. ASSUME NEW v \in VideoPath, videos'[v] # videos[v]
      PROVE  /\ ClipBusy /\ v = VideoOf(clipJob) /\ clipPc # "push"
             /\ videos[v] = Absent \/ videos[v].owner = clipJob.id
             /\ videos'[v] = Absent \/ videos'[v].owner = clipJob.id
  <2>1. CreateVideo \/ WriteVideo \/ DiscardVideo
    BY <1>2 DEF ClipThread, ClipLoop, ClipPop, ClipCollect, CreateMeta, WriteMeta, PushJob, files
  <2>2. \/ videos[VideoOf(clipJob)] = Absent
        \/ videos[VideoOf(clipJob)].owner = clipJob.id
    <3>1. CASE WriteVideo
      <4>1. videos[VideoOf(clipJob)] = [owner |-> clipJob.id, whole |-> FALSE]
        BY <3>1 DEF WriteVideo, ClipFiles
      <4>. QED  BY <4>1
    <3>2. CASE DiscardVideo
      BY <3>2 DEF DiscardVideo, ClipFiles
    <3>3. CASE CreateVideo
      BY <1>2, <3>3 DEF CreateVideo
    <3>. QED  BY <2>1, <3>1, <3>2, <3>3
  <2>3. \/ videos' = [videos EXCEPT ![VideoOf(clipJob)] = [owner |-> clipJob.id, whole |-> FALSE]]
        \/ videos' = [videos EXCEPT ![VideoOf(clipJob)] = [owner |-> clipJob.id, whole |-> TRUE]]
        \/ videos' = [videos EXCEPT ![VideoOf(clipJob)] = Absent]
    BY <1>1, <1>2, <2>1, WritesOwn DEF CreateVideo, DiscardVideo
  <2>4. v = VideoOf(clipJob)
    BY <1>1, <1>2, <2>3 DEF FilesTyped
  <2>5. videos'[v] = Absent \/ videos'[v].owner = clipJob.id
    BY <1>1, <2>3, <2>4 DEF FilesTyped
  <2>6. ClipBusy /\ clipPc # "push"
    BY <2>1 DEF CreateVideo, WriteVideo, DiscardVideo, ClipBusy
  <2>. QED  BY <2>2, <2>4, <2>5, <2>6
<1>3. ASSUME NEW s \in Stamps, metas'[s] # metas[s]
      PROVE  /\ ClipBusy /\ s = clipJob.stamp /\ clipPc # "push"
             /\ metas[s] = Absent \/ metas[s].owner = clipJob.id
             /\ metas'[s] = Absent \/ metas'[s].owner = clipJob.id
  <2>1. CreateMeta \/ WriteMeta
    BY <1>3 DEF ClipThread, ClipLoop, ClipPop, ClipCollect, CreateVideo, WriteVideo, DiscardVideo, PushJob, files
  <2>2. metas[clipJob.stamp] = Absent \/ metas[clipJob.stamp].owner = clipJob.id
    <3>1. CASE WriteMeta
      <4>1. metas[clipJob.stamp] = [owner |-> clipJob.id, whole |-> FALSE]
        BY <3>1 DEF WriteMeta, ClipFiles
      <4>. QED  BY <4>1
    <3>2. CASE CreateMeta
      BY <1>3, <3>2 DEF CreateMeta
    <3>. QED  BY <2>1, <3>1, <3>2
  <2>3. \/ metas' = [metas EXCEPT ![clipJob.stamp] = [owner |-> clipJob.id, whole |-> FALSE]]
        \/ metas' = [metas EXCEPT ![clipJob.stamp] = [owner |-> clipJob.id, whole |-> TRUE]]
        \/ metas' = [metas EXCEPT ![clipJob.stamp] = Absent]
    BY <1>1, <1>3, <2>1, WritesOwn DEF CreateMeta
  <2>4. s = clipJob.stamp
    BY <1>1, <1>3, <2>3 DEF FilesTyped
  <2>5. metas'[s] = Absent \/ metas'[s].owner = clipJob.id
    BY <1>1, <2>3, <2>4 DEF FilesTyped
  <2>6. ClipBusy /\ clipPc # "push"
    BY <2>1 DEF CreateMeta, WriteMeta, ClipBusy
  <2>. QED  BY <2>2, <2>4, <2>5, <2>6
<1>. QED  BY <1>2, <1>3

LEMMA ClipKeepsOthers ==
  ASSUME TypeOK, Tokens, ClipFiles, ClipThread,
         NEW j \in Job, ClipBusy => j.id # clipJob.id
  PROVE  /\ HasOwnVideo(j) => HasOwnVideo(j)'
         /\ HasOwnMeta(j) => HasOwnMeta(j)'
<1>1. j.id \in Ids /\ j.id # 0 /\ VideoOf(j) \in VideoPath /\ j.stamp \in Stamps
  BY PipelineAssumption DEF Job, VideoOf, VideoPath, Ids
<1>2. ASSUME HasOwnVideo(j) PROVE HasOwnVideo(j)'
  BY <1>1, <1>2, ClipTouches DEF HasOwnVideo, VideoOf, Absent
<1>3. ASSUME HasOwnMeta(j) PROVE HasOwnMeta(j)'
  BY <1>1, <1>3, ClipTouches DEF HasOwnMeta, Absent
<1>. QED  BY <1>2, <1>3

(* The upload thread deletes, and only files of the job it has in hand.     *)
LEMMA UploadTouches ==
  ASSUME TypeOK, Tokens, UploadFiles, UploadThread
  PROVE  /\ \A v \in VideoPath :
              \/ videos'[v] = videos[v]
              \/ /\ uploadPc \in {"delete video", "remove video"} /\ v = VideoOf(uploadJob)
                 /\ videos[v].owner = uploadJob.id /\ videos'[v] = Absent
         /\ \A s \in Stamps :
              \/ metas'[s] = metas[s]
              \/ /\ uploadPc = "delete meta" /\ s = uploadJob.stamp
                 /\ metas[s].owner = uploadJob.id /\ metas'[s] = Absent
<1>1. UploadHolds /\ FilesTyped
  BY TypeParts DEF Tokens
<1>2. ASSUME NEW v \in VideoPath, videos'[v] # videos[v]
      PROVE  /\ uploadPc \in {"delete video", "remove video"} /\ v = VideoOf(uploadJob)
             /\ videos[v].owner = uploadJob.id /\ videos'[v] = Absent
  <2>1. DeleteVideo /\ videos' = [videos EXCEPT ![VideoOf(uploadJob)] = Absent]
    BY <1>2 DEF UploadThread, UploadLoop, UploadPop, UploadConfirmed, UploadFails, ArchiveFailed,
       DeleteVideo, DeleteMeta, files
  <2>2. v = VideoOf(uploadJob) /\ videos'[v] = Absent
    BY <1>1, <1>2, <2>1 DEF FilesTyped
  <2>3. uploadPc \in {"delete video", "remove video"}
    BY <2>1 DEF DeleteVideo
  <2>4. videos[VideoOf(uploadJob)] = [owner |-> uploadJob.id, whole |-> TRUE]
    BY <2>3 DEF UploadFiles, HasOwnVideo
  <2>5. videos[VideoOf(uploadJob)].owner = uploadJob.id
    BY <2>4
  <2>. QED  BY <2>2, <2>3, <2>5
<1>3. ASSUME NEW s \in Stamps, metas'[s] # metas[s]
      PROVE  /\ uploadPc = "delete meta" /\ s = uploadJob.stamp
             /\ metas[s].owner = uploadJob.id /\ metas'[s] = Absent
  <2>1. DeleteMeta /\ metas' = [metas EXCEPT ![uploadJob.stamp] = Absent]
    BY <1>3 DEF UploadThread, UploadLoop, UploadPop, UploadConfirmed, UploadFails, ArchiveFailed,
       DeleteVideo, DeleteMeta, files
  <2>2. s = uploadJob.stamp /\ metas'[s] = Absent
    BY <1>1, <1>3, <2>1 DEF FilesTyped
  <2>3. uploadPc = "delete meta"
    BY <2>1 DEF DeleteMeta
  <2>4. metas[uploadJob.stamp] = [owner |-> uploadJob.id, whole |-> TRUE]
    BY <2>3 DEF UploadFiles, HasOwnMeta, UploadBusy
  <2>5. metas[uploadJob.stamp].owner = uploadJob.id
    BY <2>4
  <2>. QED  BY <2>2, <2>3, <2>5
<1>. QED  BY <1>2, <1>3

LEMMA UploadKeepsOthers ==
  ASSUME TypeOK, Tokens, UploadFiles, UploadThread,
         NEW j \in Job, UploadBusy => j.id # uploadJob.id
  PROVE  /\ HasOwnVideo(j) => HasOwnVideo(j)'
         /\ HasOwnMeta(j) => HasOwnMeta(j)'
<1>1. j.id \in Ids /\ j.id # 0 /\ VideoOf(j) \in VideoPath /\ j.stamp \in Stamps
  BY PipelineAssumption DEF Job, VideoOf, VideoPath, Ids
<1>2. ASSUME HasOwnVideo(j) PROVE HasOwnVideo(j)'
  <2>1. videos[VideoOf(j)].owner = j.id
    BY <1>2 DEF HasOwnVideo
  <2>2. videos'[VideoOf(j)] = videos[VideoOf(j)]
    BY <1>1, <2>1, UploadTouches DEF UploadBusy
  <2>. QED  BY <1>2, <2>2 DEF HasOwnVideo, VideoOf
<1>3. ASSUME HasOwnMeta(j) PROVE HasOwnMeta(j)'
  <2>1. metas[j.stamp].owner = j.id
    BY <1>3 DEF HasOwnMeta
  <2>2. metas'[j.stamp] = metas[j.stamp]
    BY <1>1, <2>1, UploadTouches DEF UploadBusy
  <2>. QED  BY <1>3, <2>2 DEF HasOwnMeta
<1>. QED  BY <1>2, <1>3

LEMMA JobsAndUploadApart ==
  ASSUME TypeOK, Tokens, UploadBusy, NEW i \in DOMAIN jobs
  PROVE  jobs[i].id # uploadJob.id
<1>1. JobsApart /\ UploadHolds /\ UploadTyped
  BY TypeParts DEF Tokens
<1>. QED  BY <1>1 DEF JobsApart, UploadHolds, UploadBusy, UploadTyped

LEMMA ClipQueuedFiles ==
  ASSUME TypeOK, Tokens, ClipFiles, QueuedFiles, ClipThread PROVE QueuedFiles'
<1>1. CASE PushJob /\ UploadQueue!Accept(clipJob)
  <2>1. UNCHANGED files /\ clipPc = "push" /\ jobs' = Append(jobs, clipJob)
    BY <1>1 DEF PushJob, UploadQueue!Accept
  <2>2. clipJob \in Job /\ jobs \in Seq(Job) /\ Distinct(jobs)
    BY <2>1, ClipJobIs, TypeParts DEF JobsTyped, Tokens, JobsApart, Distinct, ClipBusy
  <2>3. \A i \in DOMAIN jobs : jobs[i].id # clipJob.id
    BY <2>1 DEF Tokens, JobsApart
  <2>4. \A i \in DOMAIN jobs' : jobs'[i] = clipJob \/ \E k \in DOMAIN jobs : jobs'[i] = jobs[k]
    BY <2>1, <2>2, <2>3, JoinedLast
  <2>5. HasOwnVideo(clipJob) /\ HasOwnMeta(clipJob)
    BY <2>1 DEF ClipFiles
  <2>. QED  BY <2>1, <2>4, <2>5 DEF QueuedFiles, HasOwnVideo, HasOwnMeta, files
<1>2. CASE UNCHANGED jobs
  <2>1. ASSUME NEW i \in DOMAIN jobs PROVE HasOwnVideo(jobs[i])' /\ HasOwnMeta(jobs[i])'
    <3>1. PICK j \in Job : j = jobs[i]
      BY ElementsAreJobs
    <3>2. ClipBusy => j.id # clipJob.id
      BY <3>1, ClipAndUploadApart
    <3>3. HasOwnVideo(j) /\ HasOwnMeta(j)
      BY <3>1 DEF QueuedFiles
    <3>4. HasOwnVideo(j)' /\ HasOwnMeta(j)'
      BY <3>2, <3>3, ClipKeepsOthers
    <3>5. jobs'[i] = j
      BY <1>2, <3>1
    <3>. QED  BY <3>4, <3>5 DEF HasOwnVideo, HasOwnMeta
  <2>. QED  BY <1>2, <2>1 DEF QueuedFiles, HasOwnVideo, HasOwnMeta
<1>. QED
  BY <1>1, <1>2 DEF ClipThread, ClipLoop, ClipPop, ClipCollect, CreateVideo, WriteVideo,
     CreateMeta, WriteMeta, DiscardVideo, PushJob, queues

LEMMA ClipUploadFiles ==
  ASSUME TypeOK, Tokens, ClipFiles, UploadFiles, ClipThread PROVE UploadFiles'
<1>1. UNCHANGED uploadPc /\ UNCHANGED uploadJob
  BY DEF ClipThread, ClipUnchanged, ClipLoop, ClipPop, ClipCollect, CreateVideo, WriteVideo,
         CreateMeta, WriteMeta, DiscardVideo, PushJob, uploadVars
<1>2. ASSUME UploadBusy
      PROVE  /\ HasOwnVideo(uploadJob) => HasOwnVideo(uploadJob)'
             /\ HasOwnMeta(uploadJob) => HasOwnMeta(uploadJob)'
  <2>1. uploadJob \in Job /\ (ClipBusy => uploadJob.id # clipJob.id)
    BY <1>2, UploadJobIs, ClipAndUploadApart DEF Tokens
  <2>2. /\ HasOwnVideo(uploadJob) =>
             videos'[VideoOf(uploadJob)] = [owner |-> uploadJob.id, whole |-> TRUE]
        /\ HasOwnMeta(uploadJob) =>
             metas'[uploadJob.stamp] = [owner |-> uploadJob.id, whole |-> TRUE]
    BY <2>1, ClipKeepsOthers DEF HasOwnVideo, HasOwnMeta
  <2>. QED  BY <1>1, <2>2 DEF HasOwnVideo, HasOwnMeta, VideoOf
<1>3. ASSUME uploadPc = "delete meta", NEW p \in VideoPath, videos'[p].owner = uploadJob.id
      PROVE  fate'[uploadJob.id] = "left behind"
  <2>0. UploadBusy /\ UploadHolds /\ 0 \notin Ids
    <3>1. UploadBusy /\ UploadHolds
      BY <1>3 DEF Tokens, UploadBusy
    <3>2. 0 \notin Ids
      BY PipelineAssumption DEF Ids
    <3>. QED  BY <3>1, <3>2
  <2>1. uploadJob.id \in Ids /\ uploadJob.id # 0 /\ (ClipBusy => uploadJob.id # clipJob.id)
    BY <2>0, UploadJobIs, ClipAndUploadApart
  <2>2. videos'[p] = videos[p]
    <3>1. \/ videos'[p] = videos[p]
          \/ ClipBusy /\ (videos'[p] = Absent \/ videos'[p].owner = clipJob.id)
      BY ClipTouches
    <3>2. Absent.owner = 0
      BY DEF Absent
    <3>. QED  BY <1>3, <2>1, <3>1, <3>2
  <2>3. fate[uploadJob.id] = "left behind"
    BY <1>3, <2>2 DEF UploadFiles
  <2>. QED  BY <2>1, <2>3, ClipSettles
<1>. QED  BY <1>1, <1>2, <1>3 DEF UploadFiles, UploadBusy

(* While the clip thread writes, and after it has failed.                   *)
Writing == clipPc \in {"write video", "create meta", "write meta", "discard video"}

(* Where a step of the clip thread leaves the thread.                       *)
LEMMA ClipMoves ==
  ASSUME TypeOK, Tokens, ClipThread
  PROVE  /\ ClipBusy => UNCHANGED clipJob
         /\ Writing /\ UNCHANGED fate => Writing'
         /\ clipPc \in {"write meta", "discard video"} /\ UNCHANGED fate => clipPc' = "discard video"
         /\ videos' # videos =>
              \/ clipPc = "create video" /\ clipPc' = "write video"
              \/ clipPc = "write video" /\ clipPc' = "create meta"
              \/ clipPc = "discard video" /\ clipPc' = "loop" /\ fate'[clipJob.id] = "clip failed"
         /\ metas' # metas =>
              \/ clipPc = "create meta" /\ clipPc' = "write meta"
              \/ clipPc = "write meta"
<1>1. ClipBusy => clipJob.id \in Ids /\ (clipPc # "push" => fate[clipJob.id] = "accepted")
  BY ClipJobIs DEF Tokens, ClipHolds
<1>2. ASSUME ClipBusy, NEW o \in Outcomes, Settle(clipJob.id, o) PROVE fate'[clipJob.id] = o
  BY <1>1, <1>2, TypeParts, FateSettles
<1>3. {"clip ready", "clip failed", "left behind", "not queued"} \subseteq Outcomes
  BY DEF Outcomes
<1>4. ClipBusy => UNCHANGED clipJob
  BY DEF ClipThread, ClipLoop, ClipPop, ClipCollect, CreateVideo, WriteVideo,
     CreateMeta, WriteMeta, DiscardVideo, PushJob, ClipBusy
<1>5. Writing /\ UNCHANGED fate => Writing'
  BY <1>1, <1>2, <1>3 DEF ClipThread, ClipLoop, ClipPop, ClipCollect, CreateVideo, WriteVideo,
     CreateMeta, WriteMeta, DiscardVideo, PushJob, ClipBusy, ClipGoto, Writing
<1>6. clipPc \in {"write meta", "discard video"} /\ UNCHANGED fate => clipPc' = "discard video"
  BY <1>1, <1>2, <1>3 DEF ClipThread, ClipLoop, ClipPop, ClipCollect, CreateVideo, WriteVideo,
     CreateMeta, WriteMeta, DiscardVideo, PushJob, ClipBusy, ClipGoto
<1>7. videos' # videos =>
              \/ clipPc = "create video" /\ clipPc' = "write video"
              \/ clipPc = "write video" /\ clipPc' = "create meta"
              \/ clipPc = "discard video" /\ clipPc' = "loop" /\ fate'[clipJob.id] = "clip failed"
  BY <1>2, <1>3 DEF ClipThread, ClipLoop, ClipPop, ClipCollect, CreateVideo, WriteVideo,
     CreateMeta, WriteMeta, DiscardVideo, PushJob, ClipBusy, ClipGoto, files
<1>8. metas' # metas =>
              \/ clipPc = "create meta" /\ clipPc' = "write meta"
              \/ clipPc = "write meta"
  BY DEF ClipThread, ClipLoop, ClipPop, ClipCollect, CreateVideo, WriteVideo,
     CreateMeta, WriteMeta, DiscardVideo, PushJob, ClipGoto, files
<1>. QED  BY <1>4, <1>5, <1>6, <1>7, <1>8

(* What becomes of an event while it is the clip thread's.                  *)
LEMMA ClipFates ==
  ASSUME TypeOK, Tokens, ClipThread, NEW e \in Ids
  PROVE  /\ ~ ClipBusy \/ e # clipJob.id => fate'[e] = fate[e]
         /\ fate'[e] \in {"none", "dropped"} => fate[e] \in {"none", "dropped"}
         /\ fate'[e] = "accepted" => fate[e] = "accepted"
         /\ fate'[e] = "accepted" /\ ClipBusy /\ e = clipJob.id => UNCHANGED fate
         /\ fate[e] = "left behind" => fate'[e] = "left behind"
<1>1. ClipHolds
  BY DEF Tokens
<1>. QED  BY <1>1, ClipSettles DEF ClipHolds

LEMMA ClipVideoMakers ==
  ASSUME TypeOK, Tokens, ClipFiles, VideoMakers, ClipThread PROVE VideoMakers'
<1>1. ASSUME NEW v \in VideoPath, videos'[v].owner \in Ids
      PROVE  /\ fate'[videos'[v].owner] \notin {"none", "dropped"}
             /\ fate'[videos'[v].owner] = "accepted" =>
                  /\ Writing' /\ videos'[v].owner = clipJob'.id
  <2>1. CASE videos'[v] = videos[v]
    <3>1. PICK e \in Ids : e = videos[v].owner
      BY <1>1, <2>1
    <3>2. /\ fate[e] \notin {"none", "dropped"}
          /\ fate[e] = "accepted" => Writing /\ e = clipJob.id
      BY <3>1 DEF VideoMakers, Writing
    <3>3. fate'[e] \notin {"none", "dropped"}
      BY <3>2, ClipFates
    <3>4. ASSUME fate'[e] = "accepted" PROVE Writing' /\ e = clipJob'.id
      BY <3>2, <3>4, ClipFates, ClipMoves DEF Writing, ClipBusy
    <3>. QED  BY <2>1, <3>1, <3>3, <3>4
  <2>2. CASE videos'[v] # videos[v]
    <3>1. ClipBusy /\ videos'[v].owner = clipJob.id /\ clipPc # "push"
      <4>1. Absent.owner \notin Ids
        BY PipelineAssumption DEF Absent, Ids
      <4>. QED  BY <1>1, <2>2, <4>1, ClipTouches
    <3>2. fate[clipJob.id] = "accepted"
      BY <3>1 DEF Tokens, ClipHolds
    <3>3. fate'[clipJob.id] \notin {"none", "dropped"}
      BY <1>1, <3>1, <3>2, ClipFates
    <3>4. fate'[clipJob.id] = "accepted" => Writing'
      BY <2>2, ClipMoves DEF Writing
    <3>5. UNCHANGED clipJob
      BY <3>1, ClipMoves
    <3>. QED  BY <3>1, <3>3, <3>4, <3>5
  <2>. QED  BY <2>1, <2>2
<1>. QED  BY <1>1 DEF VideoMakers, Writing

LEMMA ClipMetaMakers ==
  ASSUME TypeOK, Tokens, ClipFiles, MetaMakers, ClipThread PROVE MetaMakers'
<1>1. ASSUME NEW s \in Stamps, metas'[s].owner \in Ids
      PROVE  /\ fate'[metas'[s].owner] \notin {"none", "dropped"}
             /\ fate'[metas'[s].owner] = "accepted" =>
                  clipPc' \in {"write meta", "discard video"} /\ metas'[s].owner = clipJob'.id
  <2>1. CASE metas'[s] = metas[s]
    <3>1. PICK e \in Ids : e = metas[s].owner
      BY <1>1, <2>1
    <3>2. /\ fate[e] \notin {"none", "dropped"}
          /\ fate[e] = "accepted" =>
               clipPc \in {"write meta", "discard video"} /\ e = clipJob.id
      BY <3>1 DEF MetaMakers
    <3>3. fate'[e] \notin {"none", "dropped"}
      BY <3>2, ClipFates
    <3>4. ASSUME fate'[e] = "accepted"
          PROVE  clipPc' \in {"write meta", "discard video"} /\ e = clipJob'.id
      BY <3>2, <3>4, ClipFates, ClipMoves DEF ClipBusy
    <3>. QED  BY <2>1, <3>1, <3>3, <3>4
  <2>2. CASE metas'[s] # metas[s]
    <3>1. ClipBusy /\ metas'[s].owner = clipJob.id /\ clipPc # "push"
      <4>1. Absent.owner \notin Ids
        BY PipelineAssumption DEF Absent, Ids
      <4>. QED  BY <1>1, <2>2, <4>1, ClipTouches
    <3>2. fate[clipJob.id] = "accepted"
      BY <3>1 DEF Tokens, ClipHolds
    <3>3. fate'[clipJob.id] \notin {"none", "dropped"}
      BY <1>1, <3>1, <3>2, ClipFates
    <3>4. fate'[clipJob.id] = "accepted" => clipPc' \in {"write meta", "discard video"}
      BY <1>1, <2>2, <3>1, ClipMoves, ClipFates
    <3>5. UNCHANGED clipJob
      BY <3>1, ClipMoves
    <3>. QED  BY <3>1, <3>3, <3>4, <3>5
  <2>. QED  BY <2>1, <2>2
<1>. QED  BY <1>1 DEF MetaMakers

LEMMA ClipOneVideoEach ==
  ASSUME TypeOK, Tokens, ClipFiles, VideoMakers, OneVideoEach, ClipThread
  PROVE  OneVideoEach'
<1>0. Absent.owner \notin Ids
  BY PipelineAssumption DEF Absent, Ids
<1>1. ASSUME NEW p \in VideoPath, NEW q \in VideoPath, videos'[p].owner \in Ids,
             videos'[p].owner = videos'[q].owner, videos'[p] # videos[p], p # q
      PROVE  FALSE
  <2>1. /\ ClipBusy /\ p = VideoOf(clipJob) /\ clipPc # "push" /\ videos'[p].owner = clipJob.id
        /\ videos[p] = Absent \/ videos[p].owner = clipJob.id
    BY <1>0, <1>1, ClipTouches
  <2>2. videos'[q] = videos[q]
    BY <1>1, <2>1, ClipTouches
  <2>3. videos[q].owner = clipJob.id
    BY <1>1, <2>1, <2>2
  <2>4. fate[clipJob.id] = "accepted" /\ clipJob.id \in Ids
    BY <1>1, <2>1 DEF Tokens, ClipHolds
  <2>5. Writing
    BY <2>3, <2>4 DEF VideoMakers, Writing
  <2>6. clipPc = "write video" \/ clipPc = "discard video"
    BY <1>1, <2>5, ClipMoves DEF Writing
  <2>7. videos[VideoOf(clipJob)].owner = clipJob.id
    <3>1. CASE clipPc = "write video"
      <4>1. videos[VideoOf(clipJob)] = [owner |-> clipJob.id, whole |-> FALSE]
        BY <3>1 DEF ClipFiles
      <4>. QED  BY <4>1
    <3>2. CASE clipPc = "discard video"
      BY <3>2 DEF ClipFiles
    <3>. QED  BY <2>6, <3>1, <3>2
  <2>. QED  BY <1>1, <2>1, <2>3, <2>4, <2>7 DEF OneVideoEach
<1>2. ASSUME NEW p \in VideoPath, NEW q \in VideoPath, videos'[p].owner \in Ids,
             videos'[p].owner = videos'[q].owner
      PROVE  p = q
  <2>1. CASE videos'[p] # videos[p]
    BY <1>1, <1>2, <2>1
  <2>2. CASE videos'[q] # videos[q]
    BY <1>1, <1>2, <2>2
  <2>3. CASE videos'[p] = videos[p] /\ videos'[q] = videos[q]
    BY <1>2, <2>3 DEF OneVideoEach
  <2>. QED  BY <2>1, <2>2, <2>3
<1>. QED  BY <1>2 DEF OneVideoEach

(* The clip thread's own files, from one of its labels to the next.         *)
LEMMA ClipClipFiles ==
  ASSUME TypeOK, Tokens, ClipFiles, ClipThread PROVE ClipFiles'
<1>1. FilesTyped /\ ClipHolds
  BY TypeParts DEF Tokens
<1>2. CASE UNCHANGED <<clipJob, videos, metas>> /\ clipPc' = "discard video" /\ Writing
  <2>1. videos[VideoOf(clipJob)].owner = clipJob.id
    <3>1. CASE clipPc = "write video"
      <4>1. videos[VideoOf(clipJob)] = [owner |-> clipJob.id, whole |-> FALSE]
        BY <3>1 DEF ClipFiles
      <4>. QED  BY <4>1
    <3>2. CASE clipPc \in {"create meta", "write meta"}
      <4>1. videos[VideoOf(clipJob)] = [owner |-> clipJob.id, whole |-> TRUE]
        BY <3>2 DEF ClipFiles, HasOwnVideo
      <4>. QED  BY <4>1
    <3>3. CASE clipPc = "discard video"
      BY <3>3 DEF ClipFiles
    <3>. QED  BY <1>2, <3>1, <3>2, <3>3 DEF Writing
  <2>2. videos'[VideoOf(clipJob)'].owner = clipJob'.id
    BY <1>2, <2>1 DEF VideoOf
  <2>. QED  BY <1>2, <2>2 DEF ClipFiles
<1>3. CASE clipPc' \in {"loop", "pop", "collect", "create video", "exited"}
  BY <1>3 DEF ClipFiles
<1>4. CASE clipPc' = "write video"
  <2>1. /\ CreateVideo /\ UNCHANGED clipJob
        /\ videos' = [videos EXCEPT ![VideoOf(clipJob)] = [owner |-> clipJob.id, whole |-> FALSE]]
    BY <1>4 DEF ClipThread, ClipLoop, ClipPop, ClipCollect, CreateVideo, WriteVideo, ClipFails,
       CreateMeta, WriteMeta, DiscardVideo, PushJob, ClipGoto
  <2>2. VideoOf(clipJob) \in VideoPath
    BY <2>1, ClipJobIs DEF Tokens, CreateVideo, ClipBusy
  <2>3. videos'[VideoOf(clipJob)'] = [owner |-> clipJob'.id, whole |-> FALSE]
    BY <1>1, <2>1, <2>2 DEF FilesTyped, VideoOf
  <2>. QED  BY <1>4, <2>3 DEF ClipFiles
<1>5. CASE clipPc' = "create meta"
  <2>1. /\ WriteVideo /\ UNCHANGED clipJob
        /\ videos' = [videos EXCEPT ![VideoOf(clipJob)].whole = TRUE]
    BY <1>5 DEF ClipThread, ClipLoop, ClipPop, ClipCollect, CreateVideo, WriteVideo, ClipFails,
       CreateMeta, WriteMeta, DiscardVideo, PushJob, ClipGoto
  <2>2. VideoOf(clipJob) \in VideoPath
    BY <2>1, ClipJobIs DEF Tokens, WriteVideo, ClipBusy
  <2>3. videos[VideoOf(clipJob)] = [owner |-> clipJob.id, whole |-> FALSE]
    BY <2>1 DEF WriteVideo, ClipFiles
  <2>4. videos'[VideoOf(clipJob)] = [videos[VideoOf(clipJob)] EXCEPT !.whole = TRUE]
    BY <1>1, <2>1, <2>2 DEF FilesTyped
  <2>5. videos'[VideoOf(clipJob)'] = [owner |-> clipJob'.id, whole |-> TRUE]
    BY <2>1, <2>3, <2>4, Completed DEF VideoOf
  <2>. QED  BY <1>5, <2>5 DEF ClipFiles, HasOwnVideo
<1>6. CASE clipPc' = "write meta"
  <2>1. /\ CreateMeta /\ UNCHANGED <<clipJob, videos>>
        /\ metas' = [metas EXCEPT ![clipJob.stamp] = [owner |-> clipJob.id, whole |-> FALSE]]
    BY <1>6 DEF ClipThread, ClipLoop, ClipPop, ClipCollect, CreateVideo, WriteVideo, ClipFails,
       CreateMeta, WriteMeta, DiscardVideo, PushJob, ClipGoto
  <2>2. clipJob.stamp \in Stamps
    BY <2>1, ClipJobIs DEF Tokens, CreateMeta, ClipBusy
  <2>3. HasOwnVideo(clipJob)
    BY <2>1 DEF CreateMeta, ClipFiles
  <2>4. HasOwnVideo(clipJob)'
    BY <2>1, <2>3 DEF HasOwnVideo, VideoOf
  <2>5. metas'[clipJob'.stamp] = [owner |-> clipJob'.id, whole |-> FALSE]
    BY <1>1, <2>1, <2>2 DEF FilesTyped
  <2>. QED  BY <1>6, <2>4, <2>5 DEF ClipFiles
<1>7. CASE clipPc' = "push"
  <2>1. /\ WriteMeta /\ UNCHANGED <<clipJob, videos>>
        /\ metas' = [metas EXCEPT ![clipJob.stamp].whole = TRUE]
    BY <1>7 DEF ClipThread, ClipLoop, ClipPop, ClipCollect, CreateVideo, WriteVideo, ClipFails,
       CreateMeta, WriteMeta, DiscardVideo, PushJob, ClipGoto
  <2>2. clipJob.stamp \in Stamps
    BY <2>1, ClipJobIs DEF Tokens, WriteMeta, ClipBusy
  <2>3. /\ HasOwnVideo(clipJob)
        /\ metas[clipJob.stamp] = [owner |-> clipJob.id, whole |-> FALSE]
    BY <2>1 DEF WriteMeta, ClipFiles
  <2>4. HasOwnVideo(clipJob)'
    BY <2>1, <2>3 DEF HasOwnVideo, VideoOf
  <2>5. metas'[clipJob.stamp] = [metas[clipJob.stamp] EXCEPT !.whole = TRUE]
    BY <1>1, <2>1, <2>2 DEF FilesTyped
  <2>6. HasOwnMeta(clipJob)'
    BY <2>1, <2>3, <2>5, Completed DEF HasOwnMeta
  <2>. QED  BY <1>7, <2>4, <2>6 DEF ClipFiles
<1>8. CASE clipPc' = "discard video" /\ WriteMeta
  <2>1. UNCHANGED <<clipJob, videos>> /\ clipPc = "write meta"
    BY <1>8 DEF WriteMeta
  <2>2. videos[VideoOf(clipJob)] = [owner |-> clipJob.id, whole |-> TRUE]
    BY <2>1 DEF ClipFiles, HasOwnVideo
  <2>3. videos'[VideoOf(clipJob)'].owner = clipJob'.id
    <3>1. videos[VideoOf(clipJob)].owner = clipJob.id
      BY <2>2
    <3>. QED  BY <2>1, <3>1 DEF VideoOf
  <2>. QED  BY <1>8, <2>3 DEF ClipFiles
<1>. QED
  BY <1>2, <1>3, <1>4, <1>5, <1>6, <1>7, <1>8 DEF ClipThread, ClipLoop, ClipPop, ClipCollect,
     CreateVideo, WriteVideo, ClipFails, CreateMeta, WriteMeta, DiscardVideo, PushJob, ClipGoto,
     Writing, files

LEMMA ClipPaired ==
  ASSUME TypeOK, Tokens, ClipFiles, VideoMakers, Paired, ClipThread
  PROVE  Paired'
<1>0. FilesTyped /\ ClipHolds /\ Absent.owner \notin Ids
  <2>1. Absent.owner \notin Ids
    BY PipelineAssumption DEF Absent, Ids
  <2>. QED  BY <2>1, TypeParts DEF Tokens
<1>. SUFFICES ASSUME NEW p \in VideoPath, videos'[p] \notin {Absent, OldFile}
              PROVE  \/ ClipBusy' /\ p = VideoOf(clipJob)' /\ videos'[p].owner = clipJob'.id
                     \/ fate'[videos'[p].owner] = "left behind"
                     \/ videos'[p].whole /\ metas'[p[1]] = videos'[p]
  BY DEF Paired
<1>1. CASE videos'[p] # videos[p]
  <2>1. ClipBusy /\ p = VideoOf(clipJob) /\ videos'[p].owner = clipJob.id
    BY <1>1, ClipTouches
  <2>2. CASE clipPc' \in {"write video", "create meta"}
    BY <2>1, <2>2, ClipMoves DEF ClipBusy, VideoOf
  <2>3. CASE clipPc = "discard video" /\ clipPc' = "loop" /\ fate'[clipJob.id] = "clip failed"
    <3>1. DiscardVideo /\ videos' = [videos EXCEPT ![VideoOf(clipJob)] = Absent]
      BY <1>1, <2>3 DEF ClipThread, ClipLoop, ClipPop, ClipCollect, CreateVideo, WriteVideo,
         CreateMeta, WriteMeta, DiscardVideo, PushJob
    <3>. QED  BY <1>0, <2>1, <3>1 DEF FilesTyped
  <2>. QED  BY <1>1, <2>2, <2>3, ClipMoves
<1>2. CASE videos'[p] = videos[p]
  <2>1. videos[p].owner \in Ids /\ p[1] \in Stamps
    BY <1>0, <1>2, Owners DEF FilesTyped, VideoPath
  <2>2. CASE ClipBusy /\ p = VideoOf(clipJob) /\ videos[p].owner = clipJob.id
    <3>1. UNCHANGED clipJob /\ clipPc \notin {"collect", "create video"}
      <4>1. clipPc = "push" \/ fate[clipJob.id] = "accepted"
        BY <1>0, <2>2 DEF ClipHolds
      <4>. QED  BY <2>1, <2>2, <4>1, ClipMoves DEF VideoMakers
    <3>2. CASE ClipBusy'
      BY <1>2, <2>2, <3>1, <3>2 DEF VideoOf
    <3>3. CASE clipPc = "push"
      <4>1. /\ videos[p] = [owner |-> clipJob.id, whole |-> TRUE]
            /\ metas[clipJob.stamp] = [owner |-> clipJob.id, whole |-> TRUE]
        BY <2>2, <3>3 DEF ClipFiles, HasOwnVideo, HasOwnMeta
      <4>2. UNCHANGED metas
        BY <3>3, ClipMoves
      <4>3. p[1] = clipJob.stamp
        BY <2>2 DEF VideoOf
      <4>4. videos'[p].whole
        BY <1>2, <4>1
      <4>5. metas'[p[1]] = videos'[p]
        BY <1>2, <4>1, <4>2, <4>3
      <4>. QED  BY <4>4, <4>5
    <3>4. CASE clipPc = "discard video" /\ clipPc' = "loop"
      <4>1. DiscardVideo
        BY <3>4 DEF ClipThread, ClipLoop, ClipPop, ClipCollect, CreateVideo, WriteVideo,
           CreateMeta, WriteMeta, DiscardVideo, PushJob
      <4>2. videos' = [videos EXCEPT ![VideoOf(clipJob)] = Absent] => videos'[p] = Absent
        BY <1>0, <2>2 DEF FilesTyped
      <4>3. Settle(clipJob.id, "left behind")
        BY <4>1, <4>2 DEF DiscardVideo
      <4>4. fate'[clipJob.id] = "left behind"
        <5>1. "left behind" \in Outcomes
          BY DEF Outcomes
        <5>. QED  BY <2>1, <2>2, <4>3, <5>1, TypeParts, FateSettles
      <4>. QED  BY <1>2, <2>2, <4>4
    <3>. QED
      BY <2>2, <3>1, <3>2, <3>3, <3>4 DEF ClipThread, ClipLoop, ClipPop, ClipCollect, CreateVideo,
         WriteVideo, CreateMeta, WriteMeta, DiscardVideo, PushJob, ClipGoto, ClipBusy
  <2>3. CASE fate[videos[p].owner] = "left behind"
    BY <1>2, <2>1, <2>3, ClipFates
  <2>4. CASE videos[p].whole /\ metas[p[1]] = videos[p]
    <3>1. metas'[p[1]] = metas[p[1]]
      <4>1. SUFFICES ASSUME metas'[p[1]] # metas[p[1]] PROVE FALSE
        OBVIOUS
      <4>2. /\ ClipBusy /\ p[1] = clipJob.stamp
            /\ metas[p[1]].owner = clipJob.id
        BY <1>0, <2>1, <2>4, <4>1, ClipTouches
      <4>3. clipPc \in {"create meta", "write meta"}
        BY <4>1, ClipMoves
      <4>4. fate[clipJob.id] = "accepted"
        BY <1>0, <4>2, <4>3 DEF ClipHolds
      <4>5. CASE clipPc = "write meta"
        <5>1. metas[clipJob.stamp] = [owner |-> clipJob.id, whole |-> FALSE]
          BY <4>5 DEF ClipFiles
        <5>. QED  BY <2>4, <4>2, <5>1
      <4>6. CASE clipPc = "create meta"
        <5>1. CreateMeta /\ metas[clipJob.stamp] = Absent
          BY <4>1, <4>6 DEF ClipThread, ClipLoop, ClipPop, ClipCollect, CreateVideo, WriteVideo,
             CreateMeta, WriteMeta, DiscardVideo, PushJob
        <5>. QED  BY <1>0, <2>1, <2>4, <4>2, <5>1
      <4>. QED  BY <4>3, <4>5, <4>6
    <3>. QED  BY <1>2, <2>4, <3>1
  <2>. QED  BY <1>2, <2>2, <2>3, <2>4 DEF Paired
<1>. QED  BY <1>1, <1>2

LEMMA ClipKept ==
  ASSUME TypeOK, Tokens, ClipFiles, Kept, ClipThread PROVE Kept'
<1>1. UNCHANGED <<server, sd>>
  BY DEF ClipThread, ClipUnchanged, ClipLoop, ClipPop, ClipCollect, CreateVideo, WriteVideo,
         CreateMeta, WriteMeta, DiscardVideo, PushJob, outside
<1>2. ASSUME NEW e \in Ids, fate'[e] \in {"clip ready", "not queued"}
      PROVE  \E p \in VideoPath : videos'[p] = [owner |-> e, whole |-> TRUE]
  <2>1. CASE ClipBusy /\ e = clipJob.id
    <3>1. clipPc \in {"write meta", "push"}
      <4>1. ClipHolds
        BY DEF Tokens
      <4>. QED  BY <1>2, <2>1, <4>1, ClipSettles DEF ClipHolds
    <3>2. videos[VideoOf(clipJob)] = [owner |-> e, whole |-> TRUE]
      BY <2>1, <3>1 DEF ClipFiles, HasOwnVideo
    <3>3. UNCHANGED videos
      BY <3>1, ClipMoves
    <3>4. VideoOf(clipJob) \in VideoPath
      BY <2>1, ClipJobIs DEF Tokens
    <3>. QED  BY <3>2, <3>3, <3>4
  <2>2. CASE ~ (ClipBusy /\ e = clipJob.id)
    <3>1. fate[e] \in {"clip ready", "not queued"}
      BY <1>2, <2>2, ClipFates
    <3>2. PICK p \in VideoPath : videos[p] = [owner |-> e, whole |-> TRUE]
      BY <3>1 DEF Kept
    <3>3. videos[p].owner = e
      BY <3>2
    <3>4. videos[p] # Absent
      <4>1. Absent.owner \notin Ids
        BY PipelineAssumption DEF Absent, Ids
      <4>. QED  BY <3>3, <4>1
    <3>5. videos'[p] = videos[p]
      BY <2>2, <3>3, <3>4, ClipTouches
    <3>. QED  BY <3>2, <3>5
  <2>. QED  BY <2>1, <2>2
<1>3. ASSUME NEW e \in Ids, fate'[e] \in {"confirmed", "given up"} PROVE fate[e] = fate'[e]
  BY <1>3, ClipSettles
<1>4. ASSUME NEW e \in Ids
      PROVE  /\ fate'[e] = "confirmed" => \E i \in DOMAIN server' : server'[i].job = e
             /\ fate'[e] = "given up" => "video" \in sd'[e] \/ LostForGood(e)'
  BY <1>1, <1>3 DEF Kept, LostForGood
<1>. QED  BY <1>2, <1>4 DEF Kept

-----------------------------------------------------------------------------
(* The same of the upload thread.                                           *)

LEMMA UploadFates ==
  ASSUME TypeOK, Tokens, UploadThread, NEW e \in Ids
  PROVE  /\ ~ UploadBusy \/ e # uploadJob.id => fate'[e] = fate[e]
         /\ fate'[e] \in {"none", "dropped"} => fate[e] \in {"none", "dropped"}
         /\ fate'[e] = "accepted" => fate[e] = "accepted"
         /\ fate[e] = "left behind" => fate'[e] = "left behind"
         /\ fate'[e] \in {"clip ready", "not queued"} =>
              fate[e] = fate'[e] /\ (UploadBusy /\ e = uploadJob.id => uploadPc = "attempt")
<1>1. UploadHolds /\ UploadTyped
  BY TypeParts DEF Tokens
<1>. QED  BY <1>1, UploadSettles DEF UploadHolds, UploadBusy, UploadTyped

LEMMA UploadChangesOnlyItsOwn ==
  ASSUME TypeOK, Tokens, UploadThread
  PROVE  UNCHANGED <<clipPc, clipJob>>
BY DEF UploadThread, UploadUnchanged, UploadLoop, UploadPop, UploadConfirmed, UploadFails,
       ArchiveFailed, DeleteVideo, DeleteMeta, clipVars

LEMMA UploadClipFiles ==
  ASSUME TypeOK, Tokens, ClipFiles, UploadFiles, UploadThread PROVE ClipFiles'
<1>1. UNCHANGED <<clipPc, clipJob>>
  BY UploadChangesOnlyItsOwn
<1>2. CASE ~ ClipBusy
  BY <1>1, <1>2 DEF ClipFiles, ClipBusy
<1>3. CASE ClipBusy
  <2>1. /\ VideoOf(clipJob) \in VideoPath /\ clipJob.stamp \in Stamps
        /\ UploadBusy => uploadJob.id # clipJob.id
    BY <1>3, ClipJobIs, ClipAndUploadApart DEF Tokens
  <2>2. videos[VideoOf(clipJob)].owner = clipJob.id
          => videos'[VideoOf(clipJob)'] = videos[VideoOf(clipJob)]
    BY <1>1, <2>1, UploadTouches DEF UploadBusy, VideoOf
  <2>3. metas[clipJob.stamp].owner = clipJob.id
          => metas'[clipJob'.stamp] = metas[clipJob.stamp]
    BY <1>1, <2>1, UploadTouches DEF UploadBusy
  <2>4. \A w : videos[VideoOf(clipJob)] = [owner |-> clipJob.id, whole |-> w]
                 => videos'[VideoOf(clipJob)'] = [owner |-> clipJob'.id, whole |-> w]
    BY <1>1, <2>2
  <2>5. \A w : metas[clipJob.stamp] = [owner |-> clipJob.id, whole |-> w]
                 => metas'[clipJob'.stamp] = [owner |-> clipJob'.id, whole |-> w]
    BY <1>1, <2>3
  <2>6. videos[VideoOf(clipJob)].owner = clipJob.id
          => videos'[VideoOf(clipJob)'].owner = clipJob'.id
    BY <1>1, <2>2
  <2>. QED  BY <1>1, <2>4, <2>5, <2>6 DEF ClipFiles, HasOwnVideo, HasOwnMeta
<1>. QED  BY <1>2, <1>3

LEMMA UploadQueuedFiles ==
  ASSUME TypeOK, Tokens, QueuedFiles, UploadFiles, UploadThread PROVE QueuedFiles'
<1>1. \A i \in DOMAIN jobs' : \E k \in DOMAIN jobs : jobs'[i] = jobs[k]
  <2>1. CASE UNCHANGED jobs
    BY <2>1
  <2>2. CASE jobs # << >> /\ jobs' = Tail(jobs)
    <3>1. jobs \in Seq(Job) /\ Distinct(jobs)
      BY TypeParts DEF JobsTyped, Tokens, JobsApart, Distinct
    <3>. QED  BY <2>2, <3>1, LeftFirst
  <2>. QED
    BY <2>1, <2>2 DEF UploadThread, UploadLoop, UploadPop, UploadConfirmed, UploadFails,
       ArchiveFailed, DeleteVideo, DeleteMeta, UploadQueue!Deliver
<1>2. ASSUME NEW k \in DOMAIN jobs
      PROVE  /\ videos'[VideoOf(jobs[k])] = [owner |-> jobs[k].id, whole |-> TRUE]
             /\ metas'[jobs[k].stamp] = [owner |-> jobs[k].id, whole |-> TRUE]
  <2>1. PICK j \in Job : j = jobs[k]
    BY ElementsAreJobs
  <2>2. UploadBusy => j.id # uploadJob.id
    BY <2>1, JobsAndUploadApart
  <2>3. HasOwnVideo(j) /\ HasOwnMeta(j)
    BY <2>1 DEF QueuedFiles
  <2>4. HasOwnVideo(j)' /\ HasOwnMeta(j)'
    BY <2>2, <2>3, UploadKeepsOthers
  <2>. QED  BY <2>1, <2>4 DEF HasOwnVideo, HasOwnMeta
<1>. QED  BY <1>1, <1>2 DEF QueuedFiles, HasOwnVideo, HasOwnMeta, VideoOf

LEMMA UploadUploadFiles ==
  ASSUME TypeOK, Tokens, QueuedFiles, UploadFiles, OneVideoEach, UploadThread
  PROVE  UploadFiles'
<1>0. FilesTyped /\ UploadHolds
  BY TypeParts DEF Tokens
<1>1. CASE UploadPop /\ UploadQueue!Deliver
  <2>1. UNCHANGED files /\ uploadPc' = "attempt" /\ uploadJob' = Head(jobs) /\ jobs # << >>
    BY <1>1 DEF UploadPop, UploadGoto, UploadQueue!Deliver, UploadQueue!Drained
  <2>2. Head(jobs) = jobs[1] /\ 1 \in DOMAIN jobs
    <3>1. jobs \in Seq(Job) /\ Distinct(jobs)
      BY TypeParts DEF JobsTyped, Tokens, JobsApart, Distinct
    <3>. QED  BY <2>1, <3>1, LeftFirst
  <2>3. /\ videos[VideoOf(uploadJob')] = [owner |-> uploadJob'.id, whole |-> TRUE]
        /\ metas[uploadJob'.stamp] = [owner |-> uploadJob'.id, whole |-> TRUE]
    BY <2>1, <2>2 DEF QueuedFiles, HasOwnVideo, HasOwnMeta
  <2>. QED  BY <2>1, <2>3 DEF UploadFiles, UploadBusy, HasOwnVideo, HasOwnMeta, VideoOf, files
<1>2. CASE ~ UploadBusy'
  BY <1>2 DEF UploadFiles, UploadBusy
<1>3. CASE UNCHANGED <<uploadJob, videos, metas>> /\ UploadBusy /\ uploadPc' # "delete meta"
           /\ (uploadPc' \in {"attempt", "delete video", "remove video"} =>
                 uploadPc \in {"attempt", "delete video", "remove video"})
  BY <1>3 DEF UploadFiles, UploadBusy, HasOwnVideo, HasOwnMeta, VideoOf
<1>4. CASE DeleteVideo /\ uploadPc' = "delete meta"
  <2>1. /\ UNCHANGED <<uploadJob, metas>> /\ uploadPc \in {"delete video", "remove video"}
        /\ UploadBusy
    BY <1>4 DEF DeleteVideo, UploadBusy
  <2>2. HasOwnMeta(uploadJob)'
    BY <2>1 DEF UploadFiles, HasOwnMeta
  <2>3. ASSUME NEW p \in VideoPath, videos'[p].owner = uploadJob.id
        PROVE  fate'[uploadJob.id] = "left behind"
    <3>1. /\ uploadJob.id \in Ids /\ VideoOf(uploadJob) \in VideoPath
          /\ Absent.owner \notin Ids /\ "left behind" \in Outcomes
      <4>1. Absent.owner \notin Ids
        BY PipelineAssumption DEF Absent, Ids
      <4>2. "left behind" \in Outcomes
        BY DEF Outcomes
      <4>. QED  BY <1>0, <2>1, <4>1, <4>2, UploadJobIs
    <3>2. videos[VideoOf(uploadJob)] = [owner |-> uploadJob.id, whole |-> TRUE]
      BY <2>1 DEF UploadFiles, HasOwnVideo
    <3>3. videos[VideoOf(uploadJob)].owner = uploadJob.id
      BY <3>2
    <3>4. videos'[p] = videos[p]
      BY <2>3, <3>1, UploadTouches
    <3>5. p = VideoOf(uploadJob)
      BY <2>3, <3>1, <3>3, <3>4 DEF OneVideoEach
    <3>6. videos' # [videos EXCEPT ![VideoOf(uploadJob)] = Absent]
      BY <1>0, <2>3, <3>1, <3>5 DEF FilesTyped
    <3>7. Settle(uploadJob.id, "left behind")
      BY <1>4, <3>6 DEF DeleteVideo, UploadGoto
    <3>. QED  BY <3>1, <3>7, TypeParts, FateSettles
  <2>. QED  BY <1>4, <2>1, <2>2, <2>3 DEF UploadFiles
<1>. QED
  BY <1>1, <1>2, <1>3, <1>4 DEF UploadThread, UploadLoop, UploadPop, UploadConfirmed, UploadFails,
     ArchiveFailed, DeleteVideo, DeleteMeta, UploadGoto, UploadBusy, files

LEMMA UploadMakers ==
  ASSUME TypeOK, Tokens, UploadFiles, VideoMakers, MetaMakers, OneVideoEach, UploadThread
  PROVE  VideoMakers' /\ MetaMakers' /\ OneVideoEach'
<1>0. Absent.owner \notin Ids /\ UNCHANGED <<clipPc, clipJob>>
  <2>1. Absent.owner \notin Ids
    BY PipelineAssumption DEF Absent, Ids
  <2>. QED  BY <2>1, UploadChangesOnlyItsOwn
<1>1. /\ \A v \in VideoPath : videos'[v].owner \in Ids => videos'[v] = videos[v]
      /\ \A s \in Stamps : metas'[s].owner \in Ids => metas'[s] = metas[s]
  BY <1>0, UploadTouches
<1>2. ASSUME NEW v \in VideoPath, videos'[v].owner \in Ids
      PROVE  /\ fate'[videos'[v].owner] \notin {"none", "dropped"}
             /\ fate'[videos'[v].owner] = "accepted" => Writing' /\ videos'[v].owner = clipJob'.id
  BY <1>0, <1>1, <1>2, UploadFates DEF VideoMakers, Writing
<1>3. ASSUME NEW s \in Stamps, metas'[s].owner \in Ids
      PROVE  /\ fate'[metas'[s].owner] \notin {"none", "dropped"}
             /\ fate'[metas'[s].owner] = "accepted" =>
                  clipPc' \in {"write meta", "discard video"} /\ metas'[s].owner = clipJob'.id
  BY <1>0, <1>1, <1>3, UploadFates DEF MetaMakers
<1>4. OneVideoEach'
  BY <1>1 DEF OneVideoEach
<1>. QED  BY <1>2, <1>3, <1>4 DEF VideoMakers, MetaMakers, Writing

LEMMA UploadPaired ==
  ASSUME TypeOK, Tokens, UploadFiles, Paired, UploadThread PROVE Paired'
<1>0. FilesTyped /\ UNCHANGED <<clipPc, clipJob>>
  BY TypeParts, UploadChangesOnlyItsOwn
<1>. SUFFICES ASSUME NEW p \in VideoPath, videos'[p] \notin {Absent, OldFile}
              PROVE  \/ ClipBusy' /\ p = VideoOf(clipJob)' /\ videos'[p].owner = clipJob'.id
                     \/ fate'[videos'[p].owner] = "left behind"
                     \/ videos'[p].whole /\ metas'[p[1]] = videos'[p]
  BY DEF Paired
<1>1. videos'[p] = videos[p]
  BY UploadTouches
<1>2. videos[p].owner \in Ids /\ p[1] \in Stamps
  BY <1>0, <1>1, Owners DEF FilesTyped, VideoPath
<1>3. CASE ClipBusy /\ p = VideoOf(clipJob) /\ videos[p].owner = clipJob.id
  BY <1>0, <1>1, <1>3 DEF ClipBusy, VideoOf
<1>4. CASE fate[videos[p].owner] = "left behind"
  BY <1>1, <1>2, <1>4, UploadFates
<1>5. CASE videos[p].whole /\ metas[p[1]] = videos[p]
  <2>1. CASE metas'[p[1]] = metas[p[1]]
    BY <1>1, <1>5, <2>1
  <2>2. CASE metas'[p[1]] # metas[p[1]]
    <3>1. uploadPc = "delete meta" /\ metas[p[1]].owner = uploadJob.id
      BY <1>2, <2>2, UploadTouches
    <3>2. fate[uploadJob.id] = "left behind"
      BY <1>5, <3>1 DEF UploadFiles
    <3>. QED  BY <1>1, <1>2, <1>5, <3>1, <3>2, UploadFates
  <2>. QED  BY <2>1, <2>2
<1>. QED  BY <1>1, <1>3, <1>4, <1>5 DEF Paired

(* What the server and the card are told.                                   *)
LEMMA UploadDelivers ==
  ASSUME TypeOK, Tokens, UploadFiles, UploadThread
  PROVE  /\ UploadBusy => Request = [job |-> uploadJob.id, video |-> videos[VideoOf(uploadJob)],
                                     meta |-> metas[uploadJob.stamp]]
         /\ uploadPc = "attempt" => Readable
         /\ server' = server \/ (uploadPc = "attempt" /\ server' = Append(server, Request))
         /\ fate' # fate /\ uploadPc = "attempt" =>
              \/ fate'[uploadJob.id] = "confirmed" /\ server' = Append(server, Request)
              \/ fate'[uploadJob.id] = "given up" /\ ArchiveFailed
         /\ sd' # sd => ArchiveFailed
<1>1. UploadBusy => Request = [job |-> uploadJob.id, video |-> videos[VideoOf(uploadJob)],
                               meta |-> metas[uploadJob.stamp]]
  BY DEF Request
<1>2. uploadPc = "attempt" => Readable
  <2>1. SUFFICES ASSUME uploadPc = "attempt" PROVE Readable
    OBVIOUS
  <2>2. /\ videos[VideoOf(uploadJob)] = [owner |-> uploadJob.id, whole |-> TRUE]
        /\ metas[uploadJob.stamp] = [owner |-> uploadJob.id, whole |-> TRUE]
    BY <2>1 DEF UploadFiles, HasOwnVideo, HasOwnMeta, UploadBusy
  <2>3. /\ videos[VideoOf(uploadJob)].whole = TRUE /\ metas[uploadJob.stamp].whole = TRUE
    BY <2>2
  <2>4. Absent.whole = FALSE
    BY DEF Absent
  <2>5. videos[VideoOf(uploadJob)] # Absent /\ metas[uploadJob.stamp] # Absent
    BY <2>3, <2>4
  <2>. QED  BY <2>5 DEF Readable, Request
<1>3. server' = server \/ (uploadPc = "attempt" /\ server' = Append(server, Request))
  BY DEF UploadThread, UploadLoop, UploadPop, UploadConfirmed, UploadFails,
     ArchiveFailed, DeleteVideo, DeleteMeta, outside
<1>4. fate' # fate /\ uploadPc = "attempt" =>
              \/ fate'[uploadJob.id] = "confirmed" /\ server' = Append(server, Request)
              \/ fate'[uploadJob.id] = "given up" /\ ArchiveFailed
  <2>1. {"confirmed", "given up"} \subseteq Outcomes
    BY DEF Outcomes
  <2>2. uploadPc = "attempt" => uploadJob.id \in Ids
    BY UploadJobIs DEF Tokens, UploadBusy
  <2>. QED
    BY <2>1, <2>2, TypeParts, FateSettles DEF UploadThread, UploadLoop, UploadPop, UploadConfirmed,
       UploadFails, ArchiveFailed, DeleteVideo, DeleteMeta
<1>5. sd' # sd => ArchiveFailed
  BY DEF UploadThread, UploadLoop, UploadPop, UploadConfirmed, UploadFails,
     ArchiveFailed, DeleteVideo, DeleteMeta, outside
<1>. QED  BY <1>1, <1>2, <1>3, <1>4, <1>5

LEMMA UploadServer ==
  ASSUME TypeOK, Tokens, UploadFiles, ServerGetsWholeEvents, UploadThread
  PROVE  ServerGetsWholeEvents'
<1>1. CASE server' = server
  BY <1>1 DEF ServerGetsWholeEvents
<1>2. CASE uploadPc = "attempt" /\ server' = Append(server, Request)
  <2>1. PICK r : r = Request
    OBVIOUS
  <2>2. r \in [job : Ids, video : File, meta : File]
    BY <1>2, <2>1, UploadJobIs, TypeParts DEF Request, FilesTyped, Tokens, UploadBusy
  <2>3. /\ r.job = uploadJob.id
        /\ r.video = [owner |-> uploadJob.id, whole |-> TRUE]
        /\ r.meta = [owner |-> uploadJob.id, whole |-> TRUE]
    BY <1>2, <2>1 DEF Request, UploadFiles, HasOwnVideo, HasOwnMeta, UploadBusy
  <2>4. \A i \in DOMAIN server' : server'[i] = r \/ (i \in DOMAIN server /\ server'[i] = server[i])
    <3>1. server \in Seq([job : Ids, video : File, meta : File]) /\ server' = Append(server, r)
      BY <1>2, <2>1, TypeParts DEF OutsideTyped
    <3>. QED  BY <2>2, <3>1, Appended, LenProperties
  <2>. QED  BY <2>3, <2>4 DEF ServerGetsWholeEvents
<1>. QED  BY <1>1, <1>2, UploadDelivers

LEMMA UploadKept ==
  ASSUME TypeOK, Tokens, UploadFiles, Kept, UploadThread PROVE Kept'
<1>0. Absent.owner \notin Ids
  BY PipelineAssumption DEF Absent, Ids
<1>1. ASSUME NEW e \in Ids, fate'[e] \in {"clip ready", "not queued"}
      PROVE  \E p \in VideoPath : videos'[p] = [owner |-> e, whole |-> TRUE]
  <2>1. fate[e] \in {"clip ready", "not queued"}
    BY <1>1, UploadFates
  <2>2. PICK p \in VideoPath : videos[p] = [owner |-> e, whole |-> TRUE]
    BY <2>1 DEF Kept
  <2>3. videos[p].owner = e
    BY <2>2
  <2>4. videos'[p] = videos[p]
    BY <1>1, <2>3, UploadTouches, UploadFates DEF UploadBusy
  <2>. QED  BY <2>2, <2>4
<1>2. ASSUME NEW e \in Ids, fate'[e] = "confirmed"
      PROVE  \E i \in DOMAIN server' : server'[i].job = e
  <2>1. CASE server' = server
    <3>1. fate[e] = "confirmed"
      <4>1. CASE UNCHANGED fate
        BY <1>2, <4>1
      <4>2. CASE fate' # fate /\ uploadPc = "attempt" /\ e = uploadJob.id
        <5>1. server' = Append(server, Request)
          BY <1>2, <4>2, UploadDelivers
        <5>2. server \in Seq([job : Ids, video : File, meta : File])
              /\ Request \in [job : Ids, video : File, meta : File]
          BY <4>2, UploadJobIs, TypeParts DEF Request, FilesTyped, Tokens, UploadBusy, OutsideTyped
        <5>3. Len(server') = Len(server) + 1 /\ Len(server) \in Nat
          BY <5>1, <5>2, Appended, LenProperties
        <5>. QED  BY <2>1, <5>3
      <4>. QED  BY <1>2, <4>1, <4>2, UploadSettles, UploadFates
    <3>. QED  BY <2>1, <3>1 DEF Kept
  <2>2. CASE uploadPc = "attempt" /\ server' = Append(server, Request)
    <3>1. PICK r : r = Request
      OBVIOUS
    <3>2. /\ server \in Seq([job : Ids, video : File, meta : File])
          /\ r \in [job : Ids, video : File, meta : File] /\ r.job = uploadJob.id
      BY <2>2, <3>1, UploadJobIs, TypeParts DEF Request, FilesTyped, Tokens, UploadBusy, OutsideTyped
    <3>3. /\ Len(server) + 1 \in DOMAIN server' /\ server'[Len(server) + 1] = r
          /\ \A i \in DOMAIN server : i \in DOMAIN server' /\ server'[i] = server[i]
      <4>1. server' = Append(server, r)
        BY <2>2, <3>1
      <4>. QED  BY <3>2, <4>1, Appended, LenProperties
    <3>4. CASE e = uploadJob.id
      BY <3>2, <3>3, <3>4
    <3>5. CASE e # uploadJob.id
      <4>1. fate[e] = "confirmed"
        BY <1>2, <3>5, UploadFates
      <4>2. PICK i \in DOMAIN server : server[i].job = e
        BY <4>1 DEF Kept
      <4>. QED  BY <3>3, <4>2
    <3>. QED  BY <3>4, <3>5
  <2>. QED  BY <2>1, <2>2, UploadDelivers
<1>3. ASSUME NEW e \in Ids, fate'[e] = "given up"
      PROVE  "video" \in sd'[e] \/ LostForGood(e)'
  <2>1. CASE ArchiveFailed
    <3>1. uploadPc = "attempt" /\ Settle(uploadJob.id, "given up") /\ Readable
      BY <2>1, UploadDelivers DEF ArchiveFailed
    <3>2. PICK copied \in {{}, {"video"}, {"video", "meta"}} :
            /\ copied # {"video", "meta"} => ~ SdMounted \/ Fails("sd")
            /\ sd' = [sd EXCEPT ![uploadJob.id] = copied]
      BY <2>1, <3>1 DEF ArchiveFailed
    <3>3. uploadJob.id \in Ids /\ sd \in [Ids -> SUBSET {"video", "meta"}]
      BY <3>1, UploadJobIs, TypeParts DEF Tokens, UploadBusy, OutsideTyped
    <3>4. CASE e = uploadJob.id
      <4>1. sd'[e] = copied
        BY <3>2, <3>3, <3>4
      <4>. QED  BY <1>3, <3>2, <4>1 DEF LostForGood
    <3>5. CASE e # uploadJob.id
      <4>1. sd'[e] = sd[e] /\ fate[e] = "given up"
        BY <1>3, <3>2, <3>3, <3>5, UploadFates
      <4>. QED  BY <1>3, <4>1 DEF Kept, LostForGood
    <3>. QED  BY <3>4, <3>5
  <2>2. CASE ~ ArchiveFailed
    <3>1. UNCHANGED sd
      BY <2>2, UploadDelivers
    <3>2. fate[e] = "given up"
      <4>1. CASE UNCHANGED fate
        BY <1>3, <4>1
      <4>2. CASE fate' # fate
        BY <1>3, <2>2, <4>2, UploadSettles, UploadDelivers
      <4>. QED  BY <4>1, <4>2
    <3>. QED  BY <1>3, <3>1, <3>2 DEF Kept, LostForGood
  <2>. QED  BY <2>1, <2>2
<1>. QED  BY <1>1, <1>2, <1>3 DEF Kept

-----------------------------------------------------------------------------
(* Publishing an event touches no file, and neither does the main thread.   *)

LEMMA PublishFates ==
  ASSUME TypeOK, Tokens, NEW s \in Stamps, Publish(s), NEW e \in Ids
  PROVE  \/ fate'[e] = fate[e]
         \/ fate[e] = "none" /\ fate'[e] \in {"accepted", "dropped"}
<1>1. published + 1 \in Ids /\ published + 1 > published
  BY TypeParts, PipelineAssumption DEF Publish, Ids
<1>2. fate[published + 1] = "none"
  BY <1>1 DEF Tokens, EventsApart
<1>3. {"accepted", "dropped"} \subseteq Outcomes
  BY DEF Outcomes
<1>4. PICK o \in {"accepted", "dropped"} : Settle(published + 1, o)
  BY DEF Publish
<1>. QED  BY <1>1, <1>2, <1>3, <1>4, TypeParts, FateSettles

LEMMA PublishFiles ==
  ASSUME TypeOK, Tokens, Files, NEW s \in Stamps, Publish(s) PROVE Files'
<1>1. /\ UNCHANGED <<videos, metas>> /\ UNCHANGED jobs
      /\ UNCHANGED clipPc /\ UNCHANGED clipJob /\ UNCHANGED uploadPc /\ UNCHANGED uploadJob
  BY DEF Publish, files, clipVars, uploadVars
<1>2. ClipFiles' /\ QueuedFiles'
  BY <1>1 DEF Files, ClipFiles, QueuedFiles, HasOwnVideo, HasOwnMeta, VideoOf
<1>3. UploadFiles'
  <2>1. uploadPc = "delete meta" /\ fate[uploadJob.id] = "left behind" => fate'[uploadJob.id] = "left behind"
    BY UploadJobIs, PublishFates DEF Tokens, UploadBusy
  <2>. QED
    BY <1>1, <2>1 DEF Files, UploadFiles, UploadBusy, HasOwnVideo, HasOwnMeta, VideoOf
<1>4. VideoMakers'
  <2>1. VideoMakers
    BY DEF Files
  <2>. QED  BY <1>1, <2>1, PublishFates DEF VideoMakers
<1>5. MetaMakers' /\ OneVideoEach'
  <2>1. MetaMakers /\ OneVideoEach
    BY DEF Files
  <2>2. MetaMakers'
    BY <1>1, <2>1, PublishFates DEF MetaMakers
  <2>. QED  BY <1>1, <2>1, <2>2 DEF OneVideoEach
<1>6. Paired'
  <2>1. ASSUME NEW p \in VideoPath, videos[p] \notin {Absent, OldFile},
               fate[videos[p].owner] = "left behind"
        PROVE  fate'[videos[p].owner] = "left behind"
    <3>1. videos[p].owner \in Ids
      BY <2>1, Owners, TypeParts DEF FilesTyped
    <3>. QED  BY <2>1, <3>1, PublishFates
  <2>2. Paired
    BY DEF Files
  <2>. QED  BY <1>1, <2>1, <2>2 DEF Paired, ClipBusy, VideoOf
<1>. QED  BY <1>2, <1>3, <1>4, <1>5, <1>6 DEF Files

LEMMA PublishKept ==
  ASSUME TypeOK, Tokens, Kept, NEW s \in Stamps, Publish(s) PROVE Kept'
<1>1. UNCHANGED <<videos, server, sd>>
  BY DEF Publish, files, outside
<1>2. ASSUME NEW e \in Ids, fate'[e] \in {"clip ready", "not queued", "confirmed", "given up"}
      PROVE  fate[e] = fate'[e]
  BY <1>2, PublishFates
<1>. QED  BY <1>1, <1>2 DEF Kept, LostForGood

-----------------------------------------------------------------------------
(* The inductive invariant. The queues and the two threads hold different   *)
(* events (Tokens); every file is known by the event that made it and where *)
(* that event is (Files); and a finished clip is where its outcome says     *)
(* (Kept).                                                                  *)
PipelineInv == TypeOK /\ Tokens /\ Files /\ Kept /\ ServerGetsWholeEvents

LEMMA ClipFilesNext ==
  ASSUME TypeOK, Tokens, Files, ClipThread PROVE Files'
<1>1. /\ ClipFiles /\ QueuedFiles /\ UploadFiles /\ VideoMakers /\ MetaMakers /\ OneVideoEach
      /\ Paired
  BY DEF Files
<1>. QED
  BY <1>1, ClipClipFiles, ClipQueuedFiles, ClipUploadFiles, ClipVideoMakers, ClipMetaMakers,
     ClipOneVideoEach, ClipPaired DEF Files

LEMMA UploadFilesNext ==
  ASSUME TypeOK, Tokens, Files, UploadThread PROVE Files'
<1>1. /\ ClipFiles /\ QueuedFiles /\ UploadFiles /\ VideoMakers /\ MetaMakers /\ OneVideoEach
      /\ Paired
  BY DEF Files
<1>. QED
  BY <1>1, UploadClipFiles, UploadQueuedFiles, UploadUploadFiles, UploadMakers, UploadPaired
  DEF Files

LEMMA PipelineInitInv == Init => PipelineInv
<1>. SUFFICES ASSUME Init PROVE PipelineInv
  OBVIOUS
<1>1. TypeOK
  BY PipelineInitTypes
<1>2. /\ events = << >> /\ jobs = << >> /\ server = << >> /\ clipPc = "loop" /\ uploadPc = "loop"
      /\ published = 0 /\ fate = [e \in Ids |-> "none"]
      /\ videos \in [VideoPath -> AtStart] /\ metas \in [Stamps -> AtStart]
  BY DEF Init, EventQueue!Init, UploadQueue!Init
<1>3. DOMAIN events = {} /\ DOMAIN jobs = {} /\ DOMAIN server = {}
  BY <1>2
<1>4. Tokens
  BY <1>2, <1>3 DEF Tokens, EventsApart, ClipHolds, JobsApart, UploadHolds, ClipBusy, UploadBusy
<1>5. Files
  <2>1. Absent.owner \notin Ids /\ OldFile.owner \notin Ids
    BY PipelineAssumption DEF Absent, OldFile, Ids
  <2>2. /\ \A p \in VideoPath : videos[p] \in {Absent, OldFile}
        /\ \A s \in Stamps : metas[s] \in {Absent, OldFile}
    BY <1>2 DEF AtStart
  <2>3. ClipFiles /\ QueuedFiles /\ UploadFiles
    BY <1>2, <1>3 DEF ClipFiles, QueuedFiles, UploadFiles, UploadBusy
  <2>4. VideoMakers /\ MetaMakers /\ OneVideoEach
    BY <2>1, <2>2 DEF VideoMakers, MetaMakers, OneVideoEach
  <2>5. Paired
    BY <2>2 DEF Paired
  <2>. QED  BY <2>3, <2>4, <2>5 DEF Files
<1>6. Kept
  BY <1>2 DEF Kept
<1>7. ServerGetsWholeEvents
  BY <1>3 DEF ServerGetsWholeEvents
<1>. QED  BY <1>1, <1>4, <1>5, <1>6, <1>7 DEF PipelineInv

LEMMA PipelineNextInv == PipelineInv /\ [Next]_vars => PipelineInv'
<1>. SUFFICES ASSUME TypeOK, Tokens, Files, Kept, ServerGetsWholeEvents, [Next]_vars
              PROVE  PipelineInv'
  BY DEF PipelineInv
<1>0. ClipHolds /\ UploadHolds /\ ClipFiles /\ UploadFiles
  BY DEF Tokens, Files
<1>1. ASSUME NEW s \in Stamps, Publish(s) PROVE PipelineInv'
  <2>1. TypeOK'
    BY <1>1, PublishTypes
  <2>2. Tokens'
    BY <1>1, PublishTokens
  <2>3. Files'
    BY <1>1, PublishFiles
  <2>4. Kept'
    BY <1>1, PublishKept
  <2>5. ServerGetsWholeEvents'
    BY <1>1 DEF Publish, outside, ServerGetsWholeEvents
  <2>. QED  BY <2>1, <2>2, <2>3, <2>4, <2>5 DEF PipelineInv
<1>2. CASE ClipThread
  <2>1. TypeOK'
    BY <1>0, <1>2, ClipTypes
  <2>2. Tokens'
    BY <1>2, ClipTokens
  <2>3. Files'
    BY <1>2, ClipFilesNext
  <2>4. Kept'
    BY <1>0, <1>2, ClipKept
  <2>5. ServerGetsWholeEvents'
    <3>1. UNCHANGED server
      BY <1>2 DEF ClipThread, ClipUnchanged, ClipLoop, ClipPop, ClipCollect, CreateVideo, WriteVideo,
         CreateMeta, WriteMeta, DiscardVideo, PushJob, outside
    <3>. QED  BY <3>1 DEF ServerGetsWholeEvents
  <2>. QED  BY <2>1, <2>2, <2>3, <2>4, <2>5 DEF PipelineInv
<1>3. CASE UploadThread
  <2>1. TypeOK'
    BY <1>0, <1>3, UploadTypes
  <2>2. Tokens'
    BY <1>3, UploadTokens
  <2>3. Files'
    BY <1>3, UploadFilesNext
  <2>4. Kept'
    BY <1>0, <1>3, UploadKept
  <2>5. ServerGetsWholeEvents'
    BY <1>0, <1>3, UploadServer
  <2>. QED  BY <2>1, <2>2, <2>3, <2>4, <2>5 DEF PipelineInv
<1>4. CASE MainThread \/ Stop \/ UNCHANGED vars
  <2>1. TypeOK'
    <3>1. CASE MainThread \/ Stop
      BY <3>1, MainTypes
    <3>2. CASE UNCHANGED vars
      <4>1. /\ UNCHANGED <<events, eventsClosed>> /\ UNCHANGED <<jobs, jobsClosed>>
            /\ UNCHANGED clipVars /\ UNCHANGED uploadVars /\ UNCHANGED files
            /\ UNCHANGED outside /\ UNCHANGED fate /\ UNCHANGED <<running, mainPc>>
            /\ UNCHANGED published
        BY <3>2 DEF vars, queues, history
      <4>. QED  BY <4>1, TypeParts, PartsKept
    <3>. QED  BY <1>4, <3>1, <3>2
  <2>2. /\ UNCHANGED <<events, jobs>> /\ UNCHANGED <<clipPc, clipJob>>
        /\ UNCHANGED <<uploadPc, uploadJob>> /\ UNCHANGED <<videos, metas>>
        /\ UNCHANGED <<server, sd>> /\ UNCHANGED <<published, fate>>
    BY <1>4 DEF MainThread, Stop, MainUnchanged, CloseEvents, CloseJobs, JoinAndExit, history,
       vars, queues, clipVars, uploadVars, files, outside, EventQueue!Close, UploadQueue!Close
  <2>3. Tokens'
    BY <2>2 DEF Tokens, EventsApart, ClipHolds, JobsApart, UploadHolds, ClipBusy, UploadBusy
  <2>4. Files'
    BY <2>2 DEF Files, ClipFiles, QueuedFiles, UploadFiles, VideoMakers, MetaMakers, OneVideoEach,
       Paired, HasOwnVideo, HasOwnMeta, VideoOf, ClipBusy, UploadBusy
  <2>5. Kept' /\ ServerGetsWholeEvents'
    BY <2>2 DEF Kept, LostForGood, ServerGetsWholeEvents
  <2>. QED  BY <2>1, <2>3, <2>4, <2>5 DEF PipelineInv
<1>. QED  BY <1>1, <1>2, <1>3, <1>4 DEF Next

LEMMA PipelineInvariance == Spec => []PipelineInv
BY PipelineInitInv, PipelineNextInv, PTL DEF Spec

(* Every variable of the pipeline keeps its type: no queue grows beyond its *)
(* capacity, no job is tried more than upload_retry times.                  *)
THEOREM PipelineTypeCorrect == Spec => []TypeOK
<1>1. PipelineInv => TypeOK
  BY DEF PipelineInv
<1>. QED  BY <1>1, PipelineInvariance, PTL

(* The server stores whole events only, a video is never left without its   *)
(* metadata, and a job that waits owns both its files.                      *)
THEOREM EventsStayWholeHolds == Spec => []EventsStayWhole
<1>1. PipelineInv => EventsStayWhole
  <2>1. SUFFICES ASSUME TypeOK, Tokens, Files, ServerGetsWholeEvents
                 PROVE  FilesComeInPairs /\ PendingJobsOwnTheirFiles
    BY DEF PipelineInv, EventsStayWhole
  <2>2. FilesComeInPairs
    BY <2>1 DEF Files, Paired, FilesComeInPairs, InHand, ClipBusy
  <2>3. PendingJobsOwnTheirFiles
    BY <2>1 DEF Files, ClipFiles, QueuedFiles, UploadFiles, PendingJobs, PendingJobsOwnTheirFiles,
       UploadBusy
  <2>. QED  BY <2>2, <2>3
<1>. QED  BY <1>1, PipelineInvariance, PTL

(* A finished clip is in the events directory, at the server or on the      *)
(* card; it is lost only when the upload was given up and the card did not  *)
(* take it.                                                                 *)
THEOREM EvidenceIsSomewhereHolds == Spec => []EvidenceIsSomewhere
<1>1. PipelineInv => EvidenceIsSomewhere
  BY DEF PipelineInv, Kept, EvidenceIsSomewhere
<1>. QED  BY <1>1, PipelineInvariance, PTL

(* No step writes over or deletes a file an earlier run left behind.        *)
THEOREM OldFilesAreKeptHolds == Spec => OldFilesAreKept
<1> DEFINE Keeps == /\ \A p \in VideoPath : videos[p] = OldFile => videos'[p] = OldFile
                    /\ \A s \in Stamps : metas[s] = OldFile => metas'[s] = OldFile
<1>1. PipelineInv /\ [Next]_vars => [Keeps]_vars
  <2>1. SUFFICES ASSUME TypeOK, Tokens, Files, Next PROVE Keeps
    BY DEF PipelineInv
  <2>2. /\ OldFile # Absent /\ OldFile.owner \notin Ids
        /\ ClipFiles /\ UploadFiles
    <3>1. OldFile.owner = -1 /\ Absent.owner = 0
      BY DEF OldFile, Absent
    <3>2. -1 \notin Ids
      BY PipelineAssumption DEF Ids
    <3>. QED  BY <2>1, <3>1, <3>2 DEF Files
  <2>3. CASE ClipThread
    <3>1. ClipBusy => clipJob.id \in Ids
      BY <2>1, ClipJobIs DEF Tokens
    <3>. QED  BY <2>1, <2>2, <2>3, <3>1, ClipTouches
  <2>4. CASE UploadThread
    <3>1. UploadBusy => uploadJob.id \in Ids
      BY <2>1, UploadJobIs DEF Tokens
    <3>. QED  BY <2>1, <2>2, <2>4, <3>1, UploadTouches DEF UploadBusy
  <2>5. CASE UNCHANGED <<videos, metas>>
    BY <2>5
  <2>6. CASE MainThread \/ Stop \/ \E s \in Stamps : Publish(s)
    BY <2>5, <2>6 DEF Publish, MainThread, Stop, MainUnchanged, CloseEvents, CloseJobs,
       JoinAndExit, files
  <2>. QED  BY <2>1, <2>3, <2>4, <2>6 DEF Next
<1>2. Spec => [][Keeps]_vars
  BY <1>1, PipelineInvariance, PTL DEF Spec
<1>. QED  BY <1>2 DEF OldFilesAreKept

=============================================================================
