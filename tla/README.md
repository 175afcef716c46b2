# Formal model of camera_abnormal_app

`camera_abnormal_app` runs on a HIK camera. It keeps the last seconds of the
encoded video in memory, lets the camera's own detector (HIKFlow) report people,
confirms an alarm when N of M frames agree, cuts a clip around the alarm, uploads
the clip with its metadata and, when the upload fails, keeps it on the SD card.
A web page shows the live picture with the detection boxes over it.

This directory holds TLA+ modules translated from that code, TLC instances that
check them, and TLAPS proofs. Every definition that models code is listed in
`PROJECT.json` under `map` with the lines it stands for.

## 1. The system

The C program is in `src/` of the repository, the page in `APP/html`. The page's own
code is `main.js`; it stands on a player (`jsPlugin`, `playctrl/`), a dialog library
and jQuery, which the repository ships as source and which the page's behaviour
depends on. `vendor/` is the camera SDK's demo code.

| Part | Source | State | Operations | Correct when |
|---|---|---|---|---|
| Packet ring | `ring_buffer.c` | slots, head, count, byte counter, statistics, last VPS/SPS/PPS, a mutex | push, prune, snapshot | contents and counters are exact, nothing leaves early, snapshots are complete |
| Alarm confirmation | `infer_adapter.c` | static window of samples, next index, fill level | one call per inferred frame | an alarm on the N-th hit of the last M frames, none counted twice |
| Event queue, upload queue | `event_queue.c`, `uploader.c` | circular array, closed flag, mutex, two conditions | push, pop, close | FIFO, no lost wakeup, a close releases everybody |
| Clip writer | `clip_writer.c`, `event_files.h` | the event in hand, its files | two snapshots, wait, write, queue the job | the clip is whole, starts at a key frame, and its files are its own |
| Uploader | `uploader.c` | the job in hand, attempts | POST, judge the answer, retry, delete | evidence is somewhere until confirmed |
| Failed-upload archive | `failed_archive.h` | directories on the SD card | new directory, copies, syncs, removal | safe on the card before it leaves the device; directories exclusive |
| RTSP session | `rtsp_client.c` | socket, receive buffer, session | connect, requests, frames, reconnect | ends clean, comes back, stops |
| RTP depacketizer | `rtp_h26x.c` | fragment buffer | single, aggregated, fragmented units | whole units arrive, damage stays in its unit |
| Overlay snapshot | `detect_overlay.c` | newest result, sequence number, a mutex | publish, get | what the page polls is never older than before |
| One-shot cleanup | `startup_cleanup.c` | marker file, event files | delete what an older version left, once | never sweeps over new events |
| Main | `main.c` | `g_running`, threads, what is ready | initialise, create, loop, close, join, destroy | nothing is used after its end; a stop ends it |
| Page: overlay, recorder | `main.js` | poll in flight, last sequence; recorder, chunks, timers | poll, draw, reset; start, stop, chain | one chain each, no stale picture |
| Page: channels, form, region | `main.js` | selected channel, form, shape, player | click, load, draw, save | what is saved belongs to the channel selected |
| Page: dialogs | `jquery.artDialog` | dialogs by id, a spare box, timers | open, change, close | boxes are not mixed up, prompts leave |
| Page: player, renderer | `jsPlugin`, `DecodeWorker.js`, `SuperRender_10.js` | frames, data, flags of two threads; WebGL objects | play, feed, decode, draw, close | the two threads never wait for each other |
| Page: sound | `AudioRenderer.js` | window in front, volumes, gain node | play, stop, set volume, set window | as loud as set |
| Page: jQuery | `jquery-1.11.1.js` | callback lists, data cache, requests, ready list, selector caches, effect queues | called by the page and calling back into it | every callback as often as promised |
| Configuration | `config.c` | - | parse and clamp | |

### How they interact

    camera --RTP/TCP--> rtsp thread --ring_push--> PACKET RING <--ring_prune-- main
                                                        |
                                                        | ring_snapshot (twice)
    HIKFlow --frame--> confirmation --try_push--> EVENT QUEUE --pop--> clip thread
                            |                                             | files, then
                            v                                             | push (blocks)
                      overlay snapshot <--GET-- page                 UPLOAD QUEUE
                                                                          | pop
                                              server <--POST-- upload thread --> SD card

    page:  user --> form, region, dialogs --$.ajax--> device
           stream --> JSPlayCtrl <--messages--> DecodeWorker;  JSPlayCtrl --> WebGL, sound

The program is one process. The ring, the two queues and the overlay snapshot are
shared memory under one mutex each; clip and upload thread share the events
directory by file name, without any lock. `g_running` is a flag set by a signal
handler, by a start that fails or by a detector that does not start, and read by
every loop. The page is single-threaded except for the decoder, which answers by
messages; everything else interleaves at timers, answers and callbacks.

### What is hard in it

* **Interleaving.** Three threads share the ring, and `ring_push` reads the clock
  *before* it takes the mutex. Two threads create and delete files by name. On the
  page, clicks come while a switch of the channel waits for the player.
* **Re-entrance.** jQuery's callbacks, handlers and complete functions change the
  list, cache, queue or request that is calling them.
* **Limits.** The ring is bounded by time, bytes and slots at once; both queues are
  bounded; the decoder and its frame buffer fill up.
* **Partial failure.** `malloc` in the middle of a push; the video written and the
  metadata not; a copy to the card that fails half way; a start of which one step
  fails.
* **Timeouts.** Answer, timeout and abort of one request race; a prompt's time runs
  out under the mouse; a fade is stopped on its way.
* **Shutdown.** The clip thread may block on a queue whose consumer has gone; `main`
  joins one thread after the other; detector threads are never joined and may still
  raise an alarm while the queue is destroyed.
* **Stale state.** Confirmation resets its indices and not its array; dialogs recycle
  boxes; data of elements lives under numbers that are used again; selectors leave
  their results on the nodes; decoding ends when another window is in front.
* **Crash.** The one-shot cleanup must not run twice; a failed upload is copied, synced
  and removed while the power may go at any moment.

`PROJECT.json` lists each as a hazard with the line where it bites and the properties
that would notice it; notes say what a property leaves out.

## 2. The modules

| Module | Models | Kind |
|---|---|---|
| `PacketRing` | `ring_buffer.c` with its three threads | detailed |
| `ConfirmWindow` | `camera_abnormal_on_detection_frame` | implements `SlidingConfirm` |
| `SlidingConfirm` | what the confirmation promises | abstract |
| `BoundedQueue` | `event_queue.c` and the queue of `uploader.c` | implements `Channel` |
| `Channel` | a bounded FIFO that can be closed | abstract |
| `EventPipeline` | clip thread, upload thread, shutdown, files, server, card | composes two `Channel`s |
| `FailedArchive` | `failed_archive.h`, with power losses | the step `ArchiveFailed` of `EventPipeline` in detail |
| `Lifecycle` | start and stop of `main.c`, late alarms | detailed |
| `ClipWindow` | `build_clip`: which packets a clip holds | over what `PacketRing` promises |
| `RtpDepacketizer` | `rtp_h26x.c` | detailed |
| `RtspSession` | `rtsp_client.c` | extends `RtpDepacketizer` |
| `StartupCleanup` | `startup_cleanup.c`, the start of `main` | with power losses |
| `DetectOverlay` | `detect_overlay.c` and the polling page | device and page |
| `AutoRecorder` | the "auto record" button | detailed |
| `RectCanvas` | the region editor | detailed |
| `ChannelPage` | channels, form and save, the switch of the player | extends `RectCanvas` |
| `ArtDialog` | prompt and preloading dialog | detailed |
| `SuperRender` | WebGL objects, cut of a frame | detailed |
| `PlayCtrl` | `JSPlayCtrl` and `DecodeWorker.js` | extends `SuperRender` |
| `AudioRenderer` | sound | detailed |
| `Callbacks` | `jQuery.Callbacks`, `jQuery.Deferred` | detailed |
| `Sublists` | a list without some of its elements (jQuery's `splice` loops) | helper of `Callbacks` and `PageEvents` |
| `PageEvents` | events and the data cache | detailed |
| `Ajax` | `$.ajax` and the XHR transport | detailed |
| `PageReady` | `$(document).ready` | over what `Callbacks` promises |
| `Selectors` | Sizzle's compiled matchers and caches | against a reference definition |
| `Effects`, `Fades` | queues, animations, stop and finish; what fades do to an element | detailed |
| `UploadProofs`, `PacketRingProofs`, `EventPipelineProofs`, `DaemonProofs`, `ClipWindowProofs`, `PageProofs`, `ViewProofs`, `LibraryProofs` | theorems | proofs |

Instances for TLC: `MCPacketRing`, `MCClipWindow`, `MCRtspSession`, `MCEventPipeline`
and `MCChannelPage` instantiate one module each. The others put small parts *side by
side*: Init chooses one, it runs, the others rest, and fairness is stated for the one
that runs. `MCUnits`: queue, confirmation, cleanup, main. `MCEvidence`: pipeline,
archive. `MCWidgets`: overlay, recorder, dialogs, player, sound, ready blocks. `MCLibrary`: the
other parts of jQuery. Nothing is said there about two parts at once; each is checked as if
it ran alone.

`EventPipeline` uses two instances of `Channel` for its queues instead of the mutexes
and conditions, and `BoundedQueue` is proved to implement `Channel`: that is the step
that justifies it. `ClipWindow` likewise takes the ring as its theorems describe it, and
`EventPipeline` takes the archive as one step whose outcomes `FailedArchive` checks
(`ArchivedWhole`).

Operators named `Something_Else` are variants of `Something` with a plausible bug. They
take part in no specification; `PROJECT.json` pairs each with the property that must
notice when it replaces the original.

### PacketRing

The mutex is `holder`. A thread inside an operation has its stage in `pc`, the
clock value it read in `now`. `pkts`, `head`, `count`, `payload_bytes`, `stats`
are the fields of the C struct; `params` says, for each of VPS, SPS and PPS, which
packet the saved copy came from (0: none). One packet is evicted per step.

| Code | Actions |
|---|---|
| `ring_push` | `PushReadClock`, `PushLock`, `PruneOne`, then `PushOversize`, or `PushEvictBytes`*, `PushEvictCount`, and `PushStore` or `PushAllocFails` |
| `ring_prune` | `LockAndReadClock("main")`, `PruneOne`*, `PruneReturn` |
| `ring_snapshot`, `packet_array_free` | `LockAndReadClock("clip")`, `PruneOne`*, `SnapshotCopy`, `SnapshotFree` |

`log` is a history variable: every packet stored so far with the running sum of
sizes (`upto`), so that "the bytes in the ring" is a difference of two numbers and
needs no recursion. `lostParam` remembers the kinds whose last set could not be
saved.

### ConfirmWindow

The detector calls from one algorithm thread, so a call is one step:
`CollectFrame` (fewer than N hits) or `ConfirmFrame` (N hits: restart the window,
choose the class, push the event without blocking). `samples`, `next`, `fill` are
the three statics. `M` and `N` are the configured values *after* the function's own
clamping, so the constants may be any integers. `hitsSince` is history.

### BoundedQueue

The mutex is held from a call (or a wakeup) to the return (or the wait), so each
such stretch is one step: `CallPush`, `PushWaits`, `PushRefused`, `PushAccepted`,
`CallPop`, `PopWaits`, `PopFails`, `PopReturns`, `CloseQueue`. A signal wakes at
most one waiter and does not say which; `SpuriousWakeup` is POSIX's licence to wake
anyone. `accepted` and `delivered` are history.

### EventPipeline

The state is the two queues, where `main`, clip and upload thread are, the files in
the events directory (`videos`, `metas`: who wrote the file, and whether it is
whole), what the server received in order and what the card holds. A time stamp
identifies a file *name*, so that two events of one millisecond collide, as they do
in the code. `Faults` chooses what may go wrong in an instance: an empty or failing
ring snapshot, a failing write, a failing `unlink`, a failing card, a network that
loses requests or answers. `fate` is history: what became of each event, "left
behind" when a deletion failed and a file stays without its partner.

A file that is made but gets no stream (`event_files.h:34`) is one whose writing fails
(`WriteVideo`, `WriteMeta`): it is deleted, and stays when that fails too.

Modelled as the code has it: `O_EXCL` creation of the video and removal of it when
the metadata cannot be written; a blocking push of the job whose failure leaves both
files; retries up to `upload_retry`; the running flag tested at the places where the
code tests it, so that a job popped during a stop is archived without an attempt;
deletion after a confirmed upload or after the attempt to archive.

### ClipWindow

Two clocks: `mono` decides what the ring has dropped, `wall` stamps packets and
events and may be set by NTP (`SetClock`). A packet is stamped by the RTSP thread
(`Stamp`) and stored later (`StorePacket`). `PreSnapshot`, `WaitIsOver`,
`PostSnapshot` and `Write` are the stages of `build_clip`; `InRange` is
`append_range`, `AlignToKeyframe` is `align_to_keyframe`. `clip` is the set of what was
taken, each by its place in the log of all packets and the snapshot it came from; `Before` is
the order in the array. `lastRecv` is the seam. `seen` and `sound` are history: how much
had been stored at the first snapshot, and whether nothing has happened so far that
the README's capacity rule does not cover.

### RtpDepacketizer and RtspSession

The camera sends numbered units, whole, aggregated (`WholePayload`) or in fragments
(`BeginFragments`, then one `Fragment` action each). `fu` is the fragment buffer as a
sequence of pieces of units; piece 0 is the rebuilt header. A fragment may be lost,
find no memory, be rejected because its beginning was lost, be appended, or finish
the unit. Both codecs run the same algorithm, so there is no codec in the model.

`RtspSession` adds the thread: connect, DESCRIBE, SETUP, PLAY, read, leave, try
again, with a camera that comes and goes. Each session has a parser of its own
(`FreshParser`). A read is a step of the depacketizer.

### FailedArchive

`hand` is where `failed_archive_and_remove` is, with its local flags; `card` has for
every directory name what is visible of the two files and what of it is synced: data,
entries in the directory, the directory's entry on the card. Every call may fail
(`GotoError`, `CopyFails`, the second halves of `TidyUp` and `RemoveLocal`), and
`LosePower` may come between any two: it leaves any state that the syncs do not
exclude (`FileAfterLoss`, `AfterLoss`). A name is made of time, process id and serial;
within a run the serial makes it new (`usedNames`), after a restart it may come back,
and then only `mkdirat`'s refusal keeps two events apart. `failing` and `torn` are
history: for which events a call failed, and tidying up after it.

### Lifecycle

`Plan` is what `main` does in order, `at` its place; a failing initialisation jumps to
the destruction, a failing `pthread_create` to the loop with `g_running` cleared. Of a
thread only what it waits for is kept. `event_queue_destroy` is taken step by step
(`DestroySteps`), because a detector thread, which nobody joins, may be in
`event_queue_push` meanwhile: it reads closed flag, count and capacity one by one
(`AlertReads`), as no lock holds any more. Every build that `module_flags.h` allows is
an initial state.

### StartupCleanup

`events` and `marker` are what programs see, `limbo` the deletions that a power loss
may still undo, `disk` the states a power loss may leave of the marker; each `fsync`
shrinks them. One action per call of `clear_events_once`, in its order: `Sweep`
(per directory entry), `CommitDeletions`, `CreateMarker`, `WriteMarker`,
`SyncMarker`, `CommitMarker`. Failures, kills and power losses come between any two;
`MarkerFails` removes the marker, or fails to, which the code does not look at. The work
directory is taken to be the one the release is made for (`startup_cleanup.c:27`).
`complete` (a cleanup has made its marker and returned success), `kept` (events written
since) and `stuck` (a run was cut off, or could not remove the marker it had spoiled) are
history.

### DetectOverlay

The device publishes results with sequence numbers and may start again. The page is
single-threaded: a timer, an answer, a failure, a click are one step each, named as
in `main.js` (`poll`, `takeResult`, `complete`, `schedule`, `hideStaleBoxes`, ...).
Requests take time and may fail. `boxes` is what the page holds, `canvas` what is
drawn, `newest` history.

### AutoRecorder

Recorders with their asynchronous callbacks (`OnDataAvailable`, `OnStop`), the timers
that end a segment, the pending restart, and the button. All callbacks share the
page's `recorder` and `chunks`, whichever recorder they belong to. The user may click at
any moment. `overlaps`, `withData` and `uploads` are history since recording was last started
from rest, that is with no recorder at work and no restart due: how many clicks on start
came too early since, which segments handed out data, and what was uploaded until the first
such click.

### RectCanvas and ChannelPage

A point of the shape is named by where it came from (a channel's stored region, or the
user), not placed; which point the mouse hits is a choice. The page's parts of the form
are named by the channel they were loaded from, so "the form of another channel" is
visible. A switch is `ClickChannel` (stop the player, then wait) and `Resume` (load
capabilities, region, linkages; start the player); requests that are synchronous in the
code are part of these steps, and each may fail. Between the two any other click may
come. `failed` and `givenUp` are history.

### ArtDialog

`dialogs` holds what the library keeps: which box every id has, the spare box, which
boxes are in the document, their content, whether the mouse is over them, whether a
timer is set. Methods are operators from such a record to the next; `tip`, the mouse, a
timer and the preloading dialog are the actions. A timer fires at any later moment.

### SuperRender, PlayCtrl and AudioRenderer

`PlayCtrl` has two threads with a queue of messages each way. The worker handles one
message per step (`WorkerOpens`, `WorkerDecodes`, `WorkerCloses`), the page one message,
one call of `draw`, or one call of the user (`PlayM4_Play`, `PlayM4_InputData`,
`PlayM4_CloseStream`). The WebAssembly decoder is external: it takes pieces until it is
full and gives a picture for a piece of video. `SuperRender` names every sample by its
place in the frame, so that the cut of a frame that the decoder rounded up can be
compared with the picture. `AudioRenderer` has one action per method, and `Decoded`,
`DecodeError` and `SoundEnds` for the browser's callbacks; what is connected is heard.

### The parts of jQuery

* `Callbacks`: the step is what runs between two moments at which a callback has
  control; `callbackFrames` stacks the lists that are firing. Callbacks call every
  method of the list, or of the Deferred, themselves. `dueCalls`, `owed` and
  `settledWith` are history.
* `PageEvents`: `dom` has the nodes with their numbers (`expando`), the cache, the free
  numbers and the native listeners. `eventFrames` stacks the events being dispatched;
  handlers bind, unbind, trigger and remove elements. `audience` (who has still to
  hear an event) is history.
* `Ajax`: `done` is one operator, called by an answer, a timeout or an abort; handlers
  run from `ajaxFrames`, may send and abort, and may throw.
* `PageReady`: listener, `load`, timer and the releases of `holdReady` race for `ready`;
  the Deferred behind it is the promise of `Callbacks`.
* `Selectors`: a search sets up a tree, matches from right to left with the slots that
  the matchers leave on the nodes, and keeps compiled selectors. A matcher is a function
  from an element and the slots to an answer and the slots as it leaves them; a group's
  matchers are a recursive function of its length, as `matcherFromTokens` builds them.
  `FindsExactly` compares the result with a definition of what the selector means.
* `Effects`: queues with their "inprogress" sentinel, the list of timers and its
  interval, `stop`, `finish`, complete handlers. `fxCalls` stacks the library's calls
  under way: a complete handler has control in the midst of the loops of `tick`, `stop`
  and `finish`, and may call any method of any element there; the loops go on afterwards
  with the places they remember.
* `Fades`: display and opacity of one element with what `hide` remembers and what a
  stopped fade leaves in between.

## 3. The runs

| Run | Module | What it shows |
|---|---|---|
| `ring` | `MCPacketRing` | contents, byte accounting and parameter sets are exact (`RingIsExact`), no early eviction, complete snapshots; expired packets leave without pushes |
| `units` | `MCUnits` | queue: wakeups, refinement of `Channel`, liveness; confirmation: refinement of `SlidingConfirm`; cleanup: one shot, only a torn marker blocks the start, and what leaves one is known; main: nothing is used after its end, a stop ends it |
| `pipeline` | `MCEvidence` | pipeline: events stay whole, pending jobs own their files, older files are untouched, under every kind of fault; archive: nothing is lost, directories are exclusive, files whole |
| `pipeline_live` | `MCEventPipeline` | evidence is somewhere; a stop ends the process; an accepted event is settled |
| `pipeline_delete` | `MCEventPipeline` | violated: the comment of `app.conf:23` |
| `clip` | `MCClipWindow` | the seam, completeness under the capacity rule, the first key frame; the wait ends |
| `clip_align` | `MCClipWindow` | violated: the key-frame fallback of `README.md:67` |
| `session` | `MCRtspSession` | intact units arrive, damage is contained, sessions do not mix and end clean; stop and reconnect |
| `widgets` | `MCWidgets` | overlay: one chain of polls, nothing older over newer, gone and stale boxes leave; recorder: whatever is clicked, callbacks never multiply the chains and recording goes on; while no start comes too early each segment is uploaded once and alone, and what is switched off ends; dialogs: a box each, prompts leave; player: never frozen, cut exactly, nothing after a close; sound: as loud as set; ready blocks: each runs once, in time |
| `page` | `MCChannelPage` | clicks and drawings at any moment, saves from a page at rest: unless a request failed or a switch was given up, what is saved belongs to the channel selected and to shapes the device takes; a user who waits gets the channel selected |
| `page_race` | `MCChannelPage` | violated: the comment of `main.js:132` |
| `library` | `MCLibrary` | callbacks, events, requests and selectors each do what they promise although they are called back into; queues of animations go on and every end is heard of once, whatever complete handlers do; a fade leaves the element as asked |

Several properties are conjunctions of named parts (`RingIsExact`, `EventsStayWhole`,
`UnitsArrive`, `SessionIsLive`, `PollsInTime`, `CallbacksInOrder`, ...); the parts are
defined and explained next to each other in the module.

`CHECK_DEADLOCK FALSE` appears where the behaviour really ends: a bound of the model is
reached, the clip is written, or the process has exited.

### Bounds, and why they are enough

* Ring: 2 slots, 3 bytes, packets of 1, 2 and 4 (too large) bytes, 3 pushes, 2 ticks
  with a window of 1. The tail wraps and the head moves past the end; one push may have
  to evict two packets; all three limits act, alone and together. Sets of both codecs
  come, one of them too large to be saved.
* Confirmation: M = 5, N = 3, an array of 6, three classes of which one is outside the
  histogram. The state space is finite, so the run is not bounded in length.
* Queue: capacity 2, two blocking and one non-blocking producer, two consumers, more than
  the application has, so that a signal can reach the wrong thread; two pushes of each.
* Cleanup: two old files, one directory, two new events, three faults of any kind, any
  number of starts. Three allow an interrupted marker, its loss, and one more.
* Main: every build, queues of one, one alarm of a detector thread. One alarm at a time
  is enough to meet every step of the destruction.
* `pipeline`: queues of one job and three events with one time stamp, so that every name
  collides, also with files of an earlier run; one attempt per upload, every fault.
  `pipeline_live`: three stamps, two attempts ("stored, answer lost, sent again"), a
  failing network, a card that works. The two runs split what one instance cannot hold:
  with colliding names the code really gives events up, which is settled but not
  delivered.
* Archive: two events and two names, so that a name can come back; any number of failing
  calls and power losses.
* Clip: one tick each for pre, post, grace, latency and margin, a ring of 4 ticks that
  just obeys the capacity rule, two packets with or without key frame, one clock step
  either way. Two packets are enough for the seam (one before, one at or after it), for a
  key frame cut off the front, and for a packet too late at the end.
* Session: three units of up to three fragments, so that a middle fragment exists and a
  damaged unit is followed by a sound one; loss and memory faults; any number of sessions.
* Overlay: poll 1, stale 3, a request of up to 2, three results in each of two runs of the
  device. A request can outlast results and a restart.
* Recorder: four segments, a click at any moment. That is a restart that comes after a stop
  and a start, the timer of the recorder left behind, which cuts the next segment short, and
  one more; or two recordings of two segments. Dialogs: two boxes (there are two dialogs; a third box would
  mean a leak, and the proof covers it), five prompts of two kinds.
* Player: four pieces in batches of two, room for two inputs and three pieces in the
  decoder, two frames of which the second makes the buffer drop: every queue gets full
  while another is empty. Three sizes of frames, one of them larger than the picture both
  ways. Sound: two windows, two pieces, a volume of zero (which JavaScript takes for
  false) beside the default. Ready blocks: three, and two holds.
* Page: two channels with limits 2..3 and 2..2, one with a stored region, four clicks,
  every request and the stream may fail. Four clicks reach a switch, another within its
  wait, a point and a save.
* Library: lists of two callbacks and five calls, all options; five bindings on three
  nodes, one event of the browser and four calls, nested events (`trigger`) among them; two requests; all trees of four
  elements with two taggings, eleven selectors that have every combinator, two groups or
  a leading combinator, two finds with a cache of two.
  Re-entrance to depth two, a number used twice and a slot left by another search all
  happen.
* Effects: three animations or delays on two elements, three calls of stop, finish and
  clearQueue. One runs, one ends and calls, one waits; a stop from a handler that a stop
  has called takes the wrong timer or reaches beyond the last. Fades: four, so that a fade
  is stopped, taken over from, stopped again and followed.

What the proofs cover does not depend on these bounds.

### Fairness

* Ring: time passes; whoever holds the mutex releases it, because no operation blocks
  while holding it; the main thread, whose loop prunes every 500 ms, gets the mutex if it
  is free again and again (strong fairness: a POSIX mutex makes no promise about order,
  but the holders give it up for most of the time). The RTSP thread is *not* assumed to
  push.
* Queue: a thread that runs in push or pop goes on, and a consumer calls pop again.
  Nothing is assumed about spurious wakeups, producers or close.
* Main: `main` goes on, some thread that can go on does, and a detector thread leaves
  `event_queue_push`. No signal, alarm or failure is assumed.
* Cleanup: whoever starts the package starts it again, and `main` goes on.
* Pipeline: clip and upload thread and, once asked to stop, the main thread go on. `recv`
  gives up after five seconds (`uploader.c:143`). `send` has no timeout: a server that
  accepts a connection and then neither reads nor goes away would hold the upload thread,
  and with it a stop. The liveness of the pipeline assumes that it does not.
* Clip: time passes and the clip thread runs; the wall clock may be set back, but finitely
  often.
* Session: the thread runs and no call blocks for ever (`SO_RCVTIMEO` of a second).
  Nothing is assumed of the camera; `StreamComesBack` has its return as a premise.
* Overlay: the browser runs what is due, time passes, a request ends sooner or later, well
  or not. Recorder: timers and callbacks come. Dialogs: timers fire and the images load.
  Page: timers, sockets and answers come (`Startup`, `Player`). Ready: the document goes
  on, the body and the timers come, holds are released. Of the user's clicks nothing is
  assumed anywhere. The properties of player, sound and the other parts of jQuery are
  safety properties and need no fairness.

## 4. What is proved

All proofs are for every value of the constants that satisfies the named assumption of
the module, and for unbounded behaviours; the bounds of section 3 are constants like the
others there. The assumptions (`RingAssumption`, `ConfirmAssumption`, `QueueAssumption`,
`PipelineAssumption`, `ArchiveAssumption`, `CleanupAssumption`, `LifecycleAssumption`,
`ClipAssumption`, `DepacketizerAssumption`, `DialogAssumption`, `RecorderAssumption`,
`AudioAssumption`, `OverlayAssumption`, `CanvasAssumption`, `PageAssumption`,
`PlayerAssumption`, `AjaxAssumption`, `CallbacksAssumption`, `EventsAssumption`,
`DocumentAssumption`, `SelectorAssumption`, `CacheAssumption`) give the
constants their types (of a box in the page, that it has finitely many elements) and say
what `config.c` clamps. Four say more: `PlayerAssumption` has frames of even size,
because I420 keeps half of each of U and V; `PageAssumption` has devices that store no
region or one of a size they take; `CallbacksAssumption` has that the three callbacks a
Deferred adds itself, which are private to it, are none of the page's;
`SelectorAssumption` has that a group of a selector ends with a tag, as in CSS. Every
module that states an assumption is part of a run, so TLC evaluates all of them.

| Module | About | Inductive invariant |
|---|---|---|
| `UploadProofs` | queue | `IInv`, for wakeups `WakeInv` |
| | archive | `ArchiveInv` = types, `Owned`, `Progress`, `Tidy`, `NothingIsLost`, `ArchivedWhole` |
| `DaemonProofs` | confirmation, refinement of `SlidingConfirm` | `IInv` |
| | cleanup | `Swept`, `Settled` |
| | start and stop | `LifeInv` = types, `ReadyAsPlanned`, `ThreadsAsPlanned`, `AlertsRefused`, not `stray` |
| | session and depacketizer | `SessionInv` = types, `SendingIs`, `BufferIs`, `RingIs`, `IntactUnitsArrive`, `SessionsEndClean` |
| `PacketRingProofs` | ring | `Ring`, `RoomMade`, `Locked`, `Ordered` and what is built on them |
| `EventPipelineProofs` | pipeline | `PipelineInv` = types, `Tokens`, `Files`, `Kept`, `ServerGetsWholeEvents` |
| `ClipWindowProofs` | clip | `ClipInv` = types, `InStep`, `ClipHolds`, `NothingMissed` |
| `PageProofs` | dialogs, recorder, sound | `DialogInv`, `RecorderInv`, `AudioInv` |
| | overlay | `OverlayInv` = types, `OnePoll`, `ConfirmedInTime`, `NewsInOrder` |
| | player | `PlayInv` = types, `OpenedOnce`, `NeverFrozen`, `RefusalFails`, `NothingAfterClose`, `FramesAreDrawn` |
| `ViewProofs` | channels, form, region | `FormInv` = `DeviceIsRight`, `ShapeIsRight`, `SwitchIsRight`, unless a request failed |
| | fades | `FadesInv` = types, `BetweenFades`, `OnItsWay` |
| | selectors | `SelectorsInv` = a document is a tree, `SlotsBefore`, the cache's type, `LastFits` |
| | queues, animations, stops | `EffectsInv` = types, `StackIs`, `ListsAre`, `TimersAre`, `DelaysAre`, `CompletesOnce`; not `nested`: `LoopsAre`, `Moves`, `Taken` |
| `LibraryProofs` | requests | `AjaxInv` = types, `DoneOnce`, `EndIsRight` of each request, `ActiveIsExact` |
| | ready blocks | `ReadyInv` = types, `WaitIsExact`, `BlocksOnce` |
| | lists of callbacks, Deferred | `CallbacksInv` = `ListsOf`, `FramesOf`, `DeferredOf` |
| | events and their data | `EventsInv` = types, `EntriesOf`, `HandlersOf`, `ListenersOf`, `StillHeard` of each event |

**Queues.** `Invariance` proves `IInv`: types, "a producer inside push has counted the
call", `tail = (head + count) % Capacity`, and `NothingLostOrReordered`. The last is not
inductive alone: without the equation for `tail` a push could write into an occupied slot.
From it follow `FirstInFirstOut` and, reading the array as a sequence, `Refinement`: the
mutex-and-condition queue implements `Channel`. `Draining` adds that a consumer that has
left found the queue closed and empty. `Wakeups` is the delicate one. `NoLostWakeup` is
not inductive: after one of two sleepers is woken and has pushed, nobody would be left to
justify. The strengthening `RoomIsClaimed` counts: while a producer sleeps, there are at
least as many producers running in push as there are free slots, since each pop frees one
slot and wakes one sleeper. It needs a finite set of producers and at least one consumer.

**Confirmation.** `IInv` joins `IndicesInStep` (until the window is full, the next place
comes right after the samples that count), `BelowThreshold` and `HitsAreRecent` (no sample
that counts is older than the last confirmation). The core is the lemma `OneFrame`: a
frame replaces at most one sample, so it adds at most one hit. From these, `AlarmNeedsHit`
and `AlarmSpacing`.

`SlidingRefinement` proves that the circular array implements the sliding window of
`SlidingConfirm`. `Place` maps a position of the window to a place of the array; it is a
bijection between the two (`OnePlaceEach`), under which an overwritten sample is the oldest
(`NewWindow`) and hits and votes are counted alike (`SameVotes`). That needs `IndicesInStep`
in two places: while the window fills, and when the array is full and `next` wraps.

**Ring.** `Ring` relates every slot, free or taken, and the byte counter to the history;
`RoomMade` says that when the slot limit has made room, the packet in hand fits. That gives
types, `HoldsSuffix`, `BytesAccounted` (so the unsigned subtraction never wraps) and
`NoSlotLeaks`. `Locked` (mutual exclusion) and `Ordered` (the log is ordered by time
although the clock is read outside the mutex, because only one thread stores) give
`PruningIsComplete`. On top of those, `EvictsNoMoreThanNeeded` needs the pending form of
the property while a push is making room, `SnapshotsAreComplete` that what left had expired
also by the clock of whoever prunes now, and `ParametersSurvive`. `RingStaysExact` joins
contents, bytes and parameter sets.

**Pipeline.** `PipelineInv` follows two things. `Tokens` says who holds which event: each
that was accepted is in exactly one of queue, clip thread, queue of jobs, upload thread, and
its outcome (`fate`) tells which. `Files` says whose each file is: what the clip thread has
made at each of its labels, that a job which waits or is tried owns both its files, that an
event makes one video at most, and that a video nobody works on is an old one, could not be
deleted, or lies beside its own metadata (`Paired`). The hard case is a name used again
within a millisecond: `O_EXCL` on the video refuses it, and the metadata can be written over
only under a name whose video is one's own. `Kept` is where the evidence is by the outcome
of an event. From these follow `EventsStayWhole`, `EvidenceIsSomewhere` and, as an action
property, `OldFilesAreKept`.

**Archive.** `Owned` says whose each directory is: one that was made is of one event at
most, and the event in hand has none but the one in hand; `mkdirat` is the only step that
changes it. `Progress` says what of the copies has reached the card for good when the code is
at each of its calls, unless one has failed, and that the local files are whole until then;
so a power loss at any point leaves one of the two. `Tidy` keeps the visible copies whole.
`ArchiveIsSound` follows, with any number of losses and failing calls.

**Start and stop.** `Plan` is data, so the proof first computes its 18 lines (`PlanLines`).
Then what is initialised and who runs are functions of the place in the plan
(`ReadyAsPlanned`, `ThreadsAsPlanned`), for every build and whichever call fails. That
leaves the detector's late alarms: `AlertsRefused` says that from the close on an alarm
finds the queue closed, and when `memset` has reached that flag, a capacity of 0 or a count
that leaves no event to overwrite. `NothingUsedAfterItsEndHolds` is that no step uses what
is no longer there.

**Clip.** `InStep`: while nobody sets the clock, packets are stamped and stored in order.
`ClipHolds`: packets of the first snapshot end where `lastRecv` says, those of the second
begin behind it. `NothingMissed`: what left the ring had expired, so, under the rule of
`README.md:72` (`CapacityRule`), the first snapshot misses nothing stored before it, and the
second nothing but what was stored too late to wait for. From these `ClipIsRight`: once
each, in order, complete, and beginning with a key frame when there is one. A stepped clock
is not excluded; what is said about order and completeness has `steps = 0` as its premise.

**Session.** `BufferIs`: the fragment buffer holds pieces of one session behind one header,
and either the unit being sent as far as it was sent, or a unit that is hurt. What it
excludes is the join: a first fragment that is lost leaves the rest of the old unit in the
buffer, which stays marked as hurt. `UnitsArrive` follows with `RingIs`, for units and
fragments of any number.

**Cleanup.** `Swept` follows the old files through the stages: all of them still to be seen
while sweeping, gone from the disk from `CommitDeletions` on, and gone whenever a whole
marker exists or may survive a power loss. It gives `MarkerTellsTheTruth` and
`StartsClean`. `Settled` says that once a cleanup has succeeded the marker is whole on disk
and can only stay so, since a later start neither sweeps nor touches it; hence `OneShot`.
`CleanedOnce` joins the two. None needs a bound on the faults.

**Dialogs.** `BoxesStayApart`: the invariant says of the library's record that the two
dialogs and the spare box are three different boxes and that the document holds exactly
these (`Apart`), and that the prompt shows what was said last (`Shows`). Both are lemmas
about the methods (`CloseApart`, `OpenApart`: closing, also when it refuses, and opening
keep boxes apart and leave the other dialog alone), so every action is a composition of
them.

**Recorder.** `OneByOne`, whatever the user clicks. `ChainsAreCounted` is inductive with the
types: a restart takes the place of a recorder that has stopped, and only a click adds one,
which is counted unless everything was at rest. The rest of `RecordsInTurn` is claimed from
a start at rest on, until a start comes too early: only the recorder made last works, its
timer is the only one, and a pending restart means that it has stopped (`OnlyTheLast`); the
shared `chunks` are its own, and the others' are uploaded (`OwnChunks`). What makes a start
at rest as good as the first is `TimersAreOwn`: a timer is left only while its recorder
records, or there is a recorder that nobody will stop any more, and then it is never at rest
again. Without it an old timer could cut the new segments short.

**Sound.** `SoundsAreHeard`: the gain node in use is connected, and the volume in use is
that of the window in front. The second conjunct is the one that `SetWndNum` must restore.

**Overlay.** `OnePoll`: one timer or one request, never both, and a page that unloads starts
nothing new. `ConfirmedInTime` bounds the age of what is drawn by the time of the poll that
will look at it, and gives `PollsInTime` for every period, staleness limit and settling
time. `NewsInOrder` orders five results, those on the device, under way, held, drawn and
seen last, by the device's run and number; `NeverGoesBack` is an action property of it.

**Player.** `NeverFrozen` is inductive with two facts about the messages: the worker is told
first, and once, to open the stream, and nothing is posted to the page before that
(`OpenedOnce`); a decoder that says it is full has refused a piece (`RefusalFails`). Each of
its three ways to go on (the next piece will be handed out when it comes, data are on their
way to the worker, a picture or a call for more is on its way back) is kept or replaced by
another in every step.
`PictureIsRight` is arithmetic: `YIsCut`, `ChromaIsCut` and `PictureIsCut` show that the
three loops of `SR_DisplayFrameData`, which walk source and target with strides of their
own, copy the sample of the same row and column, for every size of frame and picture.

**Form.** `FormIsSoundHolds`, for users who wait (`Patient`). `SwitchIsRight` says whose the
form is at each stage of a switch: the selected channel's, or nobody's while its switch
waits for the stream to stop; the limits are those of the selected channel from the start.
`ShapeIsRight` counts the points while a shape is drawn, loaded, stretched and cleared: one
that is not being drawn has none or enough. `DeviceIsRight` is that what is stored is each
channel's own; a save keeps it because of the other two. All of it with the exception
that the property has: a request that failed, or a switch that was given up.

**Requests.** `RequestsEndRight` is a property of a request's whole life, and handlers may
send, abort and throw while another request's are being called. `DoneOnce` says that a
request is in one `done` at most, so that the handlers it still has to hear are in one
place. `EndIsRight` puts what was heard and what is still to be heard together: one of
success and error, and then complete (`EndsAs`), with text of the type asked for, cut short
only by a handler that threw. `jQuery.active` is the number of those that run and of those
whose end was cut short or is under way.

**Ready blocks.** `WaitIsExact`: `jQuery.readyWait` is the number of holds not released, and
one more while the document is awaited, and nobody calls `jQuery.ready` before the document
is parsed; hence `WaitsForHolds`. `BlocksOnce`: a block waits, is due or has run. That every
block does run is liveness, and stays with the run.

**Callbacks.** `CallbacksInOrder` holds whatever the callbacks do to the lists that are
firing. `ListsOf` says, with `RoundIs`, that what is due of a round is what stands in its
list from the loop's place on, and that the loop's end is the list's; `FramesOf`, that the
stack holds the lists that are firing, each once, all but the innermost in the middle of a
callback. `DeferredOf` says what is still owed, counted as often as it was added: all of
both lists before the Deferred is settled, and then what is due of the list of its outcome,
while the other list does not fire. It distinguishes `Quiet` from `Opens`, the moments in
which the Deferred's own three callbacks (set the state, disable the other list, lock) run
and nobody else has control. A removal under a running loop moves its place and
its end back; that it moves them by what it takes away is a fact about `Without`, a
recursive function. Such facts are proved by induction over the length of the list: the
library's induction theorems take a predicate, which the provers cannot instantiate, so
the module states induction with sets of numbers (`NatSets`) and of lists (`ListSets`)
instead. A list that one of its callbacks empties is excepted, as in the property.

**Events.** `EventsAreHeard` holds for any elements, and handlers that bind, unbind, trigger
and remove while events are under way. `EntriesOf`: the numbers below `guid` are those that
nodes carry and those in `deletedIds`, each once and not both, so a number that is used
again is nobody's; that there is a number left for a node without one is counting
(`NumberLeft`). `HandlersOf`: in a list the delegates come first and `delegateCount` counts
them, which is what `add` inserts by and `handlers` cuts by; and a binding is in one list,
so what is bound still has not moved. `ListenersOf` ties the native listener to the list:
`remove`, `cleanData` and the end of an entry take it away with the last handler and not
before. `StillHeard` is about an event that nobody stopped: whoever it owes a call is in
the queue of the node it is at, or bound to a node still to be visited. The rest are the
lemmas about each function of the cache (`AddFacts`, `RemoveFacts`, `CleanDataFacts`,
`RemoveElementsFacts`): which handlers it keeps, that it adds no other, that it leaves the
three parts as they should be. Handlers return, with or without `false`: one that throws,
after which the rest of its node's handlers are not called, is not modelled.

**Fades.** `FadesEndAsAsked` looks at an element when its fade ends; the invariant has to
say what a fade that was stopped leaves for all that come after it. `BetweenFades`: the
display the element is shown with can be found again, in its style or in what `hide`
remembered (`OwnIsKnown`), and its opacity is whole unless the data left behind say so
(`LeftBehind`). `OnItsWay`: a fade under way has such data, hides the element if it was
asked to, and else has shown it already. Methods are functions of one record, so their lemmas
(`ShowHideDoes`, `PrefilterDoes`, `DequeueFadeDoes`, `ResolveFadeDoes`) compose; that a
queue of fades has a first one that does anything is the least element of a set of places.

**Effects.** `EffectsEnd` holds between the calls; what is inductive is about the stack of
calls under way. `StackIs`: a call ends only what has been started; a loop that waits for an
end waits for one that has been, unless it is the next to be; only one interval runs, at
the bottom; and what two calls of `finish` play is in no queue and not in both
(`ListsAre`, `Apart`), which is why an animation is started once. `Moves`: whatever runs is
in the timers, or its end is the next call. `Taken`: of every queue that is not empty some
item runs that will take the next, or a call on the stack will. `LoopsAre` ties a loop of
`stop` to its place: the timer it has ended is still there when it takes it out. That is
what a stop from a handler that a stop has called breaks (`nested`), and `Moves` and
`Taken` with it, so the three are claimed before that only; `CompletesOnce` does not depend
on them. Every step replaces the innermost call by others (`After`), and lemmas about that
(`StackKept`, `QuietStack`, `TakenKept`, `MovesKept`) leave each action what it changes.

**Selectors.** `FindsExactlyHolds`, for every document, selector, order of searches and moves
of elements. The invariant is short: `SlotsBefore` says that no slot is of a search to
come, and `LastFits` that what was found last is what is meant in the document as it is.
The proof is in what one search does. Each matcher keeps a contract (`AddsCombinator`,
`MatcherDoes`): it answers whether the element is one that is meant, and leaves the slots
of this search right, where "pending" may stand only in those of combinators further to
the right, whose walks are still under way. A walk keeps that its own pending slots are
those on its way (`Walks`, `Passed`), so that settling them with the answer at its end
settles just these. A search has a number of its own, so by `SlotsBefore` no slot is
of it when it begins; without that, the answer of an earlier one would be taken, which is
what `Search_SameRun` breaks. The compiled cache never drops what was just put in, for it has room
for one (`compileDoes`, from `CacheAssumption`); a seed stands for the whole selector
(`FrontSame`, `FromSeed`), and the elements tried otherwise are all that can be meant
(`MeantWithin`, `TryingAll`). That matchers, walks and meanings exist as functions is proved by induction with
sets, as for the lists above. What is meant depends only on the document and the
equations that define it (`MeantSame`), so it is the same after a search and before. The
exception for XML, several groups of which one has siblings, is the property's.

Some invariants are proved and in no run of their own: the type invariants,
`NothingLostOrReordered`, `DrainsBeforeQuitting`, `BelowThreshold`, `AlarmOnNthHit`,
`AlarmsAreSpaced`, `FreeSlotsOwnNothing`, `PruneLeavesNothingExpired` and
`RunsOnlyWhenClean`.

### Only model-checked

Liveness, since the prover has no rules for fairness: `PipelineIsLive`, `QueueIsLive`,
`ExpiredLeaves`, `SessionIsLive`, `StopEndsMain`, `GoneTargetsLeave` and the like; also
`ClipIsFinished`. The findings of section 5 are runs. Every safety invariant of a passing
run is stated by a theorem. The definitions `TypeOK` of modules without proofs document
the types of their variables.

## 5. Disagreements and weaknesses

Three statements of documentation or comments do not hold, each shown by a run:

* `app.conf:23` says "Delete local video and JSON only after confirmed HTTP success."
  (`README.md:83` says the same in Chinese). `pipeline_delete` shows the code deleting both
  files of an event the server never confirmed: after the last failed attempt
  `failed_archive_and_remove` removes the local files whether or not the copy to the card
  succeeded, and without a card no copy is left anywhere.
* `README.md:67` says the start of a clip may fall back to an earlier key frame.
  `clip_align` shows that it cannot: `append_range` has cut the packets before the wanted
  start off before `align_to_keyframe` looks, so the clip starts up to a key frame interval
  late although the ring holds the earlier key frame.
* `main.js:126` and `:132` say that the first channel is selected by default and its data
  fetched. `page_race` shows that when the list of channels arrives while the live view is
  still opening, `JS_Stop(0)` rejects, and `getParam` ends there: the button shows the
  channel as selected, the form stays empty.

Weaknesses that the models show when a constant or a premise is changed, or where a
property has to make an exception:

* `FailedArchive`: any failing call, also a name that is there already after a restart with
  a clock set back, ends in the removal of the local files although the card works
  (`failing`). A copy whose removal fails stays on the card half written (`torn`).
* `Lifecycle`: an alarm during the destruction of the event queue is refused only because
  `memset` reaches `closed` after `capacity`, and a cleared queue looks full; with another
  order of fields it would write through a freed array (`DestroySteps_ClosedFirst`). That a
  failing `pthread_create` leaves the thread id 0 is assumed; POSIX does not promise it.
* `StartupCleanup`: a start that finds a whole marker trusts it without an `fsync`
  (`startup_cleanup.c:34`). When a run was killed between writing the marker and syncing
  its directory, the marker may still be lost, and the sweep run again over new events. A
  torn marker is refused at every later start. It takes no kill or power loss: a failing
  write or `fsync` of the marker and then a failing `unlinkat`, whose result is ignored
  (`startup_cleanup.c:80`), leave one too.
* `DetectOverlay`: staleness is looked at only when a poll starts, and no poll starts while
  a request hangs (`main.js:1070`); stale boxes stay for as long as it does. A device that
  starts again may repeat the number seen last, which the page takes for no news.
* `AutoRecorder`: the restart 300 ms after a segment (`main.js:1341`) is neither remembered
  nor cancelled. A click on stop in that gap does not prevent one more segment, which is
  recorded and uploaded with the button off, until its timer. A click on start in the gap,
  or before the last recorder has said that it stopped, makes one chain more (`overlaps`):
  then there are two recorders of which the page knows one. The other is never stopped, its
  timer cuts the next segments short, and both fill `chunks`. `RecordsInTurn` says that
  there are no more chains than that, and everything else while there is one.
* `ChannelPage`: a save while a switch is under way, or in the middle of a drawing, writes
  whatever the form holds then; the runs have a user who waits before a save
  (`Patient = TRUE`), while other clicks may come at any moment. After one failed request
  the page is half switched, and a save writes just
  that; `FormIsSound` has `failed` and `givenUp` as exceptions.
* `Callbacks`: a list that a callback empties keeps the loop's place; what is added then may
  be skipped. `Selectors`: in XML, elements outside the context are found for several groups
  with siblings. `Ajax`: a handler that throws keeps `complete` from being called and
  `jQuery.active` counted. `Fades`: a fade that takes over from a stopped toggle goes the
  toggle's way. `Effects`: `stop` takes `timers[index]` out after the handlers have run
  without looking whether it is still the one (`jquery-1.11.1.js:7512`). When one of them
  has stopped another animation, it takes out the timer of a third, which then never ends
  and whose queue stands still, or reads beyond the end and throws.

## 6. Not modelled

* Configuration parsing and formatting (JSON, file names, HTTP and RTSP headers,
  authentication): they keep no state that a property here could be about.
* The vendor's demo in `vendor/`: only its calls into the application matter.
* `ring_get_param_sets` (it only reads), `ring_destroy`, the ring's discard mode, the
  resynchronisation of the RTSP byte stream after a stray byte, RTP sequence numbers (which
  the code does not look at either), `camera_abnormal_on_human_alarm` (no caller). Jobs left
  in the upload queue at a stop stay on disk; no later run looks for them.
* Of the page: `excanvas.js` (VML drawing in Internet Explorer before 9, where the page's
  async functions do not parse) and `jquery.cookie.js` (formats one string); layout, lock,
  buttons and dragging of dialogs, which the page does not use; pausing, seeking, capture,
  files and encryption of the player; the WebAssembly decoder; the user's own changes to
  check boxes; the pixels drawn.
* Of jQuery: css, attributes, dimensions and offsets, cloning and parsing of HTML, parsing
  of selectors, JSONP, serialization, and the workarounds for old browsers. They are pure
  functions or read and write the browser's own state at once.

## 7. What is left

1. `ring_get_param_sets` in `ClipWindow`, with a stream that changes codec: today sets of
   H.264 and H.265 share one slot and are labelled with the codec asked for.
2. A clock set back between the two snapshots of a clip, for which no document promises
   anything yet.
3. A page whose user does not wait before a save (`Patient = FALSE`), once the code
   remembers the pending switch of the channel; and `EachIsUploaded` of every recording,
   once it remembers the pending restart of the recorder.
