------------------------------ MODULE Lifecycle ------------------------------
(***************************************************************************)
(* How the program starts and stops (src/src/main.c): the ring and the     *)
(* queues of the modules that are built in are initialised, the threads    *)
(* started, and at a stop the queues closed, the threads joined and        *)
(* everything destroyed again. Any step of the start may fail, and the     *)
(* stop may come before the start is over.                                 *)
(*                                                                         *)
(* Of a thread, only what it waits for is modelled. The detector's threads *)
(* are started by the infer thread and are never joined: they may publish  *)
(* into the event queue until the process is gone, also while main         *)
(* destroys it. A pthread_create that fails leaves the thread id 0.        *)
(***************************************************************************)
EXTENDS Naturals, Sequences, FiniteSets

CONSTANTS
  MaxEvents,    (* max_events of the configuration: length of both queues   *)
  MaxAlarms     (* bound: alarms of the detector                            *)

ASSUME LifecycleAssumption == MaxEvents \in Nat \ {0} /\ MaxAlarms \in Nat

(* module_flags.h: what may be built in.                                    *)
Builds == {b \in SUBSET {"infer", "ring", "clip", "upload"} :
             ("clip" \in b => "ring" \in b) /\ ("upload" \in b => "clip" \in b)}

ThreadsOf == [rtsp |-> {"ring"}, infer |-> {"infer", "clip"}, clip |-> {"clip"},
              upload |-> {"upload"}]
ResourceOf == [ring |-> "ring", clip |-> "events", upload |-> "jobs"]

(* What main does, in order, with what.                                     *)
Plan == << <<"init", "ring">>, <<"init", "clip">>, <<"init", "upload">>,
           <<"create", "rtsp">>, <<"create", "infer">>, <<"create", "clip">>,
           <<"create", "upload">>, <<"loop", "">>, <<"close", "events">>, <<"close", "jobs">>,
           <<"join", "infer">>, <<"join", "clip">>, <<"join", "upload">>, <<"join", "rtsp">>,
           <<"destroy", "jobs">>, <<"destroy", "events">>, <<"destroy", "ring">>,
           <<"exited", "">> >>
PlaceOf(what) ==
  CHOOSE i \in DOMAIN Plan : Plan[i][1] = what /\ \A k \in 1 .. i - 1 : Plan[k][1] # what

VARIABLES
  build,        (* what is built in                                         *)
  at,           (* main: its place in Plan                                  *)
  g_running,
  ready,        (* what is initialised and not destroyed                    *)
  thread,       (* "none", "starts", "works", in a queue "pops" or          *)
                (* "pushes", "over"                                         *)
  queue,        (* fields of the two queues                                 *)
  freed,        (* steps that event_queue_destroy has made                  *)
  alert,        (* a detector thread in event_queue_push, and what it read  *)
  alarms,       (* alarms so far                                            *)
  stray         (* history: whether an event was stored where no array is   *)

lifeVars == <<build, at, g_running, ready, thread, queue, freed, alert, alarms, stray>>
detectorVars == <<alert, alarms, stray>>

EmptyQueue == [items |-> TRUE, capacity |-> MaxEvents, count |-> 0, closed |-> FALSE]
NoQueue == [items |-> FALSE, capacity |-> 0, count |-> 0, closed |-> FALSE]
NoAlert == [at |-> "idle", count |-> 0]

Living == {t \in DOMAIN thread : thread[t] \notin {"none", "over"}}
Uses == [rtsp   |-> {"ring"},
         infer  |-> {r \in {"events"} : "clip" \in build},
         clip   |-> {"ring", "events"} \cup {r \in {"jobs"} : "upload" \in build},
         upload |-> {"jobs"}]

(* Before the close, who is in event_queue_push holds the mutex.            *)
MutexFree == alert = NoAlert

-----------------------------------------------------------------------------
(* main.                                                                    *)

Doing == Plan[at][1]
With == Plan[at][2]
MainGoes == at' = at + 1
MainJumps(what) == at' = PlaceOf(what)

InitResource ==
  /\ Doing = "init"
  /\ \/ /\ With \in build /\ MainGoes /\ ready' = ready \cup {ResourceOf[With]}
        /\ queue' = [r \in DOMAIN queue |-> IF r = ResourceOf[With] THEN EmptyQueue ELSE queue[r]]
     \/ With \notin build /\ MainGoes /\ UNCHANGED <<ready, queue>>
     \/ With \in build /\ MainJumps("destroy") /\ UNCHANGED <<ready, queue>>
  /\ UNCHANGED <<build, g_running, thread, freed, detectorVars>>

CreateThread ==
  /\ Doing = "create" /\ MainGoes
  /\ thread' = [thread EXCEPT ![With] = IF ThreadsOf[With] \cap build # {} THEN "starts" ELSE "none"]
  /\ UNCHANGED <<build, g_running, ready, queue, freed, detectorVars>>

(* Variant: main gives up at once.                                          *)
CreateFails_GivesUp ==
  /\ Doing = "create" /\ ThreadsOf[With] \cap build # {}
  /\ g_running' = FALSE /\ MainJumps("destroy")
  /\ UNCHANGED <<build, ready, thread, queue, freed, detectorVars>>

(* The threads after the one that fails are not created.                    *)
CreateFails ==
  /\ Doing = "create" /\ ThreadsOf[With] \cap build # {}
  /\ g_running' = FALSE /\ MainJumps("loop")
  /\ UNCHANGED <<build, ready, thread, queue, freed, detectorVars>>

StopSignal ==
  /\ g_running /\ g_running' = FALSE
  /\ UNCHANGED <<build, at, ready, thread, queue, freed, detectorVars>>

LoopEnds ==
  /\ Doing = "loop" /\ ~ g_running /\ MainGoes
  /\ UNCHANGED <<build, g_running, ready, thread, queue, freed, detectorVars>>

(* Variant: the queue of jobs stays open.                                   *)
CloseQueue_EventsOnly ==
  /\ Doing = "close" /\ MainGoes /\ (With = "events" => MutexFree)
  /\ queue' = [queue EXCEPT !["events"].closed = "events" \in ready]
  /\ UNCHANGED <<build, g_running, ready, thread, freed, detectorVars>>

CloseQueueOf ==
  /\ Doing = "close" /\ MainGoes /\ (With = "events" => MutexFree)
  /\ queue' = [queue EXCEPT ![With].closed = With \in ready]
  /\ UNCHANGED <<build, g_running, ready, thread, freed, detectorVars>>

JoinThread ==
  /\ Doing = "join" /\ With \notin Living /\ MainGoes
  /\ UNCHANGED <<build, g_running, ready, thread, queue, freed, detectorVars>>

(* Variant: closed is the first field that is cleared.                      *)
DestroySteps_ClosedFirst == <<"items", "closed", "capacity", "count">>
(* The array is freed, then memset clears the fields, taken to go from the  *)
(* first to the last. The mutex is destroyed in between and stops nobody.   *)
DestroySteps == <<"items", "capacity", "count", "closed">>

(* event_queue_destroy, step by step because of the detector.               *)
DestroyEvents ==
  /\ Doing = "destroy" /\ With = "events" /\ "events" \in ready /\ freed < Len(DestroySteps)
  /\ LET field == DestroySteps[freed + 1]
     IN  queue' = [queue EXCEPT !["events"] =
                     [x \in DOMAIN @ |-> IF x = field THEN NoQueue[x] ELSE @[x]]]
  /\ freed' = freed + 1
  /\ UNCHANGED <<build, at, g_running, ready, thread, detectorVars>>

Destroyed ==
  /\ Doing = "destroy" /\ MainGoes
  /\ With = "events" /\ "events" \in ready => freed = Len(DestroySteps)
  /\ ready' = ready \ {With}
  /\ UNCHANGED <<build, g_running, thread, queue, freed, detectorVars>>

MainStep ==
  \/ InitResource \/ CreateThread \/ CreateFails \/ LoopEnds \/ CloseQueueOf \/ JoinThread
  \/ DestroyEvents \/ Destroyed

-----------------------------------------------------------------------------
(* The threads. In a loop they look at g_running and go on or end.          *)

Goes(t, there) == thread' = [thread EXCEPT ![t] = there]
ThreadOnly == UNCHANGED <<build, at, ready, freed, detectorVars>>
Adds(q) == queue[q].count < queue[q].capacity /\ queue' = [queue EXCEPT ![q].count = @ + 1]

Loops(t) ==
  /\ thread[t] \in {"starts", "works"}
  /\ Goes(t, IF ~ g_running THEN "over" ELSE IF t \in {"clip", "upload"} THEN "pops" ELSE "works")
  /\ UNCHANGED <<g_running, queue>> /\ ThreadOnly

(* start_human_detect_demo fails.                                           *)
InferFails ==
  /\ thread["infer"] = "starts" /\ "infer" \in build
  /\ Goes("infer", "over") /\ g_running' = FALSE
  /\ UNCHANGED queue /\ ThreadOnly

(* The events that infer_thread makes for tests; it does not wait for room. *)
TestEvent ==
  /\ thread["infer"] = "works" /\ "clip" \in build /\ MutexFree
  /\ ~ queue["events"].closed /\ Adds("events")
  /\ UNCHANGED <<thread, g_running>> /\ ThreadOnly

(* An upload, or a clip without a job, leads back to the loop.              *)
Pops(t, q) ==
  /\ thread[t] = "pops" /\ (q = "events" => MutexFree)
  /\ \/ /\ queue[q].count > 0 /\ queue' = [queue EXCEPT ![q].count = @ - 1]
        /\ \/ Goes(t, "works")
           \/ t = "clip" /\ "upload" \in build /\ Goes(t, "pushes")
     \/ queue[q].count = 0 /\ queue[q].closed /\ Goes(t, "over") /\ UNCHANGED queue
  /\ UNCHANGED g_running /\ ThreadOnly

(* Waits for room.                                                          *)
ClipPushes ==
  /\ thread["clip"] = "pushes" /\ Goes("clip", "works")
  /\ IF queue["jobs"].closed THEN UNCHANGED queue ELSE Adds("jobs")
  /\ UNCHANGED g_running /\ ThreadOnly

ThreadStep ==
  \/ \E t \in DOMAIN thread : Loops(t)
  \/ Pops("clip", "events") \/ ClipPushes \/ Pops("upload", "jobs")

-----------------------------------------------------------------------------
(* A detector thread in event_queue_push, which does not wait for room. The *)
(* fields are read one by one: once main destroys the queue, no lock holds. *)

AlertEnters ==
  /\ alert.at = "idle" /\ alarms < MaxAlarms /\ Doing # "exited"
  /\ thread["infer"] # "none" /\ {"infer", "clip"} \subseteq build
  /\ alert' = [NoAlert EXCEPT !.at = "closed?"] /\ alarms' = alarms + 1
  /\ UNCHANGED <<build, at, g_running, ready, thread, queue, freed, stray>>

AlertReads ==
  /\ Doing # "exited"
  /\ LET q == queue["events"]
     IN  \/ /\ alert.at = "closed?"
            /\ alert' = IF q.closed THEN NoAlert ELSE [alert EXCEPT !.at = "count"]
         \/ alert.at = "count" /\ alert' = [at |-> "room?", count |-> q.count]
         \/ /\ alert.at = "room?"
            /\ alert' = IF alert.count = q.capacity THEN NoAlert ELSE [alert EXCEPT !.at = "store"]
  /\ UNCHANGED <<build, at, g_running, ready, thread, queue, freed, alarms, stray>>

AlertStores ==
  /\ alert.at = "store" /\ Doing # "exited" /\ alert' = NoAlert
  /\ queue' = [queue EXCEPT !["events"].count = @ + 1]
  /\ stray' = (stray \/ ~ queue["events"].items)
  /\ UNCHANGED <<build, at, g_running, ready, thread, freed, alarms>>

-----------------------------------------------------------------------------
LifeInit ==
  /\ build \in Builds
  /\ at = 1 /\ g_running = TRUE /\ ready = {}
  /\ thread = [t \in DOMAIN ThreadsOf |-> "none"]
  /\ queue = [r \in {"events", "jobs"} |-> NoQueue] /\ freed = 0
  /\ alert = NoAlert /\ alarms = 0 /\ stray = FALSE

LifeNext ==
  \/ MainStep \/ StopSignal \/ ThreadStep \/ InferFails \/ TestEvent
  \/ AlertEnters \/ AlertReads \/ AlertStores

LifeSpec == LifeInit /\ [][LifeNext]_lifeVars

(* main, some thread and who is in a call go on. No stop is assumed, no     *)
(* alarm, and no failure. (Alarms are bounded; were they not, main and clip *)
(* thread would need a mutex that is free again and again to be got.)       *)
FairLifeSpec ==
  /\ LifeSpec /\ WF_lifeVars(MainStep) /\ WF_lifeVars(ThreadStep)
  /\ WF_lifeVars(AlertReads \/ AlertStores)

-----------------------------------------------------------------------------
(* Properties.                                                              *)

(* No thread lives without what it uses, wherever the start failed; what    *)
(* was initialised is destroyed in the end; and an alarm that comes while   *)
(* the queue is destroyed, or after, is refused: not by the lock, which is  *)
(* gone, but by the fields.                                                 *)
NothingUsedAfterItsEnd ==
  /\ \A t \in Living : Uses[t] \subseteq ready
  /\ Doing = "exited" => ready = {}
  /\ ~ stray

(* A stop ends the process: from a signal at any moment, a thread that      *)
(* cannot be created, or a detector that does not start, with every thread  *)
(* in whatever queue it is.                                                 *)
StopEndsMain == ~ g_running ~> Doing = "exited"

=============================================================================
