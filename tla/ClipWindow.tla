----------------------------- MODULE ClipWindow -----------------------------
(***************************************************************************)
(* Which packets a clip holds (src/src/clip_writer.c, build_clip): the     *)
(* clip thread copies the ring once for the seconds before the event,      *)
(* waits until the seconds after it have passed, copies the ring again,    *)
(* joins the two at a seam and starts the file at a key frame.             *)
(*                                                                         *)
(* The ring is used as the packet ring promises it: it holds the newest    *)
(* packets it accepted, and a snapshot holds none that has expired. A      *)
(* packet is named by its place in the log of all packets, and a packet of *)
(* the clip by that and the snapshot it was taken from: append_range keeps *)
(* the order of a snapshot. Two clocks run: mono decides what expires;     *)
(* wall, which the network time protocol may set, stamps packets and       *)
(* events. A packet is stamped before it is stored, and may be stored a    *)
(* good while later.                                                       *)
(***************************************************************************)
EXTENDS Integers, Sequences, FiniteSets

CONSTANTS
  Pre, Post,     (* pre_seconds, post_seconds of the configuration          *)
  Grace,         (* what the wait adds to the end of the clip: 300 ms       *)
  RingMs,        (* how long the ring keeps a packet                        *)
  Latency,       (* README: from a frame to its event, and to the clip      *)
  Margin,        (* README: what the ring keeps beyond that                 *)
  Faults,        (* what may go wrong, out of the kinds below               *)
  KeyFrames,     (* what key_frame may be: a subset of BOOLEAN              *)
  MaxTime,       (* bound of the model: ticks of the monotonic clock        *)
  MaxPackets,    (* bound of the model: packets received                    *)
  MaxClockSteps  (* bound of the model: times the wall clock is set         *)

ASSUME ClipAssumption ==
  /\ Pre \in Nat /\ Post \in Nat /\ Grace \in Nat \ {0}
  /\ RingMs \in Nat \ {0} /\ Latency \in Nat /\ Margin \in Nat
  /\ Faults \subseteq {"limits",       (* bytes or slots force packets out  *)
                       "ring",         (* a snapshot fails                  *)
                       "memory"}       (* a packet cannot be copied         *)
  /\ KeyFrames \subseteq BOOLEAN
  /\ MaxTime \in Nat /\ MaxPackets \in Nat /\ MaxClockSteps \in Nat

(* Any time that is far enough from 0 to look back from.                    *)
Epoch == Pre + Latency + MaxClockSteps + 1

Packet == [recv : Int, key : BOOLEAN, stored : Nat]
NoPacket == [recv |-> 0, key |-> FALSE]
NoStart == [snapshot |-> 0, place |-> 0]

VARIABLES
  mono, wall, steps,  (* the clocks, and how often wall was set             *)
  inHand,             (* the packet the RTSP thread has stamped, not stored *)
  arriving,           (* whether there is one                               *)
  log, gone,          (* packets accepted; how many of them left the ring   *)
  running,            (* g_running                                          *)
  pc,                 (* where the clip thread is                           *)
  event,              (* event_wall_ms                                      *)
  clip, lastRecv,     (* the packets of clip; last_recv                     *)
  start,              (* start_idx, once the clip is written                *)
  seen,               (* history: Len(log) at the first snapshot            *)
  sound               (* history: no fault, late snapshot or stop so far    *)

clocks == <<mono, wall, steps>>
ringVars == <<inHand, arriving, log, gone>>
clipVars == <<event, clip, lastRecv, start>>
history == <<seen, sound>>
vars == <<clocks, ringVars, running, pc, clipVars, history>>

StartMs == event - Pre
EndMs == event + Post

-----------------------------------------------------------------------------
(* Time, and the stream that fills the ring. Bound of the model: time ends  *)
(* when the clip has its packets, the stream when it is written.            *)

ClipIsDone == pc \in {"written", "empty"}
ClipIsTaken == ClipIsDone \/ pc = "write"

Tick ==
  /\ mono < MaxTime /\ ~ ClipIsTaken
  /\ mono' = mono + 1 /\ wall' = wall + 1
  /\ UNCHANGED <<steps, ringVars, running, pc, clipVars, history>>

SetClock(by) ==
  /\ steps < MaxClockSteps /\ ~ ClipIsTaken
  /\ steps' = steps + 1
  /\ wall' = wall + by
  /\ UNCHANGED <<mono, ringVars, running, pc, clipVars, history>>

(* The RTSP thread reads ca_now_ms for the packet it hands on ...           *)
Stamp(key) ==
  /\ ~ arriving /\ Len(log) < MaxPackets /\ ~ ClipIsDone
  /\ arriving' = TRUE
  /\ inHand' = [recv |-> wall, key |-> key]
  /\ UNCHANGED <<clocks, log, gone, running, pc, clipVars, history>>

Expired(i) == log[i].stored + RingMs <= mono
Pruned(n) ==
  /\ \A i \in gone + 1 .. n : Expired(i)
  /\ n < Len(log) => ~ Expired(n + 1)

(* ... and ring_push stores it, with the monotonic time of that moment.     *)
StorePacket ==
  /\ arriving /\ ~ ClipIsDone
  /\ arriving' = FALSE /\ inHand' = NoPacket
  /\ \E n \in gone .. Len(log) :
       /\ Pruned(n)
       /\ gone' \in IF "limits" \in Faults THEN n .. Len(log) ELSE {n}
       /\ sound' = (sound /\ gone' = n)
  /\ log' = Append(log, [recv |-> inHand.recv, key |-> inHand.key, stored |-> mono])
  /\ UNCHANGED <<clocks, running, pc, clipVars, seen>>

(* The event carries the time of the frame that raised it, which is some    *)
(* time ago when the detector is done. Bound of the model: early enough for *)
(* the clip to end before MaxTime.                                          *)
Publish(frame) ==
  /\ pc = "idle" /\ running
  /\ mono + Post + Grace + MaxClockSteps <= MaxTime
  /\ frame \in wall - Latency .. wall
  /\ event' = frame
  /\ pc' = "pre"
  /\ UNCHANGED <<clocks, ringVars, running, clip, lastRecv, start, history>>

-----------------------------------------------------------------------------
(* The clip.                                                                *)

(* What append_range takes of a snapshot of the ring when n are gone.       *)
InRange(n, from, to, after) ==
  {i \in n + 1 .. Len(log) : /\ from <= log[i].recv /\ log[i].recv <= to
                             /\ log[i].recv > after}

(* The clip is in the order in which append_range was given its packets.    *)
From(snapshot, places) == {[snapshot |-> snapshot, place |-> i] : i \in places}
Before(x, y) == \/ x.snapshot < y.snapshot
                \/ x.snapshot = y.snapshot /\ x.place < y.place
First(x, part) == x \in part /\ \A y \in part : ~ Before(y, x)
Last(x, part) == x \in part /\ \A y \in part : ~ Before(x, y)
recv(x) == log[x.place].recv

(* In time for the README's rule, as long as nobody sets the clock.         *)
PreOnTime == mono + Epoch <= event + Latency + Margin
PostOnTime == mono + Epoch <= EndMs + Margin

(* What it has taken when a packet cannot be copied: those before it.       *)
Taken(range) ==
  IF "memory" \in Faults
  THEN {places \in SUBSET range : \A i \in places, k \in range : k < i => k \in places}
  ELSE {range}

(* Variant: the second snapshot is told of no seam.                         *)
PreSnapshot_NoSeam ==
  /\ pc = "pre"
  /\ \E n \in gone .. Len(log) :
       /\ Pruned(n) /\ gone' = n
       /\ clip' = From(1, InRange(n, StartMs, event, -1))
  /\ lastRecv' = 0
  /\ seen' = Len(log)
  /\ pc' = "wait"
  /\ UNCHANGED <<clocks, inHand, arriving, log, running, event, start, sound>>

PreSnapshot ==
  /\ pc = "pre"
  /\ \E n \in gone .. Len(log) :
       /\ Pruned(n) /\ gone' = n
       /\ LET range == InRange(n, StartMs, event, -1)
          IN  \/ \E places \in Taken(range) :
                   /\ clip' = From(1, places)
                   /\ sound' = (sound /\ places = range /\ PreOnTime)
                   /\ \/ places = {} /\ lastRecv' = 0
                      \/ \E x \in clip' : Last(x, clip') /\ lastRecv' = recv(x)
              \/ "ring" \in Faults /\ sound' = FALSE /\ UNCHANGED <<clip, lastRecv>>
  /\ seen' = Len(log)
  /\ pc' = "wait"
  /\ UNCHANGED <<clocks, inHand, arriving, log, running, event, start>>

(* Variants: the wait ends with the clip, not some time after it; it looks  *)
(* for one moment of the clock.                                             *)
WaitIsOver_Exact ==
  /\ pc = "wait"
  /\ ~ running \/ wall = EndMs + Grace
  /\ pc' = "post"
  /\ UNCHANGED <<clocks, ringVars, running, clipVars, history>>
WaitIsOver_NoGrace ==
  /\ pc = "wait"
  /\ ~ running \/ wall >= EndMs
  /\ pc' = "post"
  /\ UNCHANGED <<clocks, ringVars, running, clipVars, history>>

WaitIsOver ==
  /\ pc = "wait"
  /\ ~ running \/ wall >= EndMs + Grace
  /\ pc' = "post"
  /\ UNCHANGED <<clocks, ringVars, running, clipVars, history>>

PostSnapshot ==
  /\ pc = "post"
  /\ \E n \in gone .. Len(log) :
       /\ Pruned(n) /\ gone' = n
       /\ LET range == InRange(n, event, EndMs, lastRecv)
          IN  \/ \E places \in Taken(range) :
                   /\ clip' = clip \cup From(2, places)
                   /\ sound' = (sound /\ places = range /\ PostOnTime)
              \/ "ring" \in Faults /\ sound' = FALSE /\ UNCHANGED clip
  /\ pc' = "write"
  /\ UNCHANGED <<clocks, inHand, arriving, log, running, event, lastRecv, start,
                 seen>>

(* align_to_keyframe: the last key frame not after the wanted start, else   *)
(* the first one after it, else the first packet.                           *)
Keys == {x \in clip : log[x.place].key}
KeysBefore == {x \in Keys : recv(x) <= StartMs}

(* Variant: the last key frame of the clip.                                 *)
AlignToKeyframe_Last(x) == Last(x, Keys) \/ (Keys = {} /\ First(x, clip))

AlignToKeyframe(x) ==
  \/ Last(x, KeysBefore)
  \/ KeysBefore = {} /\ First(x, Keys)
  \/ Keys = {} /\ First(x, clip)

Write ==
  /\ pc = "write"
  /\ \/ \E x \in clip : AlignToKeyframe(x) /\ start' = x /\ pc' = "written"
     \/ clip = {} /\ pc' = "empty" /\ UNCHANGED start
  /\ UNCHANGED <<clocks, ringVars, running, event, clip, lastRecv, history>>

Stop ==
  /\ running /\ running' = FALSE /\ ~ ClipIsTaken
  /\ sound' = FALSE
  /\ UNCHANGED <<clocks, ringVars, pc, clipVars, seen>>

-----------------------------------------------------------------------------
Init ==
  /\ mono = 0 /\ wall = Epoch /\ steps = 0
  /\ inHand = NoPacket /\ arriving = FALSE
  /\ log = << >> /\ gone = 0
  /\ running = TRUE /\ pc = "idle"
  /\ event = 0 /\ clip = {} /\ lastRecv = 0 /\ start = NoStart
  /\ seen = 0 /\ sound = TRUE

ClipThread == PreSnapshot \/ WaitIsOver \/ PostSnapshot \/ Write

Next ==
  \/ Tick \/ SetClock(1) \/ SetClock(-1)
  \/ \E key \in KeyFrames : Stamp(key)
  \/ StorePacket
  \/ \E frame \in wall - Latency .. wall : Publish(frame)
  \/ ClipThread
  \/ Stop

Spec == Init /\ [][Next]_vars

(* Time passes and the clip thread runs.                                    *)
FairSpec == Spec /\ WF_vars(Tick) /\ WF_vars(ClipThread)

-----------------------------------------------------------------------------
TypeOK ==
  /\ mono \in 0 .. MaxTime /\ wall \in Nat /\ steps \in 0 .. MaxClockSteps
  /\ inHand \in [recv : Nat, key : BOOLEAN] /\ arriving \in BOOLEAN
  /\ log \in Seq(Packet) /\ Len(log) <= MaxPackets
  /\ gone \in 0 .. Len(log)
  /\ running \in BOOLEAN
  /\ pc \in {"idle", "pre", "wait", "post", "write", "written", "empty"}
  /\ event \in Nat /\ lastRecv \in Nat
  /\ clip \subseteq [snapshot : {1, 2}, place : 1 .. Len(log)]
  /\ pc = "written" => start \in clip
  /\ seen \in 0 .. Len(log) /\ sound \in BOOLEAN

(* The seam of the two snapshots neither repeats a packet nor puts one out  *)
(* of order, as long as nobody sets the clock between them.                 *)
OnceAndInOrder ==
  steps = 0 => \A x, y \in clip : Before(x, y) => x.place < y.place

(* README.md:72: a ring that keeps ring_seconds >= pre_seconds +            *)
(* post_seconds + latency + margin loses nothing of a clip whose thread is  *)
(* no later than that: every packet stamped between the start and the end   *)
(* is in it, except one stamped up to the event but stored only after the   *)
(* first snapshot, and one stored so late that 300 ms do not wait for it.   *)
CapacityRule == /\ RingMs >= Pre + Post + Latency + Margin
                /\ Post > 0 /\ Pre + Latency > 0
InClip(i) == \E x \in clip : x.place = i
LateAtSeam(i) == i > seen /\ log[i].recv <= event
LateAtEnd(i) == log[i].stored + Epoch - log[i].recv >= Grace
ClipIsComplete ==
  (CapacityRule /\ sound /\ pc = "written" /\ steps = 0) =>
    \A i \in DOMAIN log :
      StartMs <= log[i].recv /\ log[i].recv <= EndMs =>
        InClip(i) \/ LateAtSeam(i) \/ LateAtEnd(i)

(* A file that can start with a key frame does, and no key frame is cut off *)
(* its front, but for those stamped with the very first millisecond (or     *)
(* any, when the clock was set).                                            *)
StartsWithKey ==
  pc = "written" =>
    /\ start \in IF Keys # {} THEN Keys ELSE clip
    /\ steps = 0 => \A x \in Keys : Before(x, start) => recv(x) = StartMs

(* The wait for the end of the clip ends, although the wall clock it looks  *)
(* at may be set back while it waits.                                       *)
ClipIsFinished == pc = "pre" ~> ClipIsDone

(* README.md:67: alignment may fall back to an earlier key frame, so that a *)
(* clip covers all of the seconds before the event whenever the ring holds  *)
(* such a key frame. The code has cut those packets off before it aligns.   *)
KeyBeforeStart == \E i \in gone + 1 .. seen : log[i].key /\ log[i].recv <= StartMs
FallsBackToEarlierKey ==
  (pc = "written" /\ steps = 0 /\ KeyBeforeStart) => recv(start) <= StartMs

(* A clip has every packet it should have, each once and in order, and      *)
(* begins with a key frame when it can.                                     *)
ClipIsRight == OnceAndInOrder /\ ClipIsComplete /\ StartsWithKey

=============================================================================
