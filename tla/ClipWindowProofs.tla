-------------------------- MODULE ClipWindowProofs --------------------------
(***************************************************************************)
(* Proofs about ClipWindow, for any seconds before and after the event,    *)
(* any ring, any number of packets and of steps of the clock, and any      *)
(* faults: a clip is right. The inductive invariant says in which order    *)
(* packets are stamped and stored (InStep), what a clip holds (ClipHolds)  *)
(* and what it may miss at each stage (NothingMissed).                     *)
(***************************************************************************)
EXTENDS ClipWindow, SequenceTheorems, TLAPS

(* The types; what is in the clip is in the log.                            *)
Pick == [snapshot : {1, 2}, place : 1 .. Len(log)]
Stages == {"idle", "pre", "wait", "post", "write", "written", "empty"}
ClipTypes ==
  /\ mono \in Nat /\ wall \in Int /\ steps \in Nat
  /\ inHand \in [recv : Int, key : BOOLEAN] /\ arriving \in BOOLEAN
  /\ log \in Seq(Packet) /\ gone \in 0 .. Len(log) /\ seen \in 0 .. Len(log)
  /\ running \in BOOLEAN /\ sound \in BOOLEAN /\ pc \in Stages
  /\ event \in Int /\ lastRecv \in Int
  /\ clip \subseteq Pick

(* While nobody sets the clock, packets are stamped, and stored, in order,  *)
(* none before it is stamped, and events are late enough to look back.      *)
InStep ==
  steps = 0 =>
    /\ wall = mono + Epoch
    /\ arriving => inHand.recv <= wall /\ \A i \in DOMAIN log : log[i].recv <= inHand.recv
    /\ \A i \in DOMAIN log : log[i].stored <= mono /\ log[i].recv <= log[i].stored + Epoch
    /\ \A i, k \in DOMAIN log : i < k => log[i].recv <= log[k].recv
    /\ pc # "idle" => event >= Pre

(* What the clip holds by the stage it is in.                               *)
ClipHolds ==
  /\ pc \in {"idle", "pre"} => clip = {} /\ lastRecv = 0
  /\ pc \in {"wait", "post"} => \A x \in clip : x.snapshot = 1
  /\ \A x \in clip : x.snapshot = 1 => StartMs <= recv(x) /\ recv(x) <= event
  /\ \A x \in clip : x.snapshot = 2 =>
       event <= recv(x) /\ recv(x) <= EndMs /\ recv(x) > lastRecv
  /\ steps = 0 => \A x \in clip : x.snapshot = 1 => recv(x) <= lastRecv
  /\ pc \notin {"idle", "pre"} => lastRecv = 0 \/ lastRecv <= event
  /\ pc = "written" => AlignToKeyframe(start)

(* While nothing happens that the capacity rule does not cover: what left   *)
(* the ring had expired, the first snapshot misses nothing up to the event, *)
(* the second nothing after it but what was stored later, which is late.    *)
WaitedEnough == mono + Epoch >= EndMs + Grace
NothingMissed ==
  /\ sound => running /\ \A i \in 1 .. gone : Expired(i)
  /\ sound /\ steps = 0 /\ CapacityRule =>
       /\ pc \in {"wait", "post", "write", "written"} =>
            \A i \in 1 .. seen : StartMs <= log[i].recv /\ log[i].recv <= event => InClip(i)
       /\ pc \in {"post", "write", "written"} => WaitedEnough
       /\ pc \in {"write", "written"} =>
            \A i \in DOMAIN log :
              event < log[i].recv /\ log[i].recv <= EndMs =>
                InClip(i) \/ log[i].stored + Epoch >= EndMs + Grace

ClipInv == ClipTypes /\ InStep /\ ClipHolds /\ NothingMissed

-----------------------------------------------------------------------------
LEMMA Numbers ==
  /\ Pre \in Nat /\ Post \in Nat /\ Grace \in Nat /\ RingMs \in Nat
  /\ Latency \in Nat /\ Margin \in Nat /\ MaxClockSteps \in Nat
  /\ Epoch \in Nat /\ Epoch >= Pre + Latency + 1
BY ClipAssumption DEF Epoch

LEMMA Logged ==
  ASSUME ClipTypes
  PROVE  /\ Len(log) \in Nat /\ DOMAIN log = 1 .. Len(log)
         /\ \A i \in 1 .. Len(log) :
              log[i].recv \in Int /\ log[i].stored \in Nat /\ log[i].key \in BOOLEAN
         /\ \A x \in clip : /\ x.place \in 1 .. Len(log) /\ x.snapshot \in {1, 2}
                            /\ recv(x) \in Int /\ recv(x) = log[x.place].recv
<1>1. log \in Seq(Packet) /\ clip \subseteq Pick
  BY DEF ClipTypes
<1>2. Len(log) \in Nat /\ DOMAIN log = 1 .. Len(log)
  BY <1>1, LenProperties
<1>3. \A i \in 1 .. Len(log) : log[i] \in Packet
  BY <1>1, ElementOfSeq
<1>4. \A i \in 1 .. Len(log) :
        log[i].recv \in Int /\ log[i].stored \in Nat /\ log[i].key \in BOOLEAN
  BY <1>3 DEF Packet
<1>5. \A x \in clip : x.place \in 1 .. Len(log) /\ x.snapshot \in {1, 2}
  BY <1>1 DEF Pick
<1> QED
  BY <1>2, <1>4, <1>5 DEF recv

(* What comes later in the log was stamped later, or at the same time.      *)
LEMMA StampedInOrder ==
  ASSUME ClipInv, steps = 0, NEW i \in 1 .. Len(log), NEW k \in 1 .. Len(log), i <= k
  PROVE  log[i].recv <= log[k].recv
<1>1. /\ DOMAIN log = 1 .. Len(log) /\ Len(log) \in Nat
      /\ log[i].recv \in Int /\ log[k].recv \in Int
  BY Logged DEF ClipInv
<1>2. i < k => log[i].recv <= log[k].recv
  BY <1>1 DEF ClipInv, InStep
<1>3. i < k \/ i = k
  BY <1>1
<1> QED
  BY <1>1, <1>2, <1>3

-----------------------------------------------------------------------------
(* Clocks, the stream and the event.                                        *)

LEMMA TickKeeps == ASSUME ClipInv, Tick PROVE ClipInv'
<1>1. /\ mono' = mono + 1 /\ wall' = wall + 1 /\ pc \notin {"written", "empty", "write"}
      /\ steps' = steps /\ inHand' = inHand /\ arriving' = arriving /\ log' = log
      /\ gone' = gone /\ running' = running /\ pc' = pc /\ event' = event /\ clip' = clip
      /\ lastRecv' = lastRecv /\ start' = start /\ seen' = seen /\ sound' = sound
  BY DEF Tick, ringVars, clipVars, history, ClipIsTaken, ClipIsDone
<1>2. mono \in Nat /\ wall \in Int
  BY DEF ClipInv, ClipTypes
<1>3. ClipTypes'
  BY <1>1, <1>2 DEF ClipInv, ClipTypes, Pick
<1>4. InStep'
  <2> SUFFICES ASSUME steps = 0 PROVE InStep'
    BY <1>1 DEF InStep
  <2>1. /\ wall = mono + Epoch
        /\ arriving => inHand.recv <= wall /\ \A i \in DOMAIN log : log[i].recv <= inHand.recv
        /\ \A i \in DOMAIN log : log[i].stored <= mono /\ log[i].recv <= log[i].stored + Epoch
        /\ \A i, k \in DOMAIN log : i < k => log[i].recv <= log[k].recv
        /\ pc # "idle" => event >= Pre
    BY DEF ClipInv, InStep
  <2>2. wall' = mono' + Epoch
    BY <1>1, <1>2, <2>1, Numbers
  <2>3. inHand.recv \in Int
    BY DEF ClipInv, ClipTypes
  <2>4. arriving => inHand.recv <= wall'
    BY <1>1, <1>2, <2>1, <2>3
  <2>5. \A i \in DOMAIN log : log[i].stored <= mono'
    BY <1>1, <1>2, <2>1, Logged DEF ClipInv
  <2> QED
    BY <1>1, <2>1, <2>2, <2>4, <2>5 DEF InStep
<1>5. ClipHolds'
  BY <1>1 DEF ClipInv, ClipHolds, recv, StartMs, EndMs
<1>6. NothingMissed'
  <2>1. ASSUME NEW i \in 1 .. gone, Expired(i) PROVE Expired(i)'
    <3>1. i \in 1 .. Len(log)
      BY Logged DEF ClipInv, ClipTypes
    <3>2. log[i].stored \in Nat
      BY <3>1, Logged DEF ClipInv
    <3> QED
      BY <1>1, <1>2, <2>1, <3>2, Numbers DEF Expired
  <2>2. WaitedEnough => WaitedEnough'
    <3>1. event \in Int
      BY DEF ClipInv, ClipTypes
    <3> QED
      BY <1>1, <1>2, <3>1, Numbers DEF WaitedEnough, EndMs
  <2>3. sound => running /\ \A i \in 1 .. gone : Expired(i)'
    BY <2>1 DEF ClipInv, NothingMissed
  <2>4. sound' => running' /\ \A i \in 1 .. gone' : Expired(i)'
    BY <1>1, <2>3
  <2> QED
    BY <1>1, <2>2, <2>4 DEF ClipInv, NothingMissed, InClip, StartMs, EndMs
<1> QED
  BY <1>3, <1>4, <1>5, <1>6 DEF ClipInv

LEMMA SetClockKeeps == ASSUME ClipInv, NEW by \in Int, SetClock(by) PROVE ClipInv'
<1>1. /\ mono' = mono /\ wall' = wall + by /\ pc \notin {"written", "empty", "write"}
      /\ steps' = steps + 1 /\ inHand' = inHand /\ arriving' = arriving /\ log' = log
      /\ gone' = gone /\ running' = running /\ pc' = pc /\ event' = event /\ clip' = clip
      /\ lastRecv' = lastRecv /\ start' = start /\ seen' = seen /\ sound' = sound
  BY DEF SetClock, ringVars, clipVars, history, ClipIsTaken, ClipIsDone
<1>2. steps' \in Nat /\ steps' # 0 /\ wall' \in Int
  BY <1>1 DEF ClipInv, ClipTypes
<1>3. ClipTypes'
  BY <1>1, <1>2 DEF ClipInv, ClipTypes, Pick
<1>4. InStep'
  BY <1>2 DEF InStep
<1>5. ClipHolds'
  BY <1>1, <1>2 DEF ClipInv, ClipHolds, recv, StartMs, EndMs
<1>6. NothingMissed'
  BY <1>1, <1>2 DEF ClipInv, NothingMissed, Expired
<1> QED
  BY <1>3, <1>4, <1>5, <1>6 DEF ClipInv

LEMMA StampKeeps == ASSUME ClipInv, NEW key \in BOOLEAN, Stamp(key) PROVE ClipInv'
<1>1. /\ mono' = mono /\ wall' = wall /\ steps' = steps /\ arriving' = TRUE
      /\ inHand' = [recv |-> wall, key |-> key] /\ log' = log /\ gone' = gone
      /\ running' = running /\ pc' = pc /\ event' = event /\ clip' = clip
      /\ lastRecv' = lastRecv /\ start' = start /\ seen' = seen /\ sound' = sound
      /\ pc \notin {"written", "empty"}
  BY DEF Stamp, clocks, clipVars, history, ClipIsDone
<1>2. wall \in Int /\ mono \in Nat
  BY DEF ClipInv, ClipTypes
<1>3. ClipTypes'
  <2>1. inHand' \in [recv : Int, key : BOOLEAN]
    BY <1>1, <1>2
  <2> QED
    BY <1>1, <2>1 DEF ClipInv, ClipTypes, Pick
<1>4. InStep'
  <2> SUFFICES ASSUME steps = 0 PROVE InStep'
    BY <1>1 DEF InStep
  <2>1. /\ wall = mono + Epoch
        /\ \A i \in DOMAIN log : log[i].stored <= mono /\ log[i].recv <= log[i].stored + Epoch
        /\ \A i, k \in DOMAIN log : i < k => log[i].recv <= log[k].recv
        /\ pc # "idle" => event >= Pre
    BY DEF ClipInv, InStep
  <2>2. \A i \in DOMAIN log : log[i].recv <= wall
    <3>1. TAKE i \in DOMAIN log
    <3>2. log[i].recv \in Int /\ log[i].stored \in Nat
      BY Logged DEF ClipInv
    <3>3. log[i].stored <= mono /\ log[i].recv <= log[i].stored + Epoch
      BY <2>1
    <3> QED
      BY <1>2, <2>1, <3>2, <3>3, Numbers
  <2>3. inHand'.recv = wall
    BY <1>1
  <2>4. wall <= wall
    BY <1>2
  <2> QED
    BY <1>1, <2>1, <2>2, <2>3, <2>4 DEF InStep
<1>5. ClipHolds'
  BY <1>1 DEF ClipInv, ClipHolds, recv, StartMs, EndMs
<1>6. NothingMissed'
  BY <1>1 DEF ClipInv, NothingMissed, Expired, InClip, StartMs, EndMs, WaitedEnough
<1> QED
  BY <1>3, <1>4, <1>5, <1>6 DEF ClipInv

LEMMA PublishKeeps ==
  ASSUME ClipInv, NEW frame \in wall - Latency .. wall, Publish(frame)
  PROVE  ClipInv'
<1>1. /\ mono' = mono /\ wall' = wall /\ steps' = steps /\ arriving' = arriving
      /\ inHand' = inHand /\ log' = log /\ gone' = gone
      /\ running' = running /\ pc = "idle" /\ pc' = "pre" /\ event' = frame /\ clip' = clip
      /\ lastRecv' = lastRecv /\ start' = start /\ seen' = seen /\ sound' = sound
  BY DEF Publish, clocks, ringVars, history
<1>2. wall \in Int /\ mono \in Nat /\ clip = {} /\ lastRecv = 0
  BY <1>1 DEF ClipInv, ClipTypes, ClipHolds
<1>3. frame \in Int /\ wall - Latency <= frame
  BY <1>2, Numbers
<1>4. ClipTypes'
  BY <1>1, <1>3 DEF ClipInv, ClipTypes, Pick, Stages
<1>5. InStep'
  <2> SUFFICES ASSUME steps = 0 PROVE InStep'
    BY <1>1 DEF InStep
  <2>1. wall = mono + Epoch
    BY DEF ClipInv, InStep
  <2>2. event' >= Pre
    BY <1>1, <1>2, <1>3, <2>1, Numbers
  <2> QED
    BY <1>1, <2>2 DEF ClipInv, InStep
<1>6. ClipHolds'
  BY <1>1, <1>2 DEF ClipHolds
<1>7. NothingMissed'
  BY <1>1 DEF ClipInv, NothingMissed, Expired
<1> QED
  BY <1>4, <1>5, <1>6, <1>7 DEF ClipInv

LEMMA StopKeeps == ASSUME ClipInv, Stop PROVE ClipInv'
<1>1. /\ mono' = mono /\ wall' = wall /\ steps' = steps /\ arriving' = arriving
      /\ inHand' = inHand /\ log' = log /\ gone' = gone
      /\ running' = FALSE /\ pc' = pc /\ event' = event /\ clip' = clip
      /\ lastRecv' = lastRecv /\ start' = start /\ seen' = seen /\ sound' = FALSE
      /\ pc \notin {"written", "empty", "write"}
  BY DEF Stop, clocks, ringVars, clipVars, ClipIsTaken, ClipIsDone
<1>2. ClipTypes'
  BY <1>1 DEF ClipInv, ClipTypes, Pick
<1>3. InStep'
  BY <1>1 DEF ClipInv, InStep
<1>4. ClipHolds'
  BY <1>1 DEF ClipInv, ClipHolds, recv, StartMs, EndMs
<1>5. NothingMissed'
  BY <1>1 DEF NothingMissed
<1> QED
  BY <1>2, <1>3, <1>4, <1>5 DEF ClipInv

(* A packet is stored after the others; what they are named by stays.       *)
LEMMA Stored ==
  ASSUME ClipTypes, StorePacket
  PROVE  /\ log' \in Seq(Packet) /\ Len(log') = Len(log) + 1
         /\ DOMAIN log' = 1 .. Len(log) + 1
         /\ \A i \in 1 .. Len(log) : log'[i] = log[i]
         /\ log'[Len(log) + 1].recv = inHand.recv /\ log'[Len(log) + 1].stored = mono
         /\ \A x \in clip : recv(x)' = recv(x)
<1> DEFINE new == [recv |-> inHand.recv, key |-> inHand.key, stored |-> mono]
<1>1. log' = Append(log, new) /\ clip' = clip
  BY DEF StorePacket, clipVars
<1>2. inHand \in [recv : Int, key : BOOLEAN] /\ mono \in Nat /\ log \in Seq(Packet)
  BY DEF ClipTypes
<1>3. new \in Packet /\ new.recv = inHand.recv /\ new.stored = mono
  BY <1>2 DEF Packet
<1> HIDE DEF new
<1>4. /\ Append(log, new) \in Seq(Packet) /\ Len(Append(log, new)) = Len(log) + 1
      /\ \A i \in 1 .. Len(log) : Append(log, new)[i] = log[i]
      /\ Append(log, new)[Len(log) + 1] = new
  BY <1>2, <1>3, AppendProperties
<1>5. DOMAIN log' = 1 .. Len(log) + 1
  BY <1>1, <1>4, LenProperties
<1>6. \A x \in clip : recv(x)' = recv(x)
  BY <1>1, <1>4, Logged DEF recv
<1> QED
  BY <1>1, <1>3, <1>4, <1>5, <1>6

LEMMA StorePacketKeeps == ASSUME ClipInv, StorePacket PROVE ClipInv'
<1>1. /\ mono' = mono /\ wall' = wall /\ steps' = steps /\ arriving /\ arriving' = FALSE
      /\ inHand' = NoPacket /\ running' = running /\ pc' = pc /\ event' = event
      /\ clip' = clip /\ lastRecv' = lastRecv /\ start' = start /\ seen' = seen
      /\ pc \notin {"written", "empty"}
  BY DEF StorePacket, clocks, clipVars, ClipIsDone
<1>2. PICK n \in gone .. Len(log) :
        /\ Pruned(n)
        /\ gone' \in IF "limits" \in Faults THEN n .. Len(log) ELSE {n}
        /\ sound' = (sound /\ gone' = n)
  BY DEF StorePacket
<1>3. ClipTypes /\ Len(log) \in Nat /\ gone \in 0 .. Len(log) /\ seen \in 0 .. Len(log)
  BY Logged DEF ClipInv, ClipTypes
<1>4. /\ log' \in Seq(Packet) /\ Len(log') = Len(log) + 1
      /\ DOMAIN log' = 1 .. Len(log) + 1
      /\ \A i \in 1 .. Len(log) : log'[i] = log[i]
      /\ log'[Len(log) + 1].recv = inHand.recv /\ log'[Len(log) + 1].stored = mono
      /\ \A x \in clip : recv(x)' = recv(x)
  BY <1>3, Stored
<1>5. mono \in Nat /\ wall \in Int /\ inHand.recv \in Int /\ event \in Int
  BY <1>3 DEF ClipTypes
<1>6. ClipTypes'
  <2>1. gone' \in 0 .. Len(log')
    BY <1>2, <1>3, <1>4
  <2>2. seen' \in 0 .. Len(log')
    BY <1>1, <1>3, <1>4
  <2>3. clip \subseteq Pick'
    BY <1>3, <1>4 DEF ClipTypes, Pick
  <2>4. inHand' \in [recv : Int, key : BOOLEAN]
    BY <1>1 DEF NoPacket
  <2>5. sound' \in BOOLEAN
    BY <1>2
  <2>6. /\ mono \in Nat /\ wall \in Int /\ steps \in Nat /\ running \in BOOLEAN
        /\ pc \in Stages /\ event \in Int /\ lastRecv \in Int
    BY <1>3 DEF ClipTypes
  <2> QED
    BY <1>1, <1>4, <2>1, <2>2, <2>3, <2>4, <2>5, <2>6 DEF ClipTypes
<1>7. InStep'
  <2> SUFFICES ASSUME steps = 0 PROVE InStep'
    BY <1>1 DEF InStep
  <2>1. /\ wall = mono + Epoch /\ inHand.recv <= wall
        /\ \A i \in 1 .. Len(log) : log[i].recv <= inHand.recv
        /\ \A i \in 1 .. Len(log) : log[i].stored <= mono /\ log[i].recv <= log[i].stored + Epoch
        /\ \A i, k \in 1 .. Len(log) : i < k => log[i].recv <= log[k].recv
        /\ pc # "idle" => event >= Pre
    BY <1>1, <1>3, Logged DEF ClipInv, InStep
  <2>2. \A i \in DOMAIN log' : i \in 1 .. Len(log) \/ i = Len(log) + 1
    BY <1>3, <1>4
  <2>3. \A i \in DOMAIN log' : log'[i].stored <= mono /\ log'[i].recv <= log'[i].stored + Epoch
    BY <1>4, <1>5, <2>1, <2>2
  <2>4. ASSUME NEW i \in DOMAIN log', NEW k \in DOMAIN log', i < k
        PROVE  log'[i].recv <= log'[k].recv
    <3>1. i \in 1 .. Len(log)
      BY <1>3, <1>4, <2>4
    <3>2. log'[i] = log[i] /\ log[i].recv <= inHand.recv
      BY <1>4, <2>1, <3>1
    <3>3. CASE k \in 1 .. Len(log)
      BY <1>4, <2>1, <2>4, <3>1, <3>2, <3>3
    <3>4. CASE k = Len(log) + 1
      BY <1>4, <3>2, <3>4
    <3> QED
      BY <2>2, <3>3, <3>4
  <2> QED
    BY <1>1, <2>1, <2>3, <2>4 DEF InStep
<1>8. ClipHolds'
  <2>1. /\ pc \in {"idle", "pre"} => clip = {} /\ lastRecv = 0
        /\ pc \in {"wait", "post"} => \A x \in clip : x.snapshot = 1
        /\ \A x \in clip : x.snapshot = 1 => StartMs <= recv(x) /\ recv(x) <= event
        /\ \A x \in clip : x.snapshot = 2 =>
             event <= recv(x) /\ recv(x) <= EndMs /\ recv(x) > lastRecv
        /\ steps = 0 => \A x \in clip : x.snapshot = 1 => recv(x) <= lastRecv
        /\ pc \notin {"idle", "pre"} => lastRecv = 0 \/ lastRecv <= event
    BY DEF ClipInv, ClipHolds
  <2>2. StartMs' = StartMs /\ EndMs' = EndMs /\ pc' # "written"
    BY <1>1 DEF StartMs, EndMs
  <2> QED
    BY <1>1, <1>4, <2>1, <2>2 DEF ClipHolds
<1>9. NothingMissed'
  <2> SUFFICES ASSUME sound' PROVE NothingMissed'
    BY DEF NothingMissed
  <2>1. sound /\ gone' = n
    BY <1>2
  <2>2. running' /\ \A i \in 1 .. gone' : Expired(i)'
    <3>1. running /\ \A i \in 1 .. gone : Expired(i)
      BY <2>1 DEF ClipInv, NothingMissed
    <3>2. \A i \in gone + 1 .. n : Expired(i)
      BY <1>2 DEF Pruned
    <3>3. \A i \in 1 .. n : i \in 1 .. Len(log) /\ (i \in 1 .. gone \/ i \in gone + 1 .. n)
      BY <1>3
    <3>4. \A i \in 1 .. n : Expired(i)
      BY <3>1, <3>2, <3>3
    <3>5. \A i \in 1 .. n : Expired(i)'
      BY <1>1, <1>4, <3>3, <3>4 DEF Expired
    <3> QED
      BY <1>1, <2>1, <3>1, <3>5
  <2>3. ASSUME steps = 0, CapacityRule
        PROVE  /\ pc \in {"wait", "post", "write", "written"} =>
                    \A i \in 1 .. seen :
                      (StartMs <= log[i].recv /\ log[i].recv <= event => InClip(i))'
               /\ pc \in {"post", "write", "written"} => WaitedEnough'
               /\ pc \in {"write", "written"} =>
                    \A i \in DOMAIN log' :
                      (event < log[i].recv /\ log[i].recv <= EndMs =>
                        InClip(i) \/ log[i].stored + Epoch >= EndMs + Grace)'
    <3>1. /\ pc \in {"wait", "post", "write", "written"} =>
               \A i \in 1 .. seen : StartMs <= log[i].recv /\ log[i].recv <= event => InClip(i)
          /\ pc \in {"post", "write", "written"} => WaitedEnough
          /\ pc \in {"write", "written"} =>
               \A i \in 1 .. Len(log) :
                 event < log[i].recv /\ log[i].recv <= EndMs =>
                   InClip(i) \/ log[i].stored + Epoch >= EndMs + Grace
      BY <1>3, <2>1, <2>3, Logged DEF ClipInv, NothingMissed
    <3>2. /\ StartMs' = StartMs /\ EndMs' = EndMs /\ WaitedEnough' = WaitedEnough
          /\ event' = event /\ \A i : InClip(i)' = InClip(i)
      BY <1>1 DEF StartMs, EndMs, WaitedEnough, InClip
    <3>3. \A i \in 1 .. seen : i \in 1 .. Len(log)
      BY <1>3
    <3>4. pc \in {"wait", "post", "write", "written"} =>
            \A i \in 1 .. seen :
              (StartMs <= log[i].recv /\ log[i].recv <= event => InClip(i))'
      BY <1>4, <3>1, <3>2, <3>3
    <3>5. ASSUME pc \in {"write", "written"}, NEW i \in DOMAIN log'
          PROVE  (event < log[i].recv /\ log[i].recv <= EndMs =>
                   InClip(i) \/ log[i].stored + Epoch >= EndMs + Grace)'
      <4>1. CASE i \in 1 .. Len(log)
        BY <1>4, <3>1, <3>2, <3>5, <4>1
      <4>2. CASE i = Len(log) + 1
        <5>1. WaitedEnough /\ log'[i].stored = mono
          BY <1>4, <3>1, <3>5, <4>2
        <5> QED
          BY <1>1, <3>2, <5>1 DEF WaitedEnough
      <4> QED
        BY <1>3, <1>4, <4>1, <4>2
    <3> QED
      BY <3>1, <3>2, <3>4, <3>5
  <2> QED
    BY <1>1, <2>2, <2>3 DEF NothingMissed, CapacityRule
<1> QED
  BY <1>6, <1>7, <1>8, <1>9 DEF ClipInv

-----------------------------------------------------------------------------
(* The clip thread.                                                         *)

LEMMA WaitIsOverKeeps == ASSUME ClipInv, WaitIsOver PROVE ClipInv'
<1>1. /\ mono' = mono /\ wall' = wall /\ steps' = steps /\ arriving' = arriving
      /\ inHand' = inHand /\ log' = log /\ gone' = gone /\ running' = running
      /\ pc = "wait" /\ pc' = "post" /\ event' = event /\ clip' = clip
      /\ lastRecv' = lastRecv /\ start' = start /\ seen' = seen /\ sound' = sound
      /\ ~ running \/ wall >= EndMs + Grace
  BY DEF WaitIsOver, clocks, ringVars, clipVars, history
<1>2. ClipTypes'
  BY <1>1 DEF ClipInv, ClipTypes, Pick, Stages
<1>3. InStep'
  BY <1>1 DEF ClipInv, InStep
<1>4. ClipHolds'
  BY <1>1 DEF ClipInv, ClipHolds, recv, StartMs, EndMs
<1>5. NothingMissed'
  <2>1. sound /\ steps = 0 => WaitedEnough
    BY <1>1 DEF ClipInv, NothingMissed, InStep, WaitedEnough
  <2> QED
    BY <1>1, <2>1
    DEF ClipInv, NothingMissed, Expired, InClip, StartMs, EndMs, WaitedEnough, CapacityRule
<1> QED
  BY <1>2, <1>3, <1>4, <1>5 DEF ClipInv

(* What a snapshot takes is in the ring, and in range.                      *)
LEMMA RangeIs ==
  ASSUME NEW n, NEW from, NEW to, NEW after
  PROVE  /\ \A i \in InRange(n, from, to, after) :
              /\ i \in n + 1 .. Len(log)
              /\ from <= log[i].recv /\ log[i].recv <= to /\ log[i].recv > after
         /\ \A i \in n + 1 .. Len(log) :
              from <= log[i].recv /\ log[i].recv <= to /\ log[i].recv > after =>
                i \in InRange(n, from, to, after)
BY DEF InRange

LEMMA TakenIsPart ==
  ASSUME NEW range, NEW places \in Taken(range) PROVE places \subseteq range
BY DEF Taken

(* Pruning takes what has expired.                                          *)
LEMMA PrunedExpired ==
  ASSUME ClipInv, sound, NEW n \in gone .. Len(log), Pruned(n), NEW i \in 1 .. n
  PROVE  log[i].stored + RingMs <= mono
<1>1. gone \in Nat /\ Len(log) \in Nat
  BY Logged DEF ClipInv, ClipTypes
<1>2. i \in 1 .. gone \/ i \in gone + 1 .. n
  BY <1>1
<1>3. Expired(i)
  BY <1>2 DEF ClipInv, NothingMissed, Pruned
<1> QED
  BY <1>3 DEF Expired

(* The picks of a snapshot.                                                 *)
LEMMA FromIs ==
  ASSUME NEW snapshot, NEW places
  PROVE  /\ \A x \in From(snapshot, places) : x.snapshot = snapshot /\ x.place \in places
         /\ \A i \in places : \E x \in From(snapshot, places) : x.place = i
<1>1. ASSUME NEW x \in From(snapshot, places)
      PROVE  x.snapshot = snapshot /\ x.place \in places
  <2>1. PICK i \in places : x = [snapshot |-> snapshot, place |-> i]
    BY DEF From
  <2> QED
    BY <2>1
<1>2. ASSUME NEW i \in places PROVE \E x \in From(snapshot, places) : x.place = i
  <2>1. [snapshot |-> snapshot, place |-> i] \in From(snapshot, places)
    BY DEF From
  <2>2. [snapshot |-> snapshot, place |-> i].place = i
    OBVIOUS
  <2> QED
    BY <2>1, <2>2
<1> QED
  BY <1>1, <1>2

LEMMA PreSnapshotKeeps == ASSUME ClipInv, PreSnapshot PROVE ClipInv'
<1>1. /\ mono' = mono /\ wall' = wall /\ steps' = steps /\ arriving' = arriving
      /\ inHand' = inHand /\ log' = log /\ running' = running
      /\ pc = "pre" /\ pc' = "wait" /\ event' = event /\ start' = start
      /\ seen' = Len(log)
  BY DEF PreSnapshot, clocks
<1>2. PICK n \in gone .. Len(log) :
        /\ Pruned(n) /\ gone' = n
        /\ LET range == InRange(n, StartMs, event, -1)
           IN  \/ \E places \in Taken(range) :
                    /\ clip' = From(1, places)
                    /\ sound' = (sound /\ places = range /\ PreOnTime)
                    /\ \/ places = {} /\ lastRecv' = 0
                       \/ \E x \in clip' : Last(x, clip') /\ lastRecv' = recv(x)
               \/ "ring" \in Faults /\ sound' = FALSE /\ UNCHANGED <<clip, lastRecv>>
  BY DEF PreSnapshot
<1> DEFINE range == InRange(n, StartMs, event, -1)
<1>3. /\ clip = {} /\ lastRecv = 0 /\ ClipTypes /\ Len(log) \in Nat
      /\ gone \in 0 .. Len(log) /\ event \in Int /\ mono \in Nat
  BY <1>1, Logged DEF ClipInv, ClipTypes, ClipHolds
<1>4. \A i \in range : /\ i \in n + 1 .. Len(log)
                       /\ StartMs <= log[i].recv /\ log[i].recv <= event /\ log[i].recv > -1
  BY RangeIs
<1>5. \A x \in clip' : x \in Pick /\ x.snapshot = 1 /\ x.place \in range
  <2>1. CASE clip' = clip
    BY <1>3, <2>1
  <2>2. ASSUME NEW places \in Taken(range), clip' = From(1, places)
        PROVE  \A x \in clip' : x \in Pick /\ x.snapshot = 1 /\ x.place \in range
    <3>1. places \subseteq range
      BY TakenIsPart
    <3>2. \A i \in places : i \in 1 .. Len(log)
      BY <1>3, <1>4, <3>1
    <3>3. From(1, places) \subseteq Pick
      BY <3>2 DEF From, Pick
    <3> QED
      BY <2>2, <3>1, <3>3, FromIs
  <2> QED
    BY <1>2, <2>1, <2>2
<1>6. \A x \in clip' : /\ recv(x) \in Int /\ StartMs <= recv(x) /\ recv(x) <= event
                       /\ recv(x)' = recv(x) /\ x.place \in 1 .. Len(log)
  BY <1>1, <1>3, <1>4, <1>5, Logged DEF recv, Pick
<1>7. \/ lastRecv' = 0 /\ clip' = {}
      \/ \E x \in clip' : Last(x, clip') /\ lastRecv' = recv(x)
  <2>1. \A x : x \notin From(1, {})
    BY FromIs
  <2>2. From(1, {}) = {}
    BY <2>1
  <2> QED
    BY <1>2, <1>3, <2>2
<1>8. ClipTypes'
  <2>1. gone' \in 0 .. Len(log') /\ seen' \in 0 .. Len(log')
    BY <1>1, <1>2, <1>3
  <2>2. lastRecv' \in Int
    BY <1>6, <1>7
  <2>3. sound' \in BOOLEAN
    BY <1>2, <1>3 DEF ClipTypes
  <2>4. clip' \subseteq Pick'
    BY <1>1, <1>5 DEF Pick
  <2> QED
    BY <1>1, <1>3, <2>1, <2>2, <2>3, <2>4 DEF ClipTypes, Stages
<1>9. InStep'
  BY <1>1 DEF ClipInv, InStep
<1>10. ClipHolds'
  <2>1. StartMs' = StartMs /\ EndMs' = EndMs
    BY <1>1 DEF StartMs, EndMs
  <2>2. \A x \in clip' : x.snapshot = 1 /\ StartMs' <= recv(x)' /\ recv(x)' <= event'
    BY <1>1, <1>5, <1>6, <2>1
  <2>3. lastRecv' = 0 \/ lastRecv' <= event'
    BY <1>1, <1>6, <1>7
  <2>4. ASSUME steps = 0, NEW x \in clip' PROVE recv(x)' <= lastRecv'
    <3>1. PICK y \in clip' : Last(y, clip') /\ lastRecv' = recv(y)
      BY <1>7
    <3>2. ~ Before(y, x)
      BY <3>1 DEF Last
    <3>3. x.place <= y.place
      <4>1. x.snapshot = 1 /\ y.snapshot = 1 /\ x.place \in Int /\ y.place \in Int
        BY <1>3, <1>5, <1>6
      <4> QED
        BY <3>2, <4>1 DEF Before
    <3>4. recv(x) <= recv(y)
      BY <1>6, <2>4, <3>3, StampedInOrder DEF recv
    <3> QED
      BY <1>6, <3>1, <3>4
  <2>5. \A x \in clip' : x.snapshot # 2
    BY <2>2
  <2> QED
    BY <1>1, <2>2, <2>3, <2>4, <2>5 DEF ClipHolds
<1>11. NothingMissed'
  <2> SUFFICES ASSUME sound' PROVE NothingMissed'
    BY DEF NothingMissed
  <2>1. sound /\ clip' = From(1, range) /\ PreOnTime
    BY <1>2
  <2>2. running' /\ \A i \in 1 .. gone' : Expired(i)'
    <3>1. running
      BY <2>1 DEF ClipInv, NothingMissed
    <3>2. \A i \in 1 .. n : log[i].stored + RingMs <= mono
      BY <1>2, <2>1, PrunedExpired
    <3> QED
      BY <1>1, <1>2, <3>1, <3>2 DEF Expired
  <2>3. ASSUME steps = 0, CapacityRule, NEW i \in 1 .. Len(log),
               StartMs <= log[i].recv, log[i].recv <= event
        PROVE  \E x \in clip' : x.place = i
    <3>1. /\ wall = mono + Epoch /\ event >= Pre /\ log[i].recv <= log[i].stored + Epoch
      BY <1>1, <1>3, <2>3, Logged DEF ClipInv, InStep
    <3>2. log[i].recv \in Int /\ log[i].stored \in Nat
      BY <1>3, Logged
    <3>3. log[i].recv > -1
      BY <1>3, <2>3, <3>1, <3>2, Numbers DEF StartMs
    <3>4. i \notin 1 .. n
      <4>1. SUFFICES ASSUME i \in 1 .. n PROVE FALSE
        OBVIOUS
      <4>2. log[i].stored + RingMs <= mono
        BY <1>2, <2>1, <4>1, PrunedExpired
      <4>3. mono + Epoch <= event + Latency + Margin
        BY <2>1 DEF PreOnTime
      <4>4. RingMs >= Pre + Post + Latency + Margin /\ Post > 0
        BY <2>3 DEF CapacityRule
      <4>5. event - Pre <= log[i].recv
        BY <2>3 DEF StartMs
      <4> QED
        BY <1>3, <3>1, <3>2, <4>2, <4>3, <4>4, <4>5, Numbers
    <3>5. i \in n + 1 .. Len(log)
      BY <1>3, <3>4
    <3>6. i \in range
      BY <2>3, <3>3, <3>5, RangeIs
    <3> QED
      BY <2>1, <3>6, FromIs
  <2>4. ASSUME steps = 0, CapacityRule, NEW i \in 1 .. seen'
        PROVE  (StartMs <= log[i].recv /\ log[i].recv <= event => InClip(i))'
    <3>1. StartMs' = StartMs
      BY <1>1 DEF StartMs
    <3> QED
      BY <1>1, <2>3, <2>4, <3>1 DEF InClip
  <2> QED
    BY <1>1, <2>2, <2>4 DEF NothingMissed, CapacityRule
<1> QED
  BY <1>8, <1>9, <1>10, <1>11 DEF ClipInv

LEMMA PostSnapshotKeeps == ASSUME ClipInv, PostSnapshot PROVE ClipInv'
<1>1. /\ mono' = mono /\ wall' = wall /\ steps' = steps /\ arriving' = arriving
      /\ inHand' = inHand /\ log' = log /\ running' = running
      /\ pc = "post" /\ pc' = "write" /\ event' = event /\ start' = start
      /\ lastRecv' = lastRecv /\ seen' = seen
  BY DEF PostSnapshot, clocks
<1>2. PICK n \in gone .. Len(log) :
        /\ Pruned(n) /\ gone' = n
        /\ LET range == InRange(n, event, EndMs, lastRecv)
           IN  \/ \E places \in Taken(range) :
                    /\ clip' = clip \cup From(2, places)
                    /\ sound' = (sound /\ places = range /\ PostOnTime)
               \/ "ring" \in Faults /\ sound' = FALSE /\ UNCHANGED clip
  BY DEF PostSnapshot
<1> DEFINE range == InRange(n, event, EndMs, lastRecv)
<1>3. /\ ClipTypes /\ Len(log) \in Nat /\ gone \in 0 .. Len(log) /\ seen \in 0 .. Len(log)
      /\ event \in Int /\ mono \in Nat /\ lastRecv \in Int /\ clip \subseteq Pick
  BY <1>1, Logged DEF ClipInv, ClipTypes
<1>4. \A i \in range : /\ i \in n + 1 .. Len(log)
                       /\ event <= log[i].recv /\ log[i].recv <= EndMs
                       /\ log[i].recv > lastRecv
  BY RangeIs
<1>5. \A x \in clip' : x \in Pick /\ (x \in clip \/ (x.snapshot = 2 /\ x.place \in range))
  <2>1. CASE clip' = clip
    BY <1>3, <2>1
  <2>2. ASSUME NEW places \in Taken(range), clip' = clip \cup From(2, places)
        PROVE  \A x \in clip' : x \in Pick /\ (x \in clip \/ (x.snapshot = 2 /\ x.place \in range))
    <3>1. places \subseteq range
      BY TakenIsPart
    <3>2. \A i \in places : i \in 1 .. Len(log)
      BY <1>3, <1>4, <3>1
    <3>3. From(2, places) \subseteq Pick
      BY <3>2 DEF From, Pick
    <3> QED
      BY <1>3, <2>2, <3>1, <3>3, FromIs
  <2> QED
    BY <1>2, <2>1, <2>2
<1>6. clip \subseteq clip'
  BY <1>2
<1>7. \A x \in clip' : /\ recv(x)' = recv(x) /\ recv(x) = log[x.place].recv
                       /\ x.place \in 1 .. Len(log) /\ x.snapshot \in {1, 2}
  BY <1>1, <1>5 DEF recv, Pick
<1>8. \A x \in clip : x.snapshot = 1
  BY <1>1 DEF ClipInv, ClipHolds
<1>9. ClipTypes'
  <2>1. gone' \in 0 .. Len(log') /\ seen' \in 0 .. Len(log')
    BY <1>1, <1>2, <1>3
  <2>2. sound' \in BOOLEAN
    BY <1>2, <1>3 DEF ClipTypes
  <2>3. clip' \subseteq Pick'
    BY <1>1, <1>5 DEF Pick
  <2> QED
    BY <1>1, <1>3, <2>1, <2>2, <2>3 DEF ClipTypes, Stages
<1>10. InStep'
  BY <1>1 DEF ClipInv, InStep
<1>11. ClipHolds'
  <2>1. StartMs' = StartMs /\ EndMs' = EndMs
    BY <1>1 DEF StartMs, EndMs
  <2>2. /\ \A x \in clip : x.snapshot = 1 => StartMs <= recv(x) /\ recv(x) <= event
        /\ steps = 0 => \A x \in clip : x.snapshot = 1 => recv(x) <= lastRecv
        /\ lastRecv = 0 \/ lastRecv <= event
    BY <1>1 DEF ClipInv, ClipHolds
  <2>3. \A x \in clip' : x.snapshot = 1 => x \in clip
    BY <1>5
  <2>4. \A x \in clip' : x.snapshot = 1 => StartMs' <= recv(x)' /\ recv(x)' <= event'
    BY <1>1, <1>7, <2>1, <2>2, <2>3
  <2>5. \A x \in clip' : x.snapshot = 2 =>
          event' <= recv(x)' /\ recv(x)' <= EndMs' /\ recv(x)' > lastRecv'
    BY <1>1, <1>4, <1>5, <1>7, <1>8, <2>1
  <2>6. steps' = 0 => \A x \in clip' : x.snapshot = 1 => recv(x)' <= lastRecv'
    BY <1>1, <1>7, <2>2, <2>3
  <2> QED
    BY <1>1, <2>2, <2>4, <2>5, <2>6 DEF ClipHolds
<1>12. NothingMissed'
  <2> SUFFICES ASSUME sound' PROVE NothingMissed'
    BY DEF NothingMissed
  <2>1. sound /\ clip' = clip \cup From(2, range) /\ PostOnTime
    BY <1>2
  <2>2. running' /\ \A i \in 1 .. gone' : Expired(i)'
    <3>1. running
      BY <2>1 DEF ClipInv, NothingMissed
    <3>2. \A i \in 1 .. n : log[i].stored + RingMs <= mono
      BY <1>2, <2>1, PrunedExpired
    <3> QED
      BY <1>1, <1>2, <3>1, <3>2 DEF Expired
  <2>3. ASSUME steps = 0, CapacityRule, NEW i \in 1 .. Len(log),
               event < log[i].recv, log[i].recv <= EndMs
        PROVE  \E x \in clip' : x.place = i
    <3>1. /\ log[i].recv <= log[i].stored + Epoch /\ event >= Pre
          /\ lastRecv = 0 \/ lastRecv <= event
      BY <1>1, <1>3, <2>3, Logged DEF ClipInv, InStep, ClipHolds
    <3>2. log[i].recv \in Int /\ log[i].stored \in Nat
      BY <1>3, Logged
    <3>3. log[i].recv > lastRecv
      BY <1>3, <2>3, <3>1, <3>2, Numbers
    <3>4. i \notin 1 .. n
      <4>1. SUFFICES ASSUME i \in 1 .. n PROVE FALSE
        OBVIOUS
      <4>2. log[i].stored + RingMs <= mono
        BY <1>2, <2>1, <4>1, PrunedExpired
      <4>3. mono + Epoch <= event + Post + Margin
        BY <2>1 DEF PostOnTime, EndMs
      <4>4. RingMs >= Pre + Post + Latency + Margin
        BY <2>3 DEF CapacityRule
      <4> QED
        BY <1>3, <2>3, <3>1, <3>2, <4>2, <4>3, <4>4, Numbers
    <3>5. i \in n + 1 .. Len(log)
      BY <1>3, <3>4
    <3>6. event <= log[i].recv
      BY <1>3, <2>3, <3>2
    <3>7. i \in range
      BY <2>3, <3>3, <3>5, <3>6, RangeIs
    <3> QED
      BY <2>1, <3>7, FromIs
  <2>4. ASSUME steps = 0, CapacityRule
        PROVE  /\ \A i \in 1 .. seen' :
                    (StartMs <= log[i].recv /\ log[i].recv <= event => InClip(i))'
               /\ WaitedEnough'
               /\ \A i \in DOMAIN log' :
                    (event < log[i].recv /\ log[i].recv <= EndMs =>
                      InClip(i) \/ log[i].stored + Epoch >= EndMs + Grace)'
    <3>1. StartMs' = StartMs /\ EndMs' = EndMs
      BY <1>1 DEF StartMs, EndMs
    <3>2. WaitedEnough /\ WaitedEnough' = WaitedEnough
      BY <1>1, <2>1, <2>4, <3>1 DEF ClipInv, NothingMissed, WaitedEnough
    <3>3. \A i \in 1 .. seen :
            (StartMs <= log[i].recv /\ log[i].recv <= event => InClip(i))'
      <4>1. \A i \in 1 .. seen : StartMs <= log[i].recv /\ log[i].recv <= event => InClip(i)
        BY <1>1, <2>1, <2>4 DEF ClipInv, NothingMissed
      <4>2. \A i : InClip(i) => InClip(i)'
        BY <1>6 DEF InClip
      <4> QED
        BY <1>1, <3>1, <4>1, <4>2
    <3>4. \A i \in DOMAIN log' :
            (event < log[i].recv /\ log[i].recv <= EndMs => InClip(i))'
      BY <1>1, <1>3, <2>3, <2>4, <3>1, Logged DEF InClip
    <3> QED
      BY <1>1, <3>2, <3>3, <3>4
  <2> QED
    BY <1>1, <2>2, <2>4 DEF NothingMissed, CapacityRule
<1> QED
  BY <1>9, <1>10, <1>11, <1>12 DEF ClipInv

LEMMA WriteKeeps == ASSUME ClipInv, Write PROVE ClipInv'
<1>1. /\ mono' = mono /\ wall' = wall /\ steps' = steps /\ arriving' = arriving
      /\ inHand' = inHand /\ log' = log /\ gone' = gone /\ running' = running
      /\ pc = "write" /\ pc' \in {"written", "empty"} /\ event' = event /\ clip' = clip
      /\ lastRecv' = lastRecv /\ seen' = seen /\ sound' = sound
      /\ pc' = "written" => AlignToKeyframe(start')
  BY DEF Write, clocks, ringVars, history
<1>2. ClipTypes'
  BY <1>1 DEF ClipInv, ClipTypes, Pick, Stages
<1>3. InStep'
  BY <1>1 DEF ClipInv, InStep
<1>4. ClipHolds'
  <2>1. StartMs' = StartMs /\ EndMs' = EndMs /\ \A x : recv(x)' = recv(x)
    BY <1>1 DEF StartMs, EndMs, recv
  <2>2. pc' = "written" => AlignToKeyframe(start)'
    BY <1>1, <2>1 DEF AlignToKeyframe, KeysBefore, Keys, First, Last, recv
  <2> QED
    BY <1>1, <2>1, <2>2 DEF ClipInv, ClipHolds
<1>5. NothingMissed'
  BY <1>1
  DEF ClipInv, NothingMissed, Expired, InClip, StartMs, EndMs, WaitedEnough, CapacityRule
<1> QED
  BY <1>2, <1>3, <1>4, <1>5 DEF ClipInv

LEMMA StutterKeeps == ASSUME ClipInv, UNCHANGED vars PROVE ClipInv'
<1>1. /\ mono' = mono /\ wall' = wall /\ steps' = steps /\ arriving' = arriving
      /\ inHand' = inHand /\ log' = log /\ gone' = gone
      /\ running' = running /\ pc' = pc /\ event' = event /\ clip' = clip
      /\ lastRecv' = lastRecv /\ start' = start /\ seen' = seen /\ sound' = sound
  BY DEF vars, clocks, ringVars, clipVars, history
<1>2. ClipTypes'
  BY <1>1 DEF ClipInv, ClipTypes, Pick
<1>3. InStep'
  BY <1>1 DEF ClipInv, InStep
<1>4. ClipHolds'
  BY <1>1
  DEF ClipInv, ClipHolds, recv, StartMs, EndMs, AlignToKeyframe, KeysBefore, Keys, First, Last
<1>5. NothingMissed'
  BY <1>1
  DEF ClipInv, NothingMissed, Expired, InClip, StartMs, EndMs, WaitedEnough, CapacityRule
<1> QED
  BY <1>2, <1>3, <1>4, <1>5 DEF ClipInv

LEMMA ClipInvariant == Spec => []ClipInv
<1>1. Init => ClipInv
  <2> SUFFICES ASSUME Init PROVE ClipInv
    OBVIOUS
  <2>1. log = << >> /\ DOMAIN log = {} /\ Len(log) = 0 /\ log \in Seq(Packet)
    BY DEF Init
  <2>2. ClipTypes
    <3>1. inHand \in [recv : Int, key : BOOLEAN] /\ clip \subseteq Pick
      BY DEF Init, NoPacket
    <3>2. mono \in Nat /\ wall \in Int /\ steps \in Nat /\ event \in Int /\ lastRecv \in Int
      BY Numbers DEF Init
    <3>3. gone \in 0 .. Len(log) /\ seen \in 0 .. Len(log)
      BY <2>1 DEF Init
    <3>4. arriving \in BOOLEAN /\ running \in BOOLEAN /\ sound \in BOOLEAN /\ pc \in Stages
      BY DEF Init, Stages
    <3> QED
      BY <2>1, <3>1, <3>2, <3>3, <3>4 DEF ClipTypes
  <2>3. InStep
    BY <2>1, Numbers DEF Init, InStep
  <2>4. ClipHolds
    BY DEF Init, ClipHolds
  <2>5. NothingMissed
    BY <2>1 DEF Init, NothingMissed
  <2> QED
    BY <2>2, <2>3, <2>4, <2>5 DEF ClipInv
<1>2. ClipInv /\ [Next]_vars => ClipInv'
  <2> SUFFICES ASSUME ClipInv, [Next]_vars PROVE ClipInv'
    OBVIOUS
  <2>1. CASE Tick
    BY <2>1, TickKeeps
  <2>2. CASE SetClock(1) \/ SetClock(-1)
    BY <2>2, SetClockKeeps
  <2>3. ASSUME NEW key \in KeyFrames, Stamp(key) PROVE ClipInv'
    <3>1. key \in BOOLEAN
      BY ClipAssumption
    <3> QED
      BY <2>3, <3>1, StampKeeps
  <2>4. CASE StorePacket
    BY <2>4, StorePacketKeeps
  <2>5. ASSUME NEW frame \in wall - Latency .. wall, Publish(frame) PROVE ClipInv'
    BY <2>5, PublishKeeps
  <2>6. CASE PreSnapshot
    BY <2>6, PreSnapshotKeeps
  <2>7. CASE WaitIsOver
    BY <2>7, WaitIsOverKeeps
  <2>8. CASE PostSnapshot
    BY <2>8, PostSnapshotKeeps
  <2>9. CASE Write
    BY <2>9, WriteKeeps
  <2>10. CASE Stop
    BY <2>10, StopKeeps
  <2>11. CASE UNCHANGED vars
    BY <2>11, StutterKeeps
  <2> QED
    BY <2>1, <2>2, <2>3, <2>4, <2>5, <2>6, <2>7, <2>8, <2>9, <2>10, <2>11
    DEF Next, ClipThread
<1> QED
  BY <1>1, <1>2, PTL DEF Spec

-----------------------------------------------------------------------------
(* What the invariant says of a clip.                                       *)

LEMMA InOrder == ASSUME ClipInv PROVE OnceAndInOrder
<1> SUFFICES ASSUME steps = 0, NEW x \in clip, NEW y \in clip, Before(x, y)
             PROVE  x.place < y.place
  BY DEF OnceAndInOrder
<1>1. /\ x.place \in 1 .. Len(log) /\ y.place \in 1 .. Len(log) /\ Len(log) \in Nat
      /\ x.snapshot \in {1, 2} /\ y.snapshot \in {1, 2}
      /\ recv(x) = log[x.place].recv /\ recv(y) = log[y.place].recv
      /\ recv(x) \in Int /\ recv(y) \in Int /\ lastRecv \in Int
  BY Logged DEF ClipInv, ClipTypes
<1>2. CASE x.snapshot = y.snapshot
  BY <1>1, <1>2 DEF Before
<1>3. CASE x.snapshot = 1 /\ y.snapshot = 2
  <2>1. recv(x) <= lastRecv /\ recv(y) > lastRecv
    BY <1>3 DEF ClipInv, ClipHolds
  <2>2. ~ recv(y) <= recv(x)
    BY <1>1, <2>1
  <2>3. ~ y.place <= x.place
    BY <1>1, <2>2, StampedInOrder
  <2> QED
    BY <1>1, <2>3
<1> QED
  BY <1>1, <1>2, <1>3 DEF Before

LEMMA Complete == ASSUME ClipInv PROVE ClipIsComplete
<1> SUFFICES ASSUME CapacityRule, sound, pc = "written", steps = 0, NEW i \in DOMAIN log,
                    StartMs <= log[i].recv, log[i].recv <= EndMs,
                    ~ LateAtSeam(i), ~ LateAtEnd(i)
             PROVE  InClip(i)
  BY DEF ClipIsComplete
<1>1. /\ i \in 1 .. Len(log) /\ Len(log) \in Nat /\ seen \in 0 .. Len(log)
      /\ log[i].recv \in Int /\ log[i].stored \in Nat /\ event \in Int
  BY Logged DEF ClipInv, ClipTypes
<1>2. CASE log[i].recv <= event
  <2>1. i \in 1 .. seen
    BY <1>1, <1>2 DEF LateAtSeam
  <2> QED
    BY <1>2, <2>1 DEF ClipInv, NothingMissed
<1>3. CASE event < log[i].recv
  <2>1. InClip(i) \/ log[i].stored + Epoch >= EndMs + Grace
    BY <1>3 DEF ClipInv, NothingMissed
  <2>2. ~ log[i].stored + Epoch >= EndMs + Grace
    <3>1. EndMs \in Int
      BY <1>1, Numbers DEF EndMs
    <3>2. ~ log[i].stored + Epoch - log[i].recv >= Grace
      BY DEF LateAtEnd
    <3>3. ASSUME NEW r \in Int, NEW s \in Int, NEW e \in Int,
                 r <= e, ~ s + Epoch - r >= Grace
          PROVE  ~ s + Epoch >= e + Grace
      BY <3>3, Numbers
    <3>4. log[i].stored \in Int /\ log[i].recv <= EndMs
      BY <1>1
    <3> QED
      BY <1>1, <3>1, <3>2, <3>3, <3>4
  <2> QED
    BY <2>1, <2>2
<1> QED
  BY <1>1, <1>2, <1>3

(* Keys before the start of a clip are none, as those are cut off; but at   *)
(* the very start, where align_to_keyframe takes the last of them.          *)
LEMMA KeyFirst == ASSUME ClipInv PROVE StartsWithKey
<1> SUFFICES ASSUME pc = "written" PROVE StartsWithKey
  BY DEF StartsWithKey
<1>1. AlignToKeyframe(start)
  BY DEF ClipInv, ClipHolds
<1>2. KeysBefore \subseteq Keys /\ Keys \subseteq clip
  BY DEF KeysBefore, Keys
<1>3. start \in IF Keys # {} THEN Keys ELSE clip
  BY <1>1, <1>2 DEF AlignToKeyframe, Last, First
<1>4. ASSUME steps = 0, NEW x \in Keys, Before(x, start) PROVE recv(x) = StartMs
  <2>1. x \in clip /\ start \in clip
    BY <1>2, <1>3, <1>4
  <2>2. /\ recv(x) \in Int /\ recv(start) \in Int /\ event \in Int
        /\ recv(x) = log[x.place].recv /\ recv(start) = log[start.place].recv
        /\ x.place \in 1 .. Len(log) /\ start.place \in 1 .. Len(log) /\ Len(log) \in Nat
        /\ x.snapshot \in {1, 2}
    BY <2>1, Logged DEF ClipInv, ClipTypes
  <2>3. StartMs <= recv(x)
    <3>1. StartMs <= event
      BY <2>2, Numbers DEF StartMs
    <3>2. x.snapshot = 1 => StartMs <= recv(x)
      BY <2>1 DEF ClipInv, ClipHolds
    <3>3. x.snapshot = 2 => event <= recv(x)
      BY <2>1 DEF ClipInv, ClipHolds
    <3>4. StartMs \in Int
      BY <2>2, Numbers DEF StartMs
    <3> QED
      BY <2>2, <3>1, <3>2, <3>3, <3>4
  <2>4. Last(start, KeysBefore)
    BY <1>1, <1>4, <2>1 DEF AlignToKeyframe, First
  <2>5. recv(start) <= StartMs
    BY <2>4 DEF Last, KeysBefore
  <2>6. recv(x) <= recv(start)
    <3>1. x.place < start.place
      BY <1>4, <2>1, InOrder DEF OnceAndInOrder
    <3> QED
      BY <1>4, <2>2, <3>1, StampedInOrder
  <2>7. StartMs \in Int
    BY <2>2, Numbers DEF StartMs
  <2> QED
    BY <2>2, <2>3, <2>5, <2>6, <2>7
<1> QED
  BY <1>3, <1>4 DEF StartsWithKey

(* A clip has every packet it should have, each once and in order, and      *)
(* begins with a key frame when it can: for any lengths before and after    *)
(* the event, any ring that README.md:72 allows, and however the stream,    *)
(* the clocks and the clip thread take turns.                               *)
THEOREM ClipIsRightHolds == Spec => []ClipIsRight
<1>1. ClipInv => ClipIsRight
  BY InOrder, Complete, KeyFirst DEF ClipIsRight
<1> QED
  BY <1>1, ClipInvariant, PTL

=============================================================================
