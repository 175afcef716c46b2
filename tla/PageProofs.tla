----------------------------- MODULE PageProofs -----------------------------
(***************************************************************************)
(* Proofs about five parts of the page: dialogs never share a box,         *)
(* whatever is said, clicked and pointed at (ArtDialog); the callbacks of  *)
(* the recorder never multiply its chains of segments, and while no start  *)
(* comes too early there is one, each segment in an upload of its own      *)
(* (AutoRecorder); what is heard is as loud as the window in front was set *)
(* to, for any windows and sounds (AudioRenderer); the page polls in time, *)
(* and never shows an older result after a newer one (DetectOverlay); the  *)
(* player's two threads never wait for each other, and what is drawn is    *)
(* the picture cut to its size (PlayCtrl).                                 *)
(***************************************************************************)
EXTENDS ArtDialog, AutoRecorder, AudioRenderer, DetectOverlay, PlayCtrl,
        FiniteSetTheorems, SequenceTheorems, WellFoundedInduction, TLAPS

(* Dialogs.                                                                *)

(* Records of dialogs, as the methods take and return them.                 *)
Dialogs ==
  [list : [Ids -> Boxes \cup {0}], _box : Boxes \cup {0}, inDocument : SUBSET Boxes,
   count : BOOLEAN, content : [Boxes -> Messages \cup {NoMessage}],
   mouseover : [Boxes -> BOOLEAN], timer : [Boxes -> BOOLEAN]]

(* Open dialogs and the spare box are apart, and are what the page holds.   *)
Apart(d) ==
  /\ d \in Dialogs
  /\ d.list[Tip] = 0 \/ d.list[Tip] # d.list[Preload]
  /\ d._box = 0 \/ (d._box # d.list[Tip] /\ d._box # d.list[Preload])
  /\ d.inDocument = {d.list[Tip], d.list[Preload], d._box} \ {0}

(* What the prompt of d shows.                                              *)
Shows(d, msg) == d.list[Tip] # 0 => d.content[d.list[Tip]] = msg

DialogInv == Apart(dialogs) /\ Shows(dialogs, said) /\ said \in Messages \cup {NoMessage}

LEMMA DialogInitInv == DialogInit => DialogInv
BY DEF DialogInit, DialogInv, NoDialogs, Dialogs, Apart, Shows, Ids, Tip, Preload, Boxes

(* A dialog that is closed, or refuses to, keeps the boxes apart; the       *)
(* other's stays as it is.                                                  *)
LEMMA CloseApart ==
  ASSUME NEW d, Apart(d), NEW id \in Ids
  PROVE  /\ Apart(close(d, id))
         /\ \A other \in Ids \ {id} :
              /\ close(d, id).list[other] = d.list[other]
              /\ d.list[other] # 0 =>
                   close(d, id).content[d.list[other]] = d.content[d.list[other]]
         /\ close(d, id).list[id] # 0 =>
              /\ Refuses(d, id) /\ IsOpen(d, id)
              /\ close(d, id).list = d.list /\ close(d, id).content = d.content
         /\ Refuses(d, id) /\ IsOpen(d, id) => close(d, id).list = d.list
<1> DEFINE b == d.list[id]
           e == close(d, id)
           closed == [time(d, b, FALSE) EXCEPT !.list[id] = 0, !.content[b] = NoMessage,
                                               !.mouseover[b] = FALSE]
<1>1. CASE b = 0
  BY <1>1 DEF close, IsOpen
<1>2. CASE b # 0 /\ Refuses(d, id)
  BY <1>2 DEF close, time, Apart, Dialogs, IsOpen, Ids
<1>3. CASE b # 0 /\ ~ Refuses(d, id)
  <2>1. b \in Boxes /\ d \in Dialogs
    BY <1>3 DEF Apart, Dialogs
  <2>2. e = IF d._box # 0 THEN [closed EXCEPT !.inDocument = @ \ {b}]
            ELSE [closed EXCEPT !._box = b]
    BY <1>3 DEF close
  <2>3. /\ e \in Dialogs
        /\ e.list = [d.list EXCEPT ![id] = 0]
        /\ e.content = [d.content EXCEPT ![b] = NoMessage]
    <3>1. e = [list |-> [d.list EXCEPT ![id] = 0],
               _box |-> IF d._box # 0 THEN d._box ELSE b,
               inDocument |-> IF d._box # 0 THEN d.inDocument \ {b} ELSE d.inDocument,
               count |-> d.count, content |-> [d.content EXCEPT ![b] = NoMessage],
               mouseover |-> [d.mouseover EXCEPT ![b] = FALSE],
               timer |-> [d.timer EXCEPT ![b] = FALSE]]
      BY <2>1, <2>2 DEF time, Dialogs
    <3> HIDE DEF e, closed, b
    <3> QED
      BY <2>1, <3>1 DEF Dialogs
  <2>4. /\ d._box # 0 => e._box = d._box /\ e.inDocument = d.inDocument \ {b}
        /\ d._box = 0 => e._box = b /\ e.inDocument = d.inDocument
    BY <2>1, <2>2 DEF time, Dialogs
  <2> HIDE DEF e, closed
  <2>5. PICK other \in Ids : Ids = {id, other} /\ id # other
    BY DEF Ids, Tip, Preload
  <2>6. /\ e.list[id] = 0 /\ e.list[other] = d.list[other] /\ b # d.list[other]
        /\ {d.list[Tip], d.list[Preload]} = {b, d.list[other]}
        /\ {e.list[Tip], e.list[Preload]} = {0, d.list[other]}
    BY <1>3, <2>1, <2>3, <2>5 DEF Apart, Dialogs, Ids, Tip, Preload
  <2>7. d._box = 0 \/ (d._box # b /\ d._box # d.list[other])
    BY <2>5 DEF Apart, Ids, Tip, Preload
  <2>8. e.inDocument = {e.list[Tip], e.list[Preload], e._box} \ {0}
    BY <2>1, <2>4, <2>6, <2>7 DEF Apart, Boxes
  <2>9. Apart(e)
    BY <2>3, <2>4, <2>5, <2>6, <2>7, <2>8 DEF Apart, Ids, Tip, Preload
  <2>10. d.list[other] # 0 => e.content[d.list[other]] = d.content[d.list[other]]
    BY <2>1, <2>3, <2>6 DEF Dialogs
  <2> QED
    BY <1>3, <2>5, <2>6, <2>9, <2>10 DEF e
<1> QED
  BY <1>1, <1>2, <1>3

(* A new dialog gets the spare box or one that is not in the page.          *)
LEMMA OpenApart ==
  ASSUME NEW d, Apart(d), NEW id \in Ids, NEW msg \in Messages \cup {NoMessage}
  PROVE  /\ Apart(artDialog(d, id, msg))
         /\ IsOpen(d, id) => artDialog(d, id, msg) = d
         /\ ~ IsOpen(d, id) =>
              LET e == artDialog(d, id, msg)
              IN  /\ e.content[e.list[id]] = msg
                  /\ \A other \in Ids \ {id} :
                       /\ e.list[other] = d.list[other]
                       /\ d.list[other] # 0 =>
                            e.content[d.list[other]] = d.content[d.list[other]]
<1>1. CASE IsOpen(d, id)
  BY <1>1 DEF artDialog
<1>2. CASE ~ IsOpen(d, id)
  <2> DEFINE b == IF d._box # 0 THEN d._box ELSE _getDOM(d)
  <2>1. artDialog(d, id, msg) = _init(d, id, b, msg)
    BY <1>2 DEF artDialog
  <2>2. /\ b \in Boxes /\ (d._box = 0 => b \notin d.inDocument)
        /\ \A other \in Ids \ {id} : b # d.list[other]
    <3>1. CASE d._box # 0
      BY <3>1 DEF Apart, Dialogs, Ids, Tip, Preload
    <3>2. CASE d._box = 0
      <4>1. PICK other \in Ids : Ids = {id, other} /\ id # other
        BY DEF Ids, Tip, Preload
      <4>2. d.inDocument = {d.list[other]} \ {0}
        BY <1>2, <3>2, <4>1 DEF Apart, IsOpen, Ids, Tip, Preload
      <4>3. 1 \in Boxes /\ 2 \in Boxes
        BY DialogAssumption DEF Boxes
      <4>4. \E c \in Boxes : c \notin d.inDocument
        BY <4>2, <4>3
      <4>5. b \in Boxes /\ b \notin d.inDocument
        BY <3>2, <4>4 DEF _getDOM
      <4> QED
        BY <4>1, <4>2, <4>5 DEF Boxes
    <3> QED
      BY <3>1, <3>2
  <2> HIDE DEF b
  <2>3. b # 0
    BY <2>2 DEF Boxes
  <2> DEFINE e == artDialog(d, id, msg)
  <2>4. /\ e \in Dialogs /\ e._box = 0
        /\ e.list = [d.list EXCEPT ![id] = b] /\ e.inDocument = d.inDocument \cup {b}
        /\ e.content = [d.content EXCEPT ![b] = msg]
    <3>1. d \in Dialogs
      BY DEF Apart
    <3>2. e = [list |-> [d.list EXCEPT ![id] = b], _box |-> 0,
               inDocument |-> d.inDocument \cup {b}, count |-> TRUE,
               content |-> [d.content EXCEPT ![b] = msg],
               mouseover |-> [d.mouseover EXCEPT ![b] = FALSE],
               timer |-> [d.timer EXCEPT ![b] = TRUE]]
      BY <2>1, <2>2, <3>1 DEF _init, Dialogs
    <3> HIDE DEF e
    <3> QED
      BY <2>2, <3>1, <3>2 DEF Dialogs
  <2> HIDE DEF e
  <2>5. PICK other \in Ids : Ids = {id, other} /\ id # other
    BY DEF Ids, Tip, Preload
  <2>6. /\ e.list[id] = b /\ e.list[other] = d.list[other] /\ b # d.list[other]
        /\ {d.list[Tip], d.list[Preload]} = {0, d.list[other]}
        /\ {e.list[Tip], e.list[Preload]} = {b, d.list[other]}
    BY <1>2, <2>2, <2>4, <2>5 DEF Apart, Dialogs, IsOpen, Ids, Tip, Preload
  <2>7. e.inDocument = {e.list[Tip], e.list[Preload], e._box} \ {0}
    <3>1. d._box = 0 \/ d._box = b
      BY DEF b
    <3> QED
      BY <2>3, <2>4, <2>6, <3>1 DEF Apart
  <2>8. Apart(e)
    BY <2>4, <2>5, <2>6, <2>7 DEF Apart, Ids, Tip, Preload
  <2>9. /\ e.content[e.list[id]] = msg
        /\ d.list[other] # 0 => e.content[d.list[other]] = d.content[d.list[other]]
    BY <2>2, <2>4, <2>6 DEF Apart, Dialogs
  <2> QED
    BY <1>2, <2>5, <2>6, <2>8, <2>9 DEF e
<1> QED
  BY <1>1, <1>2

LEMMA DialogStep == ASSUME DialogInv, [DialogNext]_dialogVars PROVE DialogInv'
<1> USE DEF DialogInv
<1>1. ASSUME NEW msg \in Messages, tip(msg) PROVE DialogInv'
  <2> DEFINE e == close(dialogs, Tip)
  <2>1. Tip \in Ids
    BY DEF Ids
  <2>2. Apart(e) /\ (IsOpen(dialogs, Tip) /\ Refuses(dialogs, Tip) <=> e.list[Tip] # 0)
    BY <2>1, CloseApart DEF IsOpen
  <2>3. dialogs' = artDialog(e, Tip, msg) /\ Apart(dialogs')
    BY <1>1, <2>1, <2>2, OpenApart DEF tip
  <2>4. CASE e.list[Tip] # 0
    <3>1. dialogs' = e /\ said' = said
      BY <1>1, <2>1, <2>2, <2>3, <2>4, OpenApart DEF tip, IsOpen
    <3>2. e.list = dialogs.list /\ e.content = dialogs.content
      BY <2>1, <2>4, CloseApart
    <3> QED
      BY <2>3, <3>1, <3>2 DEF Shows
  <2>5. CASE e.list[Tip] = 0
    <3>1. dialogs'.content[dialogs'.list[Tip]] = msg
      BY <2>1, <2>2, <2>3, <2>5, OpenApart DEF IsOpen
    <3>2. said' = msg
      BY <1>1, <2>2, <2>5 DEF tip
    <3> QED
      BY <2>3, <3>1, <3>2 DEF Shows
  <2> QED
    BY <2>4, <2>5
<1>2. ASSUME NEW id \in Ids, TimerFires(id) PROVE DialogInv'
  BY <1>2, CloseApart DEF TimerFires, _click, Shows, Ids, Tip, Preload
<1>3. CASE MouseOver
  BY <1>3 DEF MouseOver, IsOpen, Apart, Dialogs, Shows
<1>4. CASE MouseOut
  BY <1>4 DEF MouseOut, time, IsOpen, Apart, Dialogs, Shows
<1>5. CASE ClickClose
  <2> DEFINE d == [dialogs EXCEPT !.mouseover[dialogs.list[Tip]] = FALSE]
  <2>1. Apart(d) /\ Shows(d, said)
    BY DEF Apart, Dialogs, Shows
  <2> HIDE DEF d
  <2>2. dialogs' = close(d, Tip) /\ said' = said
    BY <1>5 DEF ClickClose, _click, d
  <2> QED
    BY <2>1, <2>2, CloseApart DEF Shows, Ids
<1>6. CASE Loaded \/ UNCHANGED dialogVars
  BY <1>6 DEF Loaded, dialogVars
<1>7. CASE PreloadImages
  <2>1. CASE dialogs.count
    BY <1>7, <2>1 DEF PreloadImages
  <2>2. CASE ~ dialogs.count
    BY <1>7, <2>2, OpenApart DEF PreloadImages, Shows, IsOpen, Ids, Tip, Preload
  <2> QED
    BY <2>1, <2>2
<1> QED
  BY <1>1, <1>2, <1>3, <1>4, <1>5, <1>6, <1>7 DEF DialogNext, DialogEvents, DialogTimers

(* Recycling boxes, artDialog neither shares one, nor leaves one behind in  *)
(* the page, nor shows in the prompt what something else has left there.    *)
THEOREM BoxesStayApart == DialogSpec => []OneBoxEach
<1>1. DialogInv => OneBoxEach
  BY DEF DialogInv, Apart, Shows, OneBoxEach, IsOpen, Ids, Tip, Preload
<1>2. DialogInv /\ [DialogNext]_dialogVars => DialogInv'
  BY DialogStep
<1> QED
  BY <1>1, <1>2, DialogInitInv, PTL DEF DialogSpec

-----------------------------------------------------------------------------
(* The recorder.                                                           *)

Latest == Len(state)
Active == Latest > 0 /\ state[Latest] # "stopped"
AtWork == Active /\ state[Latest] = "recording"
Phases == {"recording", "stopping", "flushed", "stopped"}

(* Types; the page knows the recorder started last, and its timer.          *)
RecorderTypes ==
  /\ autoOn \in BOOLEAN
  /\ state \in Seq(Phases)
  /\ chunks \in Seq(Nat) /\ uploads \in Seq(Seq(Nat))
  /\ restarts \in Nat /\ overlaps \in Nat
  /\ withData \subseteq Recorders
  /\ recorder = Latest /\ segTimer = Latest

(* A timer is left only for the last recorder and while it records, or      *)
(* there is a recorder that nobody will stop any more.                      *)
TimersAreOwn ==
  \/ segTimers \subseteq {Latest} /\ (segTimers # {} => AtWork)
  \/ \E r \in Recorders : r # Latest /\ state[r] = "recording"

(* No click on start came too early: only the last recorder works, its      *)
(* timer is the one there is, and a restart waits for it to stop.           *)
OnlyTheLast ==
  /\ \A r \in Recorders : r # Latest => state[r] = "stopped"
  /\ segTimers = IF AtWork THEN {Latest} ELSE {}
  /\ restarts <= 1 /\ (restarts = 1 => ~ Active)

(* The chunks are those of the recorder at work, which has handed out its   *)
(* data; the others' are uploaded.                                          *)
OwnChunks ==
  /\ Active => /\ chunks = IF Latest \in withData THEN <<Latest>> ELSE << >>
               /\ Latest \in withData => state[Latest] = "flushed"
  /\ EachIsUploaded

RecorderInv ==
  /\ RecorderTypes /\ ChainsAreCounted /\ TimersAreOwn
  /\ overlaps = 0 => OnlyTheLast /\ OwnChunks

LEMMA RecorderInitInv == RecorderInit => RecorderInv
<1> SUFFICES ASSUME RecorderInit PROVE RecorderInv
  OBVIOUS
<1>1. Latest = 0 /\ ~ Active /\ ~ AtWork /\ Recorders = {}
  BY DEF RecorderInit, Active, AtWork, Latest, Recorders
<1>2. RecorderTypes
  <2>1. << >> \in Seq(Nat) /\ << >> \in Seq(Seq(Nat)) /\ << >> \in Seq(Phases)
    OBVIOUS
  <2> QED
    BY <1>1, <2>1 DEF RecorderInit, RecorderTypes
<1>3. ChainsAreCounted
  <2>1. Recording = {}
    BY <1>1 DEF Recording
  <2>2. Cardinality(Recording) = 0
    BY <2>1, FS_EmptySet
  <2> QED
    BY <2>2 DEF RecorderInit, ChainsAreCounted
<1>4. TimersAreOwn /\ OnlyTheLast
  BY <1>1 DEF RecorderInit, OnlyTheLast, TimersAreOwn
<1>5. OwnChunks
  <2>1. DOMAIN uploads = {}
    BY DEF RecorderInit
  <2> QED
    BY <1>1, <2>1 DEF RecorderInit, OwnChunks, EachIsUploaded
<1> QED
  BY <1>2, <1>3, <1>4, <1>5 DEF RecorderInv

(* A segment is started: a recorder more, with a timer more.                *)
LEMMA Started ==
  ASSUME RecorderTypes, startSegment
  PROVE  /\ Latest \in Nat /\ Latest' = Latest + 1
         /\ state' \in Seq(Phases) /\ state'[Latest + 1] = "recording"
         /\ \A r \in Recorders : state'[r] = state[r] /\ r # Latest + 1
         /\ Recorders' = Recorders \cup {Latest + 1} /\ Latest + 1 \notin Recorders
         /\ recorder' = Latest' /\ segTimer' = Latest' /\ chunks' = << >>
         /\ segTimers' = segTimers \cup {Latest + 1}
         /\ AtWork' /\ Active'
<1>1. /\ state \in Seq(Phases) /\ Latest \in Nat
      /\ state' = Append(state, "recording") /\ "recording" \in Phases
  BY DEF startSegment, RecorderTypes, Latest, Phases
<1>2. /\ Latest' = Latest + 1 /\ state' \in Seq(Phases)
      /\ state'[Latest + 1] = "recording"
      /\ \A r \in 1 .. Latest : state'[r] = state[r]
  BY <1>1 DEF Latest
<1>3. Recorders = 1 .. Latest /\ Recorders' = 1 .. Latest + 1
  BY <1>2 DEF Recorders, Latest
<1>4. Recorders' = Recorders \cup {Latest + 1} /\ Latest + 1 \notin Recorders
  BY <1>1, <1>3
<1>5. AtWork' /\ Active'
  <2>1. Latest' > 0
    BY <1>1, <1>2
  <2>2. state'[Latest'] = "recording"
    BY <1>2
  <2> QED
    BY <2>1, <2>2 DEF AtWork, Active
<1>6. recorder' = Latest' /\ segTimer' = Latest' /\ chunks' = << >>
      /\ segTimers' = segTimers \cup {Latest + 1}
  BY <1>2 DEF startSegment, Latest
<1> QED
  BY <1>1, <1>2, <1>3, <1>4, <1>5, <1>6

(* A recorder moves on, from one phase to the next.                         *)
LEMMA MovesOn ==
  ASSUME RecorderTypes,
         NEW r \in Recorders, NEW s \in Phases, state' = [state EXCEPT ![r] = s]
  PROVE  /\ state' \in Seq(Phases) /\ Latest \in Nat
         /\ Latest' = Latest /\ Recorders' = Recorders
         /\ state'[r] = s /\ \A q \in Recorders : q # r => state'[q] = state[q]
BY DEF RecorderTypes, Recorders, Latest

(* It is nothing to stop() when the last recorder does not record.          *)
LEMMA Stopped ==
  ASSUME RecorderTypes, StopRecorder
  PROVE  /\ AtWork => Latest \in Recorders /\ state' = [state EXCEPT ![Latest] = "stopping"]
         /\ ~ AtWork => state' = state
BY DEF StopRecorder, RecorderTypes, AtWork, Active, Latest, Recorders

LEMMA RecordingIsFinite ==
  ASSUME RecorderTypes PROVE IsFiniteSet(Recording) /\ Cardinality(Recording) \in Nat
<1>1. Recorders = 1 .. Latest /\ Latest \in Nat
  BY DEF RecorderTypes, Recorders, Latest
<1>2. IsFiniteSet(Recorders)
  BY <1>1, FS_Interval
<1>3. Recording \subseteq Recorders
  BY DEF Recording
<1> QED
  BY <1>2, <1>3, FS_Subset, FS_CardinalityType

LEMMA StartCounts ==
  ASSUME RecorderTypes, startSegment
  PROVE  Cardinality(Recording') = Cardinality(Recording) + 1
<1>1. Recording' = Recording \cup {Latest + 1} /\ Latest + 1 \notin Recording
  <2>1. Recording' = {r \in Recorders' : state'[r] # "stopped"}
    BY DEF Recording
  <2> QED
    BY <2>1, Started DEF Recording
<1> QED
  BY <1>1, RecordingIsFinite, FS_AddElement

(* Until its stop is reported a recorder counts.                            *)
LEMMA MoveCounts ==
  ASSUME RecorderTypes,
         NEW r \in Recording, NEW s \in Phases, state' = [state EXCEPT ![r] = s]
  PROVE  Cardinality(Recording') = IF s = "stopped" THEN Cardinality(Recording) - 1
                                                    ELSE Cardinality(Recording)
<1>1. r \in Recorders
  BY DEF Recording
<1>2. Recording' = {q \in Recorders' : state'[q] # "stopped"}
  BY DEF Recording
<1>3. CASE s = "stopped"
  <2>1. Recording' = Recording \ {r}
    BY <1>1, <1>2, <1>3, MovesOn DEF Recording
  <2> QED
    BY <1>3, <2>1, RecordingIsFinite, FS_RemoveElement
<1>4. CASE s # "stopped"
  <2>1. Recording' = Recording
    BY <1>1, <1>2, <1>4, MovesOn DEF Recording
  <2> QED
    BY <1>4, <2>1
<1> QED
  BY <1>3, <1>4

LEMMA TypesStep == RecorderTypes /\ [RecorderNext]_recorderVars => RecorderTypes'
<1> SUFFICES ASSUME RecorderTypes, [RecorderNext]_recorderVars PROVE RecorderTypes'
  OBVIOUS
<1>1. /\ << >> \in Seq(Seq(Nat)) /\ << >> \in Seq(Nat)
      /\ Phases = {"recording", "stopping", "flushed", "stopped"}
  BY DEF Phases
<1>2. CASE ClickStart
  <2>1. overlaps' \in Nat /\ autoOn' \in BOOLEAN /\ restarts' \in Nat
    BY <1>2 DEF ClickStart, RecorderTypes
  <2> QED
    BY <1>1, <1>2, <2>1, Started DEF ClickStart, RecorderTypes
<1>3. CASE ClickStop \/ \E t \in segTimers : SegmentEnds(t)
  <2>1. StopRecorder /\ UNCHANGED <<recorder, chunks, segTimer, restarts, recorderHistory>>
        /\ autoOn' \in BOOLEAN
    BY <1>3 DEF ClickStop, SegmentEnds, RecorderTypes
  <2>2. state' \in Seq(Phases) /\ Latest' = Latest /\ Recorders' = Recorders
    <3>1. CASE AtWork
      BY <1>1, <2>1, <3>1, Stopped, MovesOn
    <3>2. CASE ~ AtWork
      BY <2>1, <3>2, Stopped DEF RecorderTypes, Latest, Recorders
    <3> QED
      BY <3>1, <3>2
  <2> QED
    BY <2>1, <2>2 DEF RecorderTypes, recorderHistory
<1>4. ASSUME NEW r \in Recorders, OnDataAvailable(r) PROVE RecorderTypes'
  <2>1. state' \in Seq(Phases) /\ Latest' = Latest /\ Recorders' = Recorders
    BY <1>1, <1>4, MovesOn DEF OnDataAvailable
  <2>2. chunks' \in Seq(Nat) /\ withData' \subseteq Recorders
    <3>1. r \in Nat /\ chunks \in Seq(Nat) /\ withData \subseteq Recorders
      BY DEF Recorders, RecorderTypes
    <3>2. Append(chunks, r) \in Seq(Nat) /\ withData \cup {r} \subseteq Recorders
      BY <3>1
    <3> QED
      BY <1>4, <3>1, <3>2 DEF OnDataAvailable
  <2> QED
    BY <1>4, <2>1, <2>2 DEF OnDataAvailable, RecorderTypes
<1>5. ASSUME NEW r \in Recorders, OnStop(r) PROVE RecorderTypes'
  <2>1. state' \in Seq(Phases) /\ Latest' = Latest /\ Recorders' = Recorders
    BY <1>1, <1>5, MovesOn DEF OnStop
  <2>2. uploads' \in Seq(Seq(Nat)) /\ restarts' \in Nat
    BY <1>5 DEF OnStop, Upload, RecorderTypes
  <2> QED
    BY <1>5, <2>1, <2>2 DEF OnStop, RecorderTypes
<1>6. CASE RestartSegment
  <2>1. restarts' \in Nat /\ withData' \subseteq Recorders
    BY <1>6 DEF RestartSegment, RecorderTypes, recorderHistory
  <2>2. withData' \subseteq Recorders'
    BY <1>6, <2>1, Started DEF RestartSegment
  <2> QED
    BY <1>1, <1>6, <2>1, <2>2, Started DEF RestartSegment, RecorderTypes, recorderHistory
<1>7. CASE UNCHANGED recorderVars
  BY <1>7 DEF recorderVars, recorderHistory, RecorderTypes, Latest, Recorders
<1> QED
  BY <1>2, <1>3, <1>4, <1>5, <1>6, <1>7 DEF RecorderNext, Callback

(* Only a click makes a chain, and it is counted when it comes too early.   *)
LEMMA CountStep ==
  ASSUME RecorderTypes, ChainsAreCounted, [RecorderNext]_recorderVars PROVE ChainsAreCounted'
<1> USE RecordingIsFinite DEF ChainsAreCounted
<1>1. restarts \in Nat /\ overlaps \in Nat
  BY DEF RecorderTypes
<1>2. CASE ClickStart
  <2>1. Cardinality(Recording') = Cardinality(Recording) + 1 /\ restarts' = restarts
    BY <1>2, StartCounts DEF ClickStart
  <2>2. CASE Unfinished
    BY <1>1, <1>2, <2>1, <2>2 DEF ClickStart
  <2>3. CASE ~ Unfinished
    <3>1. Cardinality(Recording) = 0 /\ restarts = 0 /\ overlaps' = 0
      BY <1>1, <1>2, <2>3, FS_EmptySet DEF ClickStart, Unfinished
    <3> QED
      BY <2>1, <3>1
  <2> QED
    BY <2>2, <2>3
<1>3. CASE ClickStop \/ \E t \in segTimers : SegmentEnds(t)
  <2>1. StopRecorder /\ restarts' = restarts /\ overlaps' = overlaps
    BY <1>3 DEF ClickStop, SegmentEnds, recorderHistory
  <2>2. Cardinality(Recording') = Cardinality(Recording)
    <3>1. CASE AtWork
      <4>1. Latest \in Recording /\ state' = [state EXCEPT ![Latest] = "stopping"]
        BY <2>1, <3>1, Stopped DEF Recording, AtWork
      <4> QED
        BY <4>1, MoveCounts DEF Phases
    <3>2. CASE ~ AtWork
      BY <2>1, <3>2, Stopped DEF Recording, Recorders
    <3> QED
      BY <3>1, <3>2
  <2> QED
    BY <2>1, <2>2
<1>4. ASSUME NEW r \in Recorders, OnDataAvailable(r) PROVE ChainsAreCounted'
  <2>1. r \in Recording /\ state' = [state EXCEPT ![r] = "flushed"]
    BY <1>4 DEF OnDataAvailable, Recording
  <2>2. Cardinality(Recording') = Cardinality(Recording)
    BY <2>1, MoveCounts DEF Phases
  <2> QED
    BY <1>4, <2>2 DEF OnDataAvailable
<1>5. ASSUME NEW r \in Recorders, OnStop(r) PROVE ChainsAreCounted'
  <2>1. r \in Recording /\ state' = [state EXCEPT ![r] = "stopped"]
    BY <1>5 DEF OnStop, Recording
  <2>2. Cardinality(Recording') = Cardinality(Recording) - 1
    BY <2>1, MoveCounts DEF Phases
  <2>3. restarts' <= restarts + 1 /\ restarts' \in Nat /\ overlaps' = overlaps
    BY <1>1, <1>5 DEF OnStop
  <2> QED
    BY <1>1, <2>2, <2>3
<1>6. CASE RestartSegment
  <2>1. Cardinality(Recording') = Cardinality(Recording) + 1
    BY <1>6, StartCounts DEF RestartSegment
  <2>2. restarts' = restarts - 1 /\ overlaps' = overlaps
    BY <1>6 DEF RestartSegment, recorderHistory
  <2> QED
    BY <1>1, <2>1, <2>2
<1>7. CASE UNCHANGED recorderVars
  BY <1>7 DEF recorderVars, recorderHistory, Recording, Recorders
<1> QED
  BY <1>2, <1>3, <1>4, <1>5, <1>6, <1>7 DEF RecorderNext, Callback

(* A timer whose recorder has been left behind leaves a recorder behind.    *)
LEMMA TimersStep ==
  ASSUME RecorderTypes, TimersAreOwn, [RecorderNext]_recorderVars PROVE TimersAreOwn'
<1> DEFINE Orphan == \E r \in Recorders : r # Latest /\ state[r] = "recording"
<1>1. CASE ClickStart \/ RestartSegment
  <2>1. startSegment
    BY <1>1 DEF ClickStart, RestartSegment
  <2>2. CASE segTimers = {}
    BY <2>1, <2>2, Started DEF TimersAreOwn
  <2>3. CASE Orphan
    BY <2>1, <2>3, Started DEF TimersAreOwn
  <2>4. CASE segTimers # {} /\ ~ Orphan
    <3>1. AtWork /\ Latest \in Recorders /\ state[Latest] = "recording"
      BY <2>4 DEF TimersAreOwn, AtWork, Active, Recorders, Latest, RecorderTypes
    <3> QED
      BY <2>1, <3>1, Started DEF TimersAreOwn
  <2> QED
    BY <2>2, <2>3, <2>4
<1>2. CASE ClickStop \/ \E t \in segTimers : SegmentEnds(t)
  <2>1. StopRecorder /\ \E t : (t = segTimer \/ t \in segTimers) /\ segTimers' = segTimers \ {t}
    BY <1>2 DEF ClickStop, SegmentEnds
  <2>2. Latest' = Latest /\ Recorders' = Recorders
        /\ \A q \in Recorders : q # Latest => state'[q] = state[q]
    <3>1. CASE AtWork
      BY <2>1, <3>1, Stopped, MovesOn DEF Phases
    <3>2. CASE ~ AtWork
      BY <2>1, <3>2, Stopped DEF Latest, Recorders
    <3> QED
      BY <3>1, <3>2
  <2>3. CASE Orphan
    BY <2>2, <2>3 DEF TimersAreOwn
  <2>4. CASE ~ Orphan
    <3>1. segTimers' = {}
      BY <2>1, <2>4 DEF TimersAreOwn, RecorderTypes
    <3> QED
      BY <3>1 DEF TimersAreOwn
  <2> QED
    BY <2>3, <2>4
<1>3. ASSUME NEW r \in Recorders, OnDataAvailable(r) \/ OnStop(r) PROVE TimersAreOwn'
  <2>1. PICK s \in Phases :
          state[r] # "recording" /\ state' = [state EXCEPT ![r] = s] /\ segTimers' = segTimers
    BY <1>3 DEF OnDataAvailable, OnStop, Phases
  <2>2. Latest' = Latest /\ Recorders' = Recorders
        /\ \A q \in Recorders : q # r => state'[q] = state[q]
    BY <2>1, MovesOn
  <2>3. CASE Orphan
    BY <2>1, <2>2, <2>3 DEF TimersAreOwn
  <2>4. CASE ~ Orphan /\ segTimers # {}
    <3>1. AtWork /\ segTimers \subseteq {Latest} /\ Latest \in Recorders
      BY <2>4 DEF TimersAreOwn, AtWork, Active, Recorders, Latest, RecorderTypes
    <3>2. AtWork'
      BY <2>1, <2>2, <3>1 DEF AtWork, Active
    <3> QED
      BY <2>1, <2>2, <3>1, <3>2 DEF TimersAreOwn
  <2>5. CASE segTimers = {}
    BY <2>1, <2>5 DEF TimersAreOwn
  <2> QED
    BY <2>3, <2>4, <2>5
<1>4. CASE UNCHANGED recorderVars
  BY <1>4 DEF recorderVars, TimersAreOwn, AtWork, Active, Latest, Recorders
<1> QED
  BY <1>1, <1>2, <1>3, <1>4 DEF RecorderNext, Callback

(* A segment starts when no other is recorded and no timer is left.         *)
LEMMA StartKeeps ==
  ASSUME RecorderTypes, startSegment, restarts' = 0, withData' \subseteq withData,
         \A r \in Recorders : state[r] = "stopped", segTimers = {}
  PROVE  /\ OnlyTheLast'
         /\ Latest' \notin withData' /\ chunks' = << >>
         /\ \A r \in withData' : state'[r] = "stopped"
<1>1. withData' \subseteq Recorders
  BY DEF RecorderTypes
<1>2. segTimers' = {Latest'} /\ AtWork' /\ restarts' <= 1 /\ restarts' # 1
  BY Started
<1>3. \A r \in Recorders' : r # Latest' => state'[r] = "stopped"
  BY Started
<1>4. Latest' \notin withData' /\ chunks' = << >> /\ \A r \in withData' : state'[r] = "stopped"
  BY <1>1, Started
<1> QED
  BY <1>2, <1>3, <1>4 DEF OnlyTheLast

(* A recorder that works is the last one.                                   *)
LEMMA IsLatest ==
  ASSUME RecorderTypes, OnlyTheLast, NEW r \in Recorders, state[r] # "stopped"
  PROVE  r = Latest /\ Active
BY DEF RecorderTypes, OnlyTheLast, Active, Recorders, Latest

LEMMA StopKeeps ==
  ASSUME RecorderTypes, OnlyTheLast, OwnChunks, StopRecorder, segTimers' = {},
         UNCHANGED <<chunks, restarts, recorderHistory>>
  PROVE  OnlyTheLast' /\ OwnChunks'
<1> USE DEF recorderHistory
<1>1. CASE AtWork
  <2>1. Latest \in Recorders /\ state' = [state EXCEPT ![Latest] = "stopping"]
    BY <1>1, Stopped
  <2>2. /\ Latest' = Latest /\ Recorders' = Recorders /\ state'[Latest] = "stopping"
        /\ \A q \in Recorders : q # Latest => state'[q] = state[q]
    BY <2>1, MovesOn DEF Phases
  <2>3. Active' /\ ~ AtWork' /\ state[Latest] = "recording" /\ Active
    BY <1>1, <2>2 DEF AtWork, Active
  <2>4. OnlyTheLast'
    BY <2>2, <2>3 DEF OnlyTheLast
  <2>5. {r \in withData' : state'[r] = "stopped"} = {r \in withData : state[r] = "stopped"}
    BY <2>2, <2>3 DEF RecorderTypes
  <2> QED
    BY <2>2, <2>3, <2>4, <2>5 DEF OwnChunks, EachIsUploaded
<1>2. CASE ~ AtWork
  <2>1. state' = state
    BY <1>2, Stopped
  <2> QED
    BY <1>2, <2>1 DEF OnlyTheLast, OwnChunks, EachIsUploaded, AtWork, Active, Latest, Recorders
<1> QED
  BY <1>1, <1>2

LEMMA OnStopKeeps ==
  ASSUME RecorderTypes, OnlyTheLast, OwnChunks, overlaps = 0, NEW r \in Recorders, OnStop(r)
  PROVE  OnlyTheLast' /\ OwnChunks'
<1>1. r = Latest /\ Active /\ state[Latest] = "flushed" /\ Latest \in Recorders
      /\ state' = [state EXCEPT ![Latest] = "stopped"] /\ withData' = withData /\ chunks' = chunks
  BY IsLatest DEF OnStop
<1>2. /\ Latest \in Nat /\ Latest' = Latest /\ Recorders' = Recorders
      /\ state'[Latest] = "stopped"
      /\ \A q \in Recorders : q # Latest => state'[q] = state[q]
  BY <1>1, MovesOn DEF Phases
<1>3. ~ Active' /\ ~ AtWork' /\ ~ AtWork
  BY <1>1, <1>2 DEF Active, AtWork
<1>4. OnlyTheLast'
  <2>1. segTimers' = {} /\ restarts = 0 /\ restarts' <= 1
    BY <1>1, <1>3 DEF OnStop, OnlyTheLast, RecorderTypes
  <2> QED
    BY <1>2, <1>3, <2>1 DEF OnlyTheLast
<1>5. {q \in withData' : state'[q] = "stopped"} = {q \in withData : state[q] = "stopped"} \cup ({Latest} \cap withData)
  BY <1>1, <1>2 DEF RecorderTypes
<1>6. CASE Latest \notin withData
  <2>1. uploads' = uploads
    BY <1>1, <1>6 DEF OnStop, Upload, OwnChunks
  <2> QED
    BY <1>3, <1>4, <1>5, <1>6, <2>1 DEF OwnChunks, EachIsUploaded
<1>7. CASE Latest \in withData
  <2>1. uploads' = Append(uploads, <<Latest>>)
    BY <1>1, <1>7 DEF OnStop, Upload, OwnChunks
  <2>2. /\ DOMAIN uploads' = DOMAIN uploads \cup {Len(uploads) + 1}
        /\ uploads'[Len(uploads) + 1] = <<Latest>>
        /\ \A i \in DOMAIN uploads : uploads'[i] = uploads[i] /\ i \in Nat /\ i <= Len(uploads)
        /\ Len(uploads) \in Nat
    BY <2>1 DEF RecorderTypes
  <2>3. <<Latest>>[1] = Latest /\ Len(<<Latest>>) = 1
    OBVIOUS
  <2>4. \A i \in DOMAIN uploads : uploads[i][1] < Latest /\ Len(uploads[i]) = 1
    <3>1. \A i \in DOMAIN uploads : uploads[i][1] \in withData /\ state[uploads[i][1]] = "stopped"
      BY DEF OwnChunks, EachIsUploaded
    <3>2. \A q \in withData : q \in Nat /\ q <= Latest
      BY DEF RecorderTypes, Recorders, Latest
    <3>3. \A i \in DOMAIN uploads : uploads[i][1] # Latest
      BY <1>1, <3>1
    <3> QED
      BY <1>2, <3>1, <3>2, <3>3 DEF OwnChunks, EachIsUploaded
  <2>5. \A i \in DOMAIN uploads' : Len(uploads'[i]) = 1
    BY <2>2, <2>3, <2>4
  <2>6. \A i, j \in DOMAIN uploads' : i < j => uploads'[i][1] < uploads'[j][1]
    BY <2>2, <2>3, <2>4 DEF OwnChunks, EachIsUploaded
  <2>7. {uploads'[i][1] : i \in DOMAIN uploads'} = {uploads[i][1] : i \in DOMAIN uploads} \cup {Latest}
    BY <2>2, <2>3
  <2>8. EachIsUploaded'
    BY <1>5, <1>7, <2>5, <2>6, <2>7 DEF OwnChunks, EachIsUploaded
  <2> QED
    BY <1>3, <1>4, <2>8 DEF OwnChunks
<1> QED
  BY <1>6, <1>7

LEMMA InTurnStep ==
  ASSUME RecorderInv, [RecorderNext]_recorderVars, overlaps' = 0
  PROVE  OnlyTheLast' /\ OwnChunks'
<1>1. RecorderTypes /\ RecorderTypes' /\ (overlaps = 0 => OnlyTheLast /\ OwnChunks)
  BY TypesStep DEF RecorderInv
<1>2. CASE ClickStart
  <2>1. ~ Unfinished /\ withData' = {} /\ uploads' = << >> /\ restarts' = restarts /\ startSegment
    BY <1>1, <1>2 DEF ClickStart, RecorderTypes
  <2>2. restarts' = 0 /\ \A r \in Recorders : state[r] = "stopped"
    BY <1>1, <2>1 DEF Unfinished, Recording, RecorderTypes
  <2>3. segTimers = {}
    BY <1>1, <2>2 DEF RecorderInv, TimersAreOwn, AtWork, Active, Recorders, Latest, RecorderTypes
  <2>4. OnlyTheLast' /\ Latest' \notin withData' /\ chunks' = << >>
    BY <1>1, <2>1, <2>2, <2>3, StartKeeps
  <2>5. DOMAIN uploads' = {}
    BY <2>1
  <2>6. EachIsUploaded'
    BY <2>1, <2>5 DEF EachIsUploaded
  <2> QED
    BY <2>4, <2>6 DEF OwnChunks
<1>3. CASE ~ ClickStart
  <2>1. overlaps = 0 /\ OnlyTheLast /\ OwnChunks
    BY <1>1, <1>3 DEF RecorderNext, Callback, ClickStop, SegmentEnds, OnDataAvailable, OnStop,
       RestartSegment, recorderVars, recorderHistory
  <2>2. CASE ClickStop \/ \E t \in segTimers : SegmentEnds(t)
    <3>1. segTimers' = {}
      BY <1>1, <2>1, <2>2 DEF ClickStop, SegmentEnds, OnlyTheLast, RecorderTypes
    <3> QED
      BY <1>1, <2>1, <2>2, <3>1, StopKeeps DEF ClickStop, SegmentEnds
  <2>3. ASSUME NEW r \in Recorders, OnDataAvailable(r) PROVE OnlyTheLast' /\ OwnChunks'
    <3>1. r = Latest /\ Active /\ state[Latest] = "stopping" /\ Latest \in Recorders
          /\ state' = [state EXCEPT ![Latest] = "flushed"]
      BY <1>1, <2>1, <2>3, IsLatest DEF OnDataAvailable
    <3>2. /\ Latest \in Nat /\ Latest' = Latest /\ Recorders' = Recorders
          /\ state'[Latest] = "flushed"
          /\ \A q \in Recorders : q # Latest => state'[q] = state[q]
      BY <1>1, <3>1, MovesOn DEF Phases
    <3>3. Active' /\ ~ AtWork' /\ ~ AtWork /\ Latest \notin withData /\ chunks = << >>
      BY <2>1, <3>1, <3>2 DEF AtWork, Active, OwnChunks
    <3>4. OnlyTheLast'
      <4>1. segTimers' = {} /\ restarts' <= 1 /\ (restarts' = 1 => ~ Active')
        BY <2>1, <2>3, <3>1, <3>3 DEF OnDataAvailable, OnlyTheLast
      <4>2. \A q \in Recorders' : q # Latest' => state'[q] = "stopped"
        BY <2>1, <3>2 DEF OnlyTheLast
      <4> QED
        BY <3>3, <4>1, <4>2 DEF OnlyTheLast
    <3>5. chunks' = IF Latest \in withData' THEN <<Latest>> ELSE << >>
      BY <2>3, <3>1, <3>3 DEF OnDataAvailable
    <3>6. {q \in withData' : state'[q] = "stopped"} = {q \in withData : state[q] = "stopped"}
      BY <1>1, <2>3, <3>1, <3>2 DEF OnDataAvailable, RecorderTypes
    <3>7. EachIsUploaded'
      BY <2>1, <2>3, <3>6 DEF OnDataAvailable, OwnChunks, EachIsUploaded
    <3> QED
      BY <3>2, <3>3, <3>4, <3>5, <3>7 DEF OwnChunks
  <2>4. ASSUME NEW r \in Recorders, OnStop(r) PROVE OnlyTheLast' /\ OwnChunks'
    BY <1>1, <2>1, <2>4, OnStopKeeps
  <2>5. CASE RestartSegment
    <3>1. restarts' = 0 /\ ~ Active /\ startSegment
      BY <1>1, <2>1, <2>5 DEF RestartSegment, OnlyTheLast, RecorderTypes
    <3>2. segTimers = {} /\ \A r \in Recorders : state[r] = "stopped"
      BY <2>1, <3>1 DEF OnlyTheLast, AtWork, Active, Recorders, Latest
    <3>3. uploads' = uploads /\ withData' = withData
      BY <2>5 DEF RestartSegment, recorderHistory
    <3>4. /\ OnlyTheLast' /\ Latest' \notin withData' /\ chunks' = << >>
          /\ \A r \in withData' : state'[r] = "stopped"
      BY <1>1, <3>1, <3>2, <3>3, StartKeeps
    <3>5. {r \in withData' : state'[r] = "stopped"} = {r \in withData : state[r] = "stopped"}
      BY <1>1, <3>2, <3>3, <3>4 DEF RecorderTypes
    <3>6. EachIsUploaded'
      BY <2>1, <3>3, <3>5 DEF OwnChunks, EachIsUploaded
    <3> QED
      BY <3>4, <3>6 DEF OwnChunks
  <2>6. CASE UNCHANGED recorderVars
    BY <2>1, <2>6 DEF recorderVars, recorderHistory, OnlyTheLast, OwnChunks, EachIsUploaded,
       AtWork, Active, Latest, Recorders
  <2> QED
    BY <1>3, <2>2, <2>3, <2>4, <2>5, <2>6 DEF RecorderNext, Callback
<1> QED
  BY <1>2, <1>3

(* Callbacks and timers that share their variables never multiply the       *)
(* chains, whenever the user clicks; and from a start at rest on, until a   *)
(* click on start comes too early, every segment is recorded alone, ended   *)
(* by its own timer or the user, and uploaded once, alone and in order.     *)
THEOREM OneByOne == RecorderSpec => []RecordsInTurn
<1>1. ASSUME RecorderInv PROVE RecordsInTurn
  <2>1. ASSUME overlaps = 0 PROVE EachHasItsTimer
    <3>1. Recorders = 1 .. Latest /\ Latest \in Nat
      BY <1>1 DEF RecorderInv, RecorderTypes, Recorders, Latest
    <3> QED
      BY <1>1, <2>1, <3>1 DEF RecorderInv, OnlyTheLast, EachHasItsTimer, AtWork, Active
  <2> QED
    BY <1>1, <2>1 DEF RecorderInv, OwnChunks, RecordsInTurn
<1>2. RecorderInv /\ [RecorderNext]_recorderVars => RecorderInv'
  BY TypesStep, CountStep, TimersStep, InTurnStep DEF RecorderInv
<1> QED
  BY <1>1, <1>2, RecorderInitInv, PTL DEF RecorderSpec

-----------------------------------------------------------------------------
(* Sound.                                                                  *)

(* The variables have their types, the gain node in use is connected, and   *)
(* the volume in use is that of the window in front.                        *)
AudioTypeOK ==
  /\ iWndNum \in Windows \cup {NoWindow}
  /\ mVolumes \in [Windows \cup {NoWindow} -> Volumes \cup {NotSet}]
  /\ pieces \in 0 .. MaxSounds /\ decoding \subseteq Nodes
  /\ gainNode \in 0 .. MaxSounds
  /\ DOMAIN gain = Nodes /\ gain = [n \in Nodes |-> gain[n]]
  /\ sounds \in [Nodes -> 0 .. MaxSounds]

AudioInv ==
  /\ AudioTypeOK
  /\ gainNode # 0 => gainNode \in connected
  /\ currentVolume = GetVolume

LEMMA AudioInitInv == AudioInit => AudioInv
BY AudioAssumption DEF AudioInit, AudioInv, AudioTypeOK, Nodes, GetVolume, VolumeOf

(* A sound that begins uses the gain node in use then.                      *)
LEMMA DecodedGains ==
  ASSUME AudioInv, Decoded
  PROVE  /\ gainNode' \in Nodes /\ gainNode' \in connected'
         /\ gain' = [gain EXCEPT ![gainNode'] = currentVolume]
         /\ \E p \in Nodes : sounds' = [sounds EXCEPT ![p] = gainNode']
<1>1. PICK p \in decoding :
        /\ gainNode' = IF gainNode = 0 \/ bSetVolume THEN p ELSE gainNode
        /\ sounds' = [sounds EXCEPT ![p] = gainNode']
  BY DEF Decoded
<1>2. gainNode' \in Nodes
  BY <1>1, AudioAssumption DEF AudioInv, AudioTypeOK, Nodes
<1> QED
  BY <1>1, <1>2 DEF Decoded, AudioInv, AudioTypeOK

LEMMA AudioStep == ASSUME AudioInv, [AudioNext]_audioVars PROVE AudioInv'
<1> USE AudioAssumption DEF AudioInv, AudioTypeOK, GetVolume, VolumeOf
<1>1. CASE Play
  BY <1>1 DEF Play, Nodes
<1>2. CASE Decoded
  <2>1. AudioTypeOK'
    <3>1. decoding' \subseteq Nodes
      BY <1>2 DEF Decoded
    <3>2. gainNode' \in 0 .. MaxSounds
      BY <1>2, DecodedGains DEF Nodes
    <3>3. sounds' \in [Nodes -> 0 .. MaxSounds]
      BY <1>2, <3>2, DecodedGains
    <3>4. DOMAIN gain' = Nodes /\ gain' = [n \in Nodes |-> gain'[n]]
      BY <1>2, DecodedGains
    <3> QED
      BY <1>2, <3>1, <3>2, <3>3, <3>4 DEF Decoded
  <2> QED
    BY <1>2, <2>1, DecodedGains DEF Decoded
<1>3. CASE DecodeError \/ UNCHANGED audioVars
  BY <1>3 DEF DecodeError, audioVars
<1>4. CASE SoundEnds
  BY <1>4 DEF SoundEnds
<1>5. CASE Stop
  BY <1>5 DEF Stop
<1>6. ASSUME NEW v \in Volumes, SetVolume(v) PROVE AudioInv'
  BY <1>6 DEF SetVolume
<1>7. ASSUME NEW w \in Windows, SetWndNum(w) PROVE AudioInv'
  BY <1>7 DEF SetWndNum
<1> QED
  BY <1>1, <1>2, <1>3, <1>4, <1>5, <1>6, <1>7 DEF AudioNext

(* A sound begins as loud as GetVolume says for the window in front, and no *)
(* sound that plays through the gain node in use is cut off before Stop.    *)
THEOREM SoundsAreHeard == AudioSpec => HeardAsSet
<1> DEFINE Heard(p) ==
      /\ sounds[p] = 0 /\ sounds'[p] # 0 =>
           sounds'[p] \in connected' /\ gain'[sounds'[p]] = GetVolume'
      /\ sounds'[p] # 0 /\ sounds'[p] = gainNode' => gainNode' \in connected'
<1>1. ASSUME AudioInv, AudioInv', [AudioNext]_audioVars, NEW p \in Nodes
      PROVE  Heard(p)
  <2>1. sounds'[p] # 0 /\ sounds'[p] = gainNode' => gainNode' \in connected'
    BY <1>1 DEF AudioInv
  <2>2. CASE Decoded
    <3>1. gain'[gainNode'] = GetVolume'
      BY <1>1, <2>2, DecodedGains DEF AudioInv, AudioTypeOK, Decoded
    <3>2. sounds'[p] = sounds[p] \/ sounds'[p] = gainNode'
      BY <1>1, <2>2, DecodedGains DEF AudioInv, AudioTypeOK
    <3> QED
      BY <1>1, <2>1, <2>2, <3>1, <3>2, DecodedGains
  <2>3. CASE ~ Decoded
    <3>1. sounds'[p] = sounds[p] \/ sounds'[p] = 0
      BY <1>1, <2>3 DEF AudioInv, AudioTypeOK, AudioNext, Play, DecodeError, SoundEnds, Stop,
         SetVolume, SetWndNum, audioVars
    <3> QED
      BY <2>1, <3>1
  <2> QED
    BY <2>2, <2>3
<1>2. AudioInv /\ AudioInv' /\ [AudioNext]_audioVars => \A p \in Nodes : Heard(p)
  BY <1>1
<1>3. AudioInv /\ [AudioNext]_audioVars => AudioInv'
  BY AudioStep
<1> QED
  BY <1>2, <1>3, AudioInitInv, PTL DEF AudioSpec, HeardAsSet

-----------------------------------------------------------------------------
(* The overlay.                                                            *)

(* The types, tied to nothing but the constants that the code names.        *)
Result == [run : Nat, seq : Nat]
Outcome == [run : Nat, seq : Nat, found : BOOLEAN]
Request == [waited : 0 .. MaxSettle, answer : Outcome]
OverlayTypes ==
  /\ snapshot \in Outcome
  /\ page \in {"loading", "live", "unloading"} /\ enabled \in BOOLEAN
  /\ timers \in Seq(0 .. POLL_MS)
  /\ requests \in Seq(Request)
  /\ lastSeq \in Int /\ failures \in 0 .. 3 /\ sinceOk \in 0 .. MaxAge
  /\ boxes \in Result /\ newest \in Result /\ canvas \in {Nothing, boxes}

(* One timer or one request; what a page that unloads still has under way   *)
(* starts nothing new.                                                      *)
OnePoll ==
  /\ SelfPacing
  /\ page # "live" => timers = << >> /\ Len(requests) <= 1
  /\ page = "loading" => requests = << >>

(* Boxes that are still held were confirmed in time, or the poll that looks *)
(* at them comes in time.                                                   *)
ConfirmedInTime ==
  page = "live" /\ boxes # Nothing =>
    /\ \A i \in DOMAIN timers : sinceOk + timers[i] <= STALE_MS + POLL_MS + MaxSettle
    /\ \A i \in DOMAIN requests : sinceOk <= STALE_MS + requests[i].waited

(* What is drawn, held, under way and on the device is ever newer.          *)
NewsInOrder ==
  /\ boxes # Nothing => ~ Later(newest, boxes)
  /\ ~ Later(newest, snapshot) /\ ~ Later(boxes, snapshot)
  /\ \A i \in DOMAIN requests : requests[i].answer # NoAnswer =>
       /\ ~ Later(newest, requests[i].answer) /\ ~ Later(boxes, requests[i].answer)
       /\ ~ Later(requests[i].answer, snapshot)

OverlayInv == OverlayTypes /\ OnePoll /\ ConfirmedInTime /\ NewsInOrder

-----------------------------------------------------------------------------
(* Lemmas about sequences of at most one element and about what is newer.   *)

LEMMA NoneLeft ==
  ASSUME NEW S, NEW s \in Seq(S), Len(s) <= 1, NEW i \in DOMAIN s
  PROVE  i = 1 /\ Len(s) = 1 /\ s = <<s[1]>> /\ s[1] \in S /\ RemoveAt(s, i) = << >>
<1>1. i = 1 /\ Len(s) = 1
  <2>1. Len(s) \in Nat /\ DOMAIN s = 1 .. Len(s)
    BY LenProperties
  <2> QED
    BY <2>1
<1>2. SubSeq(s, 1, 0) = << >> /\ SubSeq(s, 2, 1) = << >>
  OBVIOUS
<1>3. RemoveAt(s, i) = << >>
  BY <1>1, <1>2 DEF RemoveAt
<1>4. s = <<s[1]>> /\ s[1] \in S
  <2>1. s[1] \in S
    BY <1>1, ElementOfSeq
  <2>2. <<s[1]>> \in Seq(S) /\ Len(<<s[1]>>) = 1 /\ <<s[1]>>[1] = s[1]
    BY <2>1
  <2>3. \A k \in 1 .. Len(s) : s[k] = <<s[1]>>[k]
    BY <1>1, <2>2
  <2> QED
    BY <1>1, <2>1, <2>2, <2>3, SeqEqual
<1> QED
  BY <1>1, <1>3, <1>4

LEMMA NewsOrdered ==
  ASSUME NEW a, NEW b, NEW d,
         {a.run, a.seq, b.run, b.seq, d.run, d.seq} \subseteq Nat,
         ~ Later(a, b), ~ Later(b, d)
  PROVE  ~ Later(a, d)
BY DEF Later

LEMMA NothingIsOld ==
  ASSUME NEW a, {a.run, a.seq} \subseteq Nat
  PROVE  ~ Later(Nothing, a) /\ Nothing \in Result /\ ~ Later(a, a)
BY DEF Later, Nothing, Result

(* What a callback that ends a poll or a request leaves: one timer when the *)
(* page is live, and none else.                                             *)
LEMMA Scheduled ==
  /\ schedule(<< >>) \in Seq(0 .. POLL_MS)
  /\ page = "live" => Len(schedule(<< >>)) = 1 /\ schedule(<< >>)[1] = POLL_MS
  /\ page # "live" => schedule(<< >>) = << >>
<1>1. POLL_MS \in 0 .. POLL_MS
  BY OverlayAssumption
<1>2. Append(<< >>, POLL_MS) = <<POLL_MS>>
  BY <1>1
<1>3. <<POLL_MS>> \in Seq(0 .. POLL_MS) /\ << >> \in Seq(0 .. POLL_MS)
  BY <1>1
<1>4. CASE page = "live"
  <2>1. schedule(<< >>) = <<POLL_MS>>
    BY <1>2, <1>4 DEF schedule
  <2> QED
    <3>1. Len(<<POLL_MS>>) = 1 /\ <<POLL_MS>>[1] = POLL_MS
      OBVIOUS
    <3> QED
      BY <1>3, <1>4, <2>1, <3>1
<1>5. CASE page # "live"
  BY <1>3, <1>5 DEF schedule
<1> QED
  BY <1>4, <1>5

(* Elements of the two sequences.                                           *)
LEMMA UnderWay ==
  ASSUME OverlayTypes
  PROVE  /\ Len(requests) \in Nat /\ DOMAIN requests = 1 .. Len(requests)
         /\ \A k \in DOMAIN requests :
              /\ requests[k] \in Request /\ requests[k].answer \in Outcome
              /\ requests[k].waited \in 0 .. MaxSettle
         /\ Len(timers) \in Nat /\ DOMAIN timers = 1 .. Len(timers)
         /\ \A k \in DOMAIN timers : timers[k] \in 0 .. POLL_MS
<1>1. requests \in Seq(Request) /\ timers \in Seq(0 .. POLL_MS)
  BY DEF OverlayTypes
<1>2. /\ Len(requests) \in Nat /\ DOMAIN requests = 1 .. Len(requests)
      /\ Len(timers) \in Nat /\ DOMAIN timers = 1 .. Len(timers)
  BY <1>1, LenProperties
<1>3. \A k \in DOMAIN requests : requests[k] \in Request
  BY <1>1, <1>2, ElementOfSeq
<1>4. \A k \in DOMAIN timers : timers[k] \in 0 .. POLL_MS
  BY <1>1, <1>2, ElementOfSeq
<1>5. \A r \in Request : r.answer \in Outcome /\ r.waited \in 0 .. MaxSettle
  BY DEF Request
<1> QED
  BY <1>2, <1>3, <1>4, <1>5

(* Of the numbers that are compared with the age of the boxes.              *)
LEMMA AgesAreNumbers ==
  /\ POLL_MS \in Nat \ {0} /\ STALE_MS \in Nat /\ MaxSettle \in Nat /\ MaxAge \in Nat
  /\ STALE_MS + POLL_MS + MaxSettle <= MaxAge
BY OverlayAssumption DEF MaxAge

-----------------------------------------------------------------------------
(* Steps of the device.                                                     *)

LEMMA DeviceKeeps ==
  ASSUME OverlayInv, Publish \/ DeviceRestarts
  PROVE  OverlayInv'
<1>1. snapshot' \in Outcome /\ ~ Later(snapshot, snapshot') /\ UNCHANGED pageVars
  <2>1. snapshot \in Outcome
    BY DEF OverlayInv, OverlayTypes
  <2>2. CASE Publish
    <3>1. PICK found \in BOOLEAN :
            snapshot' = [snapshot EXCEPT !.seq = @ + 1, !.found = found]
      BY <2>2 DEF Publish
    <3>2. snapshot' = [run |-> snapshot.run, seq |-> snapshot.seq + 1, found |-> found]
      BY <2>1, <3>1 DEF Outcome
    <3> QED
      <4>1. snapshot.run \in Nat /\ snapshot.seq \in Nat
        BY <2>1 DEF Outcome
      <4>2. snapshot' \in Outcome
        BY <3>2, <4>1 DEF Outcome
      <4>3. snapshot'.run = snapshot.run /\ snapshot'.seq = snapshot.seq + 1
        BY <3>2
      <4>4. ~ Later(snapshot, snapshot')
        BY <4>1, <4>3 DEF Later
      <4> QED
        BY <2>2, <4>2, <4>4 DEF Publish
  <2>3. CASE DeviceRestarts
    BY <2>1, <2>3 DEF DeviceRestarts, Outcome, Later
  <2> QED
    BY <2>2, <2>3
<1>2. OverlayTypes'
  BY <1>1 DEF OverlayInv, OverlayTypes, pageVars
<1>3. OnePoll' /\ ConfirmedInTime'
  BY <1>1 DEF OverlayInv, OnePoll, SelfPacing, ConfirmedInTime, pageVars
<1>4. \A a : {a.run, a.seq} \subseteq Nat /\ ~ Later(a, snapshot) => ~ Later(a, snapshot')
  BY <1>1, NewsOrdered DEF OverlayInv, OverlayTypes, Outcome
<1>5. newest \in Result /\ boxes \in Result
  BY DEF OverlayInv, OverlayTypes
<1>6. \A i \in DOMAIN requests : requests[i].answer \in Outcome
  BY UnderWay DEF OverlayInv
<1>7. NewsInOrder'
  <2>1. ~ Later(newest, snapshot') /\ ~ Later(boxes, snapshot')
    BY <1>4, <1>5 DEF OverlayInv, NewsInOrder, Result
  <2>2. \A i \in DOMAIN requests : requests[i].answer # NoAnswer =>
          ~ Later(requests[i].answer, snapshot')
    BY <1>4, <1>6 DEF OverlayInv, NewsInOrder, Outcome
  <2> QED
    BY <1>1, <2>1, <2>2 DEF OverlayInv, NewsInOrder, pageVars
<1> QED
  BY <1>2, <1>3, <1>7 DEF OverlayInv

LEMMA AnswerKeeps ==
  ASSUME OverlayInv, NEW i \in DOMAIN requests, Answer(i)
  PROVE  OverlayInv'
<1>1. /\ requests' = [requests EXCEPT ![i].answer = snapshot]
      /\ UNCHANGED <<snapshot, page, enabled, timers, lastSeq, failures, sinceOk, boxes, canvas,
                     newest>>
  BY DEF Answer
<1>2. /\ requests \in Seq(Request) /\ snapshot \in Outcome
  BY DEF OverlayInv, OverlayTypes
<1>3. /\ requests' \in Seq(Request)
      /\ Len(requests') = Len(requests) /\ DOMAIN requests' = DOMAIN requests
      /\ \A k \in DOMAIN requests : requests'[k].waited = requests[k].waited
      /\ \A k \in DOMAIN requests : requests'[k].answer \in {snapshot, requests[k].answer}
  <2>1. \A k \in DOMAIN requests : requests[k] \in Request
    BY UnderWay DEF OverlayInv
  <2>2. \A k \in DOMAIN requests :
          requests'[k] = IF k = i THEN [requests[k] EXCEPT !.answer = snapshot] ELSE requests[k]
    BY <1>1, <1>2
  <2>3. \A k \in DOMAIN requests :
          /\ requests'[k] \in Request
          /\ requests'[k].waited = requests[k].waited
          /\ requests'[k].answer \in {snapshot, requests[k].answer}
    BY <1>2, <2>1, <2>2 DEF Request
  <2>4. /\ requests' \in Seq(Request)
        /\ Len(requests') = Len(requests) /\ DOMAIN requests' = DOMAIN requests
    <3>1. [requests[i] EXCEPT !.answer = snapshot] \in Request
      BY <1>2, <2>1 DEF Request
    <3> QED
      BY <1>1, <1>2, <3>1, ExceptSeq
  <2> QED
    BY <2>3, <2>4
<1>4. OverlayTypes'
  BY <1>1, <1>3 DEF OverlayInv, OverlayTypes
<1>5. OnePoll'
  <2>1. requests = << >> => requests' = << >>
    BY <1>1
  <2> QED
    BY <1>1, <1>3, <2>1 DEF OverlayInv, OnePoll, SelfPacing
<1>6. ConfirmedInTime'
  BY <1>1, <1>3 DEF OverlayInv, ConfirmedInTime
<1>7. NewsInOrder'
  <2>1. ~ Later(snapshot, snapshot)
    BY <1>2, NothingIsOld DEF Outcome
  <2> QED
    BY <1>1, <1>3, <2>1 DEF OverlayInv, NewsInOrder
<1> QED
  BY <1>4, <1>5, <1>6, <1>7 DEF OverlayInv

-----------------------------------------------------------------------------
(* Callbacks of the page.                                                   *)

(* A step after which no request and at most the next timer is left.        *)
LEMMA Settled ==
  ASSUME OverlayInv, page' = page, page # "loading",
         requests' = << >>, timers' = schedule(<< >>)
  PROVE  /\ OnePoll'
         /\ timers' \in Seq(0 .. POLL_MS) /\ requests' \in Seq(Request)
         /\ \A k \in DOMAIN timers' : page = "live" /\ timers'[k] = POLL_MS
<1>1. /\ timers' \in Seq(0 .. POLL_MS)
      /\ page = "live" => Len(timers') = 1 /\ timers'[1] = POLL_MS
      /\ page # "live" => timers' = << >>
  BY Scheduled
<1>2. requests' \in Seq(Request) /\ Len(requests') = 0
  OBVIOUS
<1>3. OnePoll'
  BY <1>1, <1>2 DEF OnePoll, SelfPacing
<1>4. \A k \in DOMAIN timers' : page = "live" /\ timers'[k] = POLL_MS
  <2>1. CASE page = "live"
    <3>1. DOMAIN timers' = 1 .. 1
      BY <1>1, <2>1, LenProperties
    <3> QED
      BY <1>1, <2>1, <3>1
  <2>2. CASE page # "live"
    BY <1>1, <2>2
  <2> QED
    BY <2>1, <2>2
<1> QED
  BY <1>1, <1>2, <1>3, <1>4

(* A change of the boxes that is drawn.                                     *)
LEMMA DrawKeeps ==
  ASSUME OverlayInv, NEW r \in Result, Draw(r), snapshot' = snapshot,
         r # Nothing => ~ Later(newest, r), ~ Later(r, snapshot)
  PROVE  /\ boxes' = r /\ newest' \in {newest, r} /\ newest' \in Result
         /\ canvas' \in {Nothing, boxes'}
         /\ boxes' # Nothing => ~ Later(newest', boxes')
         /\ ~ Later(newest', snapshot') /\ ~ Later(boxes', snapshot')
<1>1. /\ boxes' = r
      /\ canvas' = IF enabled THEN r ELSE Nothing
      /\ newest' = IF enabled /\ r # Nothing THEN r ELSE newest
  BY DEF Draw
<1>2. newest \in Result /\ ~ Later(newest, snapshot)
  BY DEF OverlayInv, OverlayTypes, NewsInOrder
<1>3. ~ Later(r, r)
  BY NothingIsOld DEF Result
<1> QED
  BY <1>1, <1>2, <1>3

(* A callback that leaves the boxes alone.                                  *)
LEMMA KeepKeeps ==
  ASSUME OverlayInv, Keep, snapshot' = snapshot
  PROVE  /\ boxes' = boxes /\ newest' = newest /\ newest' \in Result
         /\ canvas' \in {Nothing, boxes'}
         /\ boxes' # Nothing => ~ Later(newest', boxes')
         /\ ~ Later(newest', snapshot') /\ ~ Later(boxes', snapshot')
BY DEF OverlayInv, OverlayTypes, NewsInOrder, Keep

LEMMA OldBoxesHidden ==
  ASSUME OverlayInv, hideStaleBoxes, UNCHANGED <<snapshot, sinceOk>>
  PROVE  /\ boxes' \in {Nothing, boxes} /\ boxes' \in Result
         /\ newest' = newest /\ newest' \in Result
         /\ canvas' \in {Nothing, boxes'}
         /\ boxes' # Nothing => ~ Later(newest', boxes') /\ sinceOk' <= STALE_MS
         /\ ~ Later(newest', snapshot') /\ ~ Later(boxes', snapshot')
<1>1. boxes \in Result /\ snapshot \in Outcome /\ sinceOk \in Int /\ STALE_MS \in Int
  BY AgesAreNumbers DEF OverlayInv, OverlayTypes
<1>2. CASE boxes # Nothing /\ sinceOk > STALE_MS
  <2>1. Draw(Nothing)
    BY <1>2 DEF hideStaleBoxes
  <2>2. Nothing \in Result /\ ~ Later(Nothing, snapshot)
    BY <1>1, NothingIsOld DEF Outcome
  <2> QED
    BY <2>1, <2>2, DrawKeeps DEF Draw
<1>3. CASE ~ (boxes # Nothing /\ sinceOk > STALE_MS)
  <2>1. Keep
    BY <1>3 DEF hideStaleBoxes
  <2>2. boxes # Nothing => sinceOk <= STALE_MS
    BY <1>1, <1>3
  <2> QED
    BY <1>1, <2>1, <2>2, KeepKeeps
<1> QED
  BY <1>2, <1>3

LEMMA PollKeeps ==
  ASSUME OverlayInv, NEW i \in DOMAIN timers, poll(i)
  PROVE  OverlayInv'
<1>1. /\ timers \in Seq(0 .. POLL_MS) /\ requests \in Seq(Request)
      /\ boxes \in Result /\ newest \in Result /\ sinceOk \in 0 .. MaxAge
  BY DEF OverlayInv, OverlayTypes
<1>2. page = "live" /\ Len(timers) = 1 /\ requests = << >>
  <2>1. Len(timers) \in Nat /\ DOMAIN timers = 1 .. Len(timers) /\ Len(requests) \in Nat
    BY UnderWay DEF OverlayInv
  <2>2. timers # << >>
    BY <2>1
  <2>3. page = "live"
    BY <2>2 DEF OverlayInv, OnePoll
  <2>4. Len(timers) = 1 /\ Len(requests) = 0
    BY <2>1, <2>3 DEF OverlayInv, OnePoll, SelfPacing
  <2> QED
    BY <1>1, <2>3, <2>4, EmptySeq
<1>3. RemoveAt(timers, i) = << >>
  <2>1. Len(timers) <= 1
    BY <1>2
  <2> QED
    BY <1>1, <2>1, NoneLeft
<1>4. /\ hideStaleBoxes
      /\ UNCHANGED <<snapshot, page, enabled, lastSeq, failures, sinceOk>>
      /\ \/ timers' = schedule(<< >>) /\ requests' = << >>
         \/ /\ timers' = << >>
            /\ requests' = <<[waited |-> 0, answer |-> NoAnswer]>>
  <2>1. Append(<< >>, [waited |-> 0, answer |-> NoAnswer]) = <<[waited |-> 0, answer |-> NoAnswer]>>
    OBVIOUS
  <2> QED
    BY <1>2, <1>3, <2>1 DEF poll
<1>5. /\ boxes' \in {Nothing, boxes} /\ boxes' \in Result
      /\ newest' = newest /\ newest' \in Result
      /\ canvas' \in {Nothing, boxes'}
      /\ boxes' # Nothing => ~ Later(newest', boxes') /\ sinceOk' <= STALE_MS
      /\ ~ Later(newest', snapshot') /\ ~ Later(boxes', snapshot')
  BY <1>4, OldBoxesHidden
<1>6. /\ STALE_MS \in Nat /\ POLL_MS \in Nat /\ MaxSettle \in Nat /\ sinceOk' \in Nat
  BY <1>1, <1>4, AgesAreNumbers
<1>7. /\ snapshot' \in Outcome /\ page' = "live" /\ enabled' \in BOOLEAN
      /\ lastSeq' \in Int /\ failures' \in 0 .. 3 /\ sinceOk' \in 0 .. MaxAge
  BY <1>2, <1>4 DEF OverlayInv, OverlayTypes
<1>8. CASE timers' = schedule(<< >>) /\ requests' = << >>
  <2>1. /\ OnePoll' /\ timers' \in Seq(0 .. POLL_MS) /\ requests' \in Seq(Request)
        /\ \A k \in DOMAIN timers' : timers'[k] = POLL_MS
    BY <1>2, <1>4, <1>8, Settled
  <2>2. OverlayTypes'
    BY <1>5, <1>7, <2>1 DEF OverlayTypes
  <2>3. ConfirmedInTime'
    <3>1. ASSUME boxes' # Nothing, NEW k \in DOMAIN timers'
          PROVE  sinceOk' + timers'[k] <= STALE_MS + POLL_MS + MaxSettle
      BY <1>5, <1>6, <2>1, <3>1
    <3> QED
      BY <1>8, <3>1 DEF ConfirmedInTime
  <2>4. NewsInOrder'
    BY <1>5, <1>8 DEF NewsInOrder
  <2> QED
    BY <2>1, <2>2, <2>3, <2>4 DEF OverlayInv
<1>9. CASE timers' = << >> /\ requests' = <<[waited |-> 0, answer |-> NoAnswer]>>
  <2> DEFINE q == [waited |-> 0, answer |-> NoAnswer]
  <2>1. q \in Request /\ q.waited = 0 /\ q.answer = NoAnswer
    BY <1>6 DEF Request, NoAnswer, Outcome
  <2> HIDE DEF q
  <2>2. requests' = <<q>>
    BY <1>9 DEF q
  <2>3. /\ requests' \in Seq(Request) /\ Len(requests') = 1 /\ DOMAIN requests' = {1}
        /\ requests'[1] = q
    BY <2>1, <2>2
  <2>4. timers' \in Seq(0 .. POLL_MS) /\ Len(timers') = 0 /\ DOMAIN timers' = {}
    BY <1>9
  <2>5. OverlayTypes'
    BY <1>5, <1>7, <2>3, <2>4 DEF OverlayTypes
  <2>6. OnePoll'
    BY <1>7, <2>3, <2>4 DEF OnePoll, SelfPacing
  <2>7. ConfirmedInTime'
    BY <1>5, <1>6, <2>1, <2>3, <2>4 DEF ConfirmedInTime
  <2>8. NewsInOrder'
    BY <1>5, <2>1, <2>3 DEF NewsInOrder
  <2> QED
    BY <2>5, <2>6, <2>7, <2>8 DEF OverlayInv
<1> QED
  BY <1>4, <1>8, <1>9

(* The request that ends is the only one, and no timer is set.              *)
LEMMA OnlyRequest ==
  ASSUME OverlayInv, NEW i \in DOMAIN requests
  PROVE  /\ i = 1 /\ RemoveAt(requests, i) = << >> /\ timers = << >> /\ page # "loading"
         /\ requests[i] \in Request /\ requests[i].answer \in Outcome
<1>1. /\ timers \in Seq(0 .. POLL_MS) /\ requests \in Seq(Request)
  BY DEF OverlayInv, OverlayTypes
<1>2. /\ Len(timers) \in Nat /\ Len(requests) \in Nat /\ DOMAIN requests = 1 .. Len(requests)
      /\ requests[i] \in Request /\ requests[i].answer \in Outcome
  BY UnderWay DEF OverlayInv
<1>3. Len(requests) >= 1 /\ requests # << >>
  BY <1>2
<1>4. page # "loading"
  BY <1>3 DEF OverlayInv, OnePoll
<1>5. Len(requests) <= 1 /\ timers = << >>
  <2>1. CASE page = "live"
    <3>1. Len(timers) = 0 /\ Len(requests) = 1
      BY <1>2, <1>3, <2>1 DEF OverlayInv, OnePoll, SelfPacing
    <3> QED
      BY <1>1, <3>1, EmptySeq
  <2>2. CASE page # "live"
    BY <2>2 DEF OverlayInv, OnePoll
  <2> QED
    BY <2>1, <2>2
<1> QED
  BY <1>1, <1>2, <1>4, <1>5, NoneLeft

LEMMA SucceedKeeps ==
  ASSUME OverlayInv, NEW i \in DOMAIN requests, Succeed(i)
  PROVE  OverlayInv'
<1> DEFINE result == requests[i].answer
<1>1. /\ RemoveAt(requests, i) = << >> /\ timers = << >> /\ page # "loading"
      /\ result \in Outcome
  BY OnlyRequest
<1>2. /\ result # NoAnswer /\ takeResult(result)
      /\ requests' = << >> /\ timers' = schedule(<< >>)
      /\ UNCHANGED <<snapshot, page, enabled>>
  BY <1>1 DEF Succeed, complete
<1>3. ~ Later(newest, result) /\ ~ Later(result, snapshot)
  BY <1>2 DEF OverlayInv, NewsInOrder
<1>4. snapshot \in Outcome /\ lastSeq \in Int
  BY DEF OverlayInv, OverlayTypes
<1> HIDE DEF result
<1>5. sinceOk' = 0 /\ failures' = 0
  BY <1>2 DEF takeResult
<1>6. lastSeq' \in Int
  BY <1>1, <1>2, <1>4 DEF takeResult, Outcome
<1>7. /\ NameOf(result) \in Result /\ Nothing \in Result /\ ~ Later(Nothing, snapshot)
      /\ ~ Later(newest, NameOf(result)) /\ ~ Later(NameOf(result), snapshot)
  <2>1. NameOf(result) \in Result /\ NameOf(result).run = result.run
        /\ NameOf(result).seq = result.seq
    BY <1>1 DEF NameOf, Outcome, Result
  <2>2. ~ Later(newest, NameOf(result)) /\ ~ Later(NameOf(result), snapshot)
    BY <1>3, <2>1 DEF Later
  <2> QED
    BY <1>4, <2>1, <2>2, NothingIsOld DEF Outcome
<1>8. Draw(Nothing) \/ Draw(NameOf(result)) \/ Keep
  BY <1>2 DEF takeResult
<1>9. /\ boxes' \in Result /\ newest' \in Result /\ canvas' \in {Nothing, boxes'}
      /\ boxes' # Nothing => ~ Later(newest', boxes')
      /\ ~ Later(newest', snapshot') /\ ~ Later(boxes', snapshot')
  <2>1. CASE Draw(Nothing)
    BY <1>2, <1>7, <2>1, DrawKeeps
  <2>2. CASE Draw(NameOf(result))
    BY <1>2, <1>7, <2>2, DrawKeeps
  <2>3. CASE Keep
    <3>1. boxes \in Result
      BY DEF OverlayInv, OverlayTypes
    <3> QED
      BY <1>2, <2>3, <3>1, KeepKeeps
  <2> QED
    BY <1>8, <2>1, <2>2, <2>3
<1>10. /\ OnePoll' /\ timers' \in Seq(0 .. POLL_MS) /\ requests' \in Seq(Request)
       /\ \A k \in DOMAIN timers' : timers'[k] = POLL_MS
  BY <1>1, <1>2, Settled
<1>11. OverlayTypes'
  <2>1. snapshot' \in Outcome /\ page' \in {"loading", "live", "unloading"} /\ enabled' \in BOOLEAN
    BY <1>2 DEF OverlayInv, OverlayTypes
  <2>2. sinceOk' \in 0 .. MaxAge /\ failures' \in 0 .. 3
    BY <1>5, AgesAreNumbers
  <2> QED
    BY <1>6, <1>9, <1>10, <2>1, <2>2 DEF OverlayTypes
<1>12. ConfirmedInTime'
  <2>1. ASSUME NEW k \in DOMAIN timers'
        PROVE  sinceOk' + timers'[k] <= STALE_MS + POLL_MS + MaxSettle
    BY <1>5, <1>10, AgesAreNumbers
  <2> QED
    BY <1>2, <2>1 DEF ConfirmedInTime
<1>13. NewsInOrder'
  BY <1>2, <1>9 DEF NewsInOrder
<1> QED
  BY <1>10, <1>11, <1>12, <1>13 DEF OverlayInv

LEMMA FailKeeps ==
  ASSUME OverlayInv, NEW i \in DOMAIN requests, Fail(i)
  PROVE  OverlayInv'
<1>1. /\ i = 1 /\ RemoveAt(requests, i) = << >> /\ timers = << >> /\ page # "loading"
      /\ requests[i] \in Request
  BY OnlyRequest
<1>2. /\ failures' = IF failures < 3 THEN failures + 1 ELSE 3
      /\ Draw(Nothing) \/ Keep
      /\ requests' = << >> /\ timers' = schedule(<< >>)
      /\ UNCHANGED <<snapshot, page, enabled, lastSeq, sinceOk>>
  BY <1>1 DEF Fail, complete
<1>3. /\ snapshot \in Outcome /\ lastSeq \in Int /\ boxes \in Result /\ failures \in 0 .. 3
      /\ sinceOk \in 0 .. MaxAge
  BY DEF OverlayInv, OverlayTypes
<1>4. Nothing \in Result /\ ~ Later(Nothing, snapshot)
  BY <1>3, NothingIsOld DEF Outcome
<1>5. /\ boxes' \in {Nothing, boxes} /\ newest' \in Result /\ canvas' \in {Nothing, boxes'}
      /\ boxes' # Nothing => ~ Later(newest', boxes')
      /\ ~ Later(newest', snapshot') /\ ~ Later(boxes', snapshot')
  <2>1. CASE Draw(Nothing)
    BY <1>2, <1>4, <2>1, DrawKeeps
  <2>2. CASE Keep
    BY <1>2, <1>3, <2>2, KeepKeeps
  <2> QED
    BY <1>2, <2>1, <2>2
<1>6. /\ OnePoll' /\ timers' \in Seq(0 .. POLL_MS) /\ requests' \in Seq(Request)
      /\ \A k \in DOMAIN timers' : timers'[k] = POLL_MS
  BY <1>1, <1>2, Settled
<1>7. OverlayTypes'
  <2>1. snapshot' \in Outcome /\ page' \in {"loading", "live", "unloading"} /\ enabled' \in BOOLEAN
    BY <1>2 DEF OverlayInv, OverlayTypes
  <2>2. sinceOk' \in 0 .. MaxAge /\ failures' \in 0 .. 3 /\ lastSeq' \in Int
    BY <1>2, <1>3
  <2>3. boxes' \in Result
    BY <1>3, <1>4, <1>5
  <2> QED
    BY <1>5, <1>6, <2>1, <2>2, <2>3 DEF OverlayTypes
<1>8. ConfirmedInTime'
  <2>1. requests[i].waited \in 0 .. MaxSettle
    BY <1>1 DEF Request
  <2>2. ASSUME page' = "live", boxes' # Nothing, NEW k \in DOMAIN timers'
        PROVE  sinceOk' + timers'[k] <= STALE_MS + POLL_MS + MaxSettle
    <3>1. sinceOk <= STALE_MS + requests[i].waited
      BY <1>2, <1>5, <2>2 DEF OverlayInv, ConfirmedInTime
    <3>2. timers'[k] = POLL_MS /\ sinceOk' = sinceOk
      BY <1>2, <1>6
    <3> QED
      BY <1>3, <2>1, <3>1, <3>2, AgesAreNumbers
  <2> QED
    BY <1>2, <2>2 DEF ConfirmedInTime
<1>9. NewsInOrder'
  BY <1>2, <1>5 DEF NewsInOrder
<1> QED
  BY <1>6, <1>7, <1>8, <1>9 DEF OverlayInv

LEMMA StartOverlayKeeps ==
  ASSUME OverlayInv, start
  PROVE  OverlayInv'
<1>1. timers = << >> /\ requests = << >>
  BY DEF OverlayInv, OnePoll, start
<1>2. Append(<< >>, 0) = <<0>>
  OBVIOUS
<1>3. /\ page' = "live" /\ timers' = <<0>> /\ lastSeq' = -1 /\ sinceOk' = 0 /\ requests' = << >>
      /\ UNCHANGED <<snapshot, enabled, requests, failures, boxes, canvas, newest>>
  BY <1>1, <1>2 DEF start
<1>4. /\ timers' \in Seq(0 .. POLL_MS) /\ Len(timers') = 1 /\ DOMAIN timers' = {1}
      /\ timers'[1] = 0 /\ Len(requests') = 0 /\ DOMAIN requests' = {}
  <2>1. 0 \in 0 .. POLL_MS
    BY AgesAreNumbers
  <2>2. <<0>> \in Seq(0 .. POLL_MS) /\ Len(<<0>>) = 1 /\ DOMAIN <<0>> = {1} /\ <<0>>[1] = 0
    BY <2>1
  <2> QED
    BY <1>3, <2>2
<1>5. OverlayTypes'
  BY <1>3, <1>4, AgesAreNumbers DEF OverlayInv, OverlayTypes
<1>6. OnePoll'
  BY <1>3, <1>4 DEF OnePoll, SelfPacing
<1>7. ConfirmedInTime'
  <2>1. 0 + 0 <= STALE_MS + POLL_MS + MaxSettle
    BY AgesAreNumbers
  <2> QED
    BY <1>3, <1>4, <2>1 DEF ConfirmedInTime
<1>8. NewsInOrder'
  BY <1>3, <1>4 DEF OverlayInv, NewsInOrder
<1> QED
  BY <1>5, <1>6, <1>7, <1>8 DEF OverlayInv

(* The page that unloads, and the change of the channel.                    *)
LEMMA NothingShown ==
  ASSUME OverlayInv, boxes' = Nothing, canvas' = Nothing, lastSeq' = -1,
         UNCHANGED <<snapshot, enabled, requests, failures, sinceOk, newest>>,
         page' \in {"live", "unloading"}, timers' \in Seq(0 .. POLL_MS), OnePoll'
  PROVE  OverlayInv'
<1>1. snapshot \in Outcome
  BY DEF OverlayInv, OverlayTypes
<1>2. Nothing \in Result /\ ~ Later(Nothing, snapshot)
  BY <1>1, NothingIsOld DEF Outcome
<1>3. \A k \in DOMAIN requests : ~ Later(Nothing, requests[k].answer)
  BY UnderWay, NothingIsOld DEF OverlayInv, Outcome
<1>4. OverlayTypes'
  BY <1>2 DEF OverlayInv, OverlayTypes
<1>5. NewsInOrder'
  BY <1>2, <1>3 DEF OverlayInv, NewsInOrder
<1> QED
  BY <1>4, <1>5 DEF OverlayInv, ConfirmedInTime

LEMMA StopOverlayKeeps ==
  ASSUME OverlayInv, stop
  PROVE  OverlayInv'
<1>1. Len(requests) <= 1 /\ requests' = requests
  <2>1. Len(timers) \in Nat /\ Len(requests) \in Nat
    BY UnderWay DEF OverlayInv
  <2> QED
    BY <2>1 DEF OverlayInv, OnePoll, SelfPacing, stop
<1>2. timers' \in Seq(0 .. POLL_MS) /\ timers' = << >> /\ page' = "unloading"
  BY DEF stop
<1>3. OnePoll'
  BY <1>1, <1>2 DEF OnePoll, SelfPacing
<1> QED
  BY <1>1, <1>2, <1>3, NothingShown DEF stop

LEMMA ResetKeeps ==
  ASSUME OverlayInv, reset
  PROVE  OverlayInv'
<1>1. page' = "live" /\ timers' \in Seq(0 .. POLL_MS)
  BY DEF reset, OverlayInv, OverlayTypes
<1>2. OnePoll'
  BY DEF OverlayInv, OnePoll, SelfPacing, reset
<1> QED
  BY <1>1, <1>2, NothingShown DEF reset

LEMMA SetEnabledKeeps ==
  ASSUME OverlayInv, setEnabled
  PROVE  OverlayInv'
<1>1. /\ enabled' \in BOOLEAN /\ canvas' \in {Nothing, boxes}
      /\ newest' \in {newest, boxes} /\ (newest' # newest => boxes # Nothing)
      /\ UNCHANGED <<snapshot, page, timers, requests, lastSeq, failures, sinceOk, boxes>>
  BY DEF setEnabled, OverlayInv, OverlayTypes
<1>2. OverlayTypes'
  BY <1>1 DEF OverlayInv, OverlayTypes
<1>3. OnePoll' /\ ConfirmedInTime'
  BY <1>1 DEF OverlayInv, OnePoll, SelfPacing, ConfirmedInTime
<1>4. NewsInOrder'
  <2>1. ~ Later(boxes, boxes)
    BY NothingIsOld DEF OverlayInv, OverlayTypes, Result
  <2> QED
    BY <1>1, <2>1 DEF OverlayInv, NewsInOrder
<1> QED
  BY <1>2, <1>3, <1>4 DEF OverlayInv

LEMMA TickKeeps ==
  ASSUME OverlayInv, Tick
  PROVE  OverlayInv'
<1>1. /\ \A i \in DOMAIN timers : timers[i] > 0
      /\ \A i \in DOMAIN requests : requests[i].waited < MaxSettle
      /\ timers' = [i \in DOMAIN timers |-> timers[i] - 1]
      /\ requests' = [i \in DOMAIN requests |-> [requests[i] EXCEPT !.waited = @ + 1]]
      /\ sinceOk' = IF sinceOk < MaxAge THEN sinceOk + 1 ELSE sinceOk
      /\ UNCHANGED <<snapshot, page, enabled, lastSeq, failures, boxes, canvas, newest>>
  BY DEF Tick
<1>2. /\ Len(requests) \in Nat /\ DOMAIN requests = 1 .. Len(requests)
      /\ Len(timers) \in Nat /\ DOMAIN timers = 1 .. Len(timers)
  BY UnderWay DEF OverlayInv
<1>3. sinceOk \in 0 .. MaxAge
  BY DEF OverlayInv, OverlayTypes
<1>4. sinceOk' \in 0 .. MaxAge /\ sinceOk' <= sinceOk + 1
  BY <1>1, <1>3, AgesAreNumbers
<1>5. \A i \in 1 .. Len(timers) : timers[i] \in 0 .. POLL_MS /\ timers[i] - 1 \in 0 .. POLL_MS
  BY <1>1, <1>2, UnderWay, AgesAreNumbers DEF OverlayInv
<1>6. \A i \in 1 .. Len(requests) :
        /\ requests[i].waited \in Nat
        /\ [requests[i] EXCEPT !.waited = @ + 1] \in Request
        /\ [requests[i] EXCEPT !.waited = @ + 1].waited = requests[i].waited + 1
        /\ [requests[i] EXCEPT !.waited = @ + 1].answer = requests[i].answer
  <2>1. TAKE i \in 1 .. Len(requests)
  <2>2. requests[i] \in Request /\ requests[i].waited < MaxSettle
    BY <1>1, <1>2, UnderWay DEF OverlayInv
  <2>3. requests[i].waited \in 0 .. MaxSettle /\ requests[i].waited + 1 \in 0 .. MaxSettle
    BY <2>2, AgesAreNumbers DEF Request
  <2> QED
    BY <2>2, <2>3 DEF Request
<1>7. /\ timers' \in Seq(0 .. POLL_MS) /\ Len(timers') = Len(timers)
      /\ DOMAIN timers' = DOMAIN timers
      /\ \A i \in DOMAIN timers : timers'[i] = timers[i] - 1
  BY <1>1, <1>2, <1>5
<1>8. /\ requests' \in Seq(Request) /\ Len(requests') = Len(requests)
      /\ DOMAIN requests' = DOMAIN requests
      /\ \A i \in DOMAIN requests :
           /\ requests'[i].waited = requests[i].waited + 1
           /\ requests'[i].answer = requests[i].answer
  <2> DEFINE older(i) == [requests[i] EXCEPT !.waited = @ + 1]
  <2>1. /\ requests' = [i \in 1 .. Len(requests) |-> older(i)]
        /\ \A i \in 1 .. Len(requests) :
             /\ older(i) \in Request /\ older(i).waited = requests[i].waited + 1
             /\ older(i).answer = requests[i].answer
    BY <1>1, <1>2, <1>6
  <2> HIDE DEF older
  <2>2. requests' \in Seq(Request) /\ Len(requests') = Len(requests)
    BY <1>2, <2>1
  <2>3. DOMAIN requests' = 1 .. Len(requests)
        /\ \A i \in 1 .. Len(requests) : requests'[i] = older(i)
    BY <2>1
  <2> QED
    BY <1>2, <2>1, <2>2, <2>3
<1>9. OverlayTypes'
  BY <1>1, <1>4, <1>7, <1>8 DEF OverlayInv, OverlayTypes
<1>10. OnePoll'
  <2>1. (timers = << >> => timers' = << >>) /\ (requests = << >> => requests' = << >>)
    BY <1>7, <1>8
  <2> QED
    BY <1>1, <1>7, <1>8, <2>1 DEF OverlayInv, OnePoll, SelfPacing
<1>11. ConfirmedInTime'
  <2> SUFFICES ASSUME page = "live", boxes # Nothing
               PROVE  /\ \A i \in DOMAIN timers :
                           sinceOk' + timers'[i] <= STALE_MS + POLL_MS + MaxSettle
                      /\ \A i \in DOMAIN requests : sinceOk' <= STALE_MS + requests'[i].waited
    BY <1>1, <1>7, <1>8 DEF ConfirmedInTime
  <2>1. /\ \A i \in DOMAIN timers : sinceOk + timers[i] <= STALE_MS + POLL_MS + MaxSettle
        /\ \A i \in DOMAIN requests : sinceOk <= STALE_MS + requests[i].waited
    BY DEF OverlayInv, ConfirmedInTime
  <2>2. \A i \in DOMAIN timers : sinceOk' + timers'[i] <= STALE_MS + POLL_MS + MaxSettle
    <3>1. TAKE i \in DOMAIN timers
    <3>2. /\ timers[i] \in Int /\ timers'[i] = timers[i] - 1
          /\ sinceOk + timers[i] <= STALE_MS + POLL_MS + MaxSettle
      BY <1>2, <1>5, <1>7, <2>1
    <3> QED
      BY <1>3, <1>4, <3>2, AgesAreNumbers
  <2>3. \A i \in DOMAIN requests : sinceOk' <= STALE_MS + requests'[i].waited
    <3>1. TAKE i \in DOMAIN requests
    <3>2. /\ requests[i].waited \in Int /\ requests'[i].waited = requests[i].waited + 1
          /\ sinceOk <= STALE_MS + requests[i].waited
      <4>1. requests[i].waited \in Int
        BY UnderWay, AgesAreNumbers DEF OverlayInv
      <4>2. requests'[i].waited = requests[i].waited + 1
        BY <1>8
      <4> QED
        BY <2>1, <4>1, <4>2
    <3> QED
      BY <1>3, <1>4, <3>2, AgesAreNumbers
  <2> QED
    BY <2>2, <2>3
<1>12. NewsInOrder'
  BY <1>1, <1>8 DEF OverlayInv, NewsInOrder
<1> QED
  BY <1>9, <1>10, <1>11, <1>12 DEF OverlayInv

LEMMA OverlayInitInv == OverlayInit => OverlayInv
<1> SUFFICES ASSUME OverlayInit PROVE OverlayInv
  OBVIOUS
<1>1. snapshot \in Outcome /\ Nothing \in Result /\ ~ Later(Nothing, snapshot)
  BY DEF OverlayInit, Outcome, Nothing, Result, Later
<1>2. /\ timers = << >> /\ requests = << >> /\ Len(timers) = 0 /\ Len(requests) = 0
      /\ timers \in Seq(0 .. POLL_MS) /\ requests \in Seq(Request) /\ DOMAIN requests = {}
  BY DEF OverlayInit
<1>3. OverlayTypes
  BY <1>1, <1>2, AgesAreNumbers DEF OverlayInit, OverlayTypes
<1>4. OnePoll
  BY <1>2 DEF OverlayInit, OnePoll, SelfPacing
<1>5. ConfirmedInTime
  BY DEF OverlayInit, ConfirmedInTime
<1>6. NewsInOrder
  BY <1>1, <1>2 DEF OverlayInit, NewsInOrder
<1> QED
  BY <1>3, <1>4, <1>5, <1>6 DEF OverlayInv

LEMMA OverlayStep == OverlayInv /\ [OverlayNext]_overlayVars => OverlayInv'
<1> SUFFICES ASSUME OverlayInv, [OverlayNext]_overlayVars PROVE OverlayInv'
  OBVIOUS
<1>1. CASE Publish \/ DeviceRestarts
  BY <1>1, DeviceKeeps
<1>2. CASE Answers
  BY <1>2, AnswerKeeps DEF Answers
<1>3. CASE Polls
  BY <1>3, PollKeeps DEF Polls
<1>4. CASE Settles
  BY <1>4, SucceedKeeps, FailKeeps DEF Settles
<1>5. CASE Tick
  BY <1>5, TickKeeps
<1>6. CASE start
  BY <1>6, StartOverlayKeeps
<1>7. CASE stop
  BY <1>7, StopOverlayKeeps
<1>8. CASE reset
  BY <1>8, ResetKeeps
<1>9. CASE setEnabled
  BY <1>9, SetEnabledKeeps
<1>10. CASE UNCHANGED overlayVars
  <2>1. /\ UNCHANGED snapshot /\ UNCHANGED page /\ UNCHANGED enabled /\ UNCHANGED timers
        /\ UNCHANGED requests /\ UNCHANGED lastSeq /\ UNCHANGED failures /\ UNCHANGED sinceOk
        /\ UNCHANGED boxes /\ UNCHANGED canvas /\ UNCHANGED newest
    BY <1>10 DEF overlayVars
  <2> QED
    BY <2>1 DEF OverlayInv, OverlayTypes, OnePoll, SelfPacing, ConfirmedInTime, NewsInOrder
<1> QED
  BY <1>1, <1>2, <1>3, <1>4, <1>5, <1>6, <1>7, <1>8, <1>9, <1>10 DEF OverlayNext

(* For any intervals, any failures and restarts of the device: a live page  *)
(* has one timer or one request, and boxes that no answer confirms go by    *)
(* the poll after the request that hangs.                                   *)
THEOREM PollsInTimeHolds == OverlaySpec => []PollsInTime
<1>1. OverlayInv => PollsInTime
  <2> SUFFICES ASSUME OverlayInv PROVE StaleBoxesGoAfterRequest
    BY DEF OverlayInv, OnePoll, PollsInTime
  <2> SUFFICES ASSUME canvas # Nothing, page = "live"
               PROVE  sinceOk <= STALE_MS + POLL_MS + MaxSettle
    BY DEF StaleBoxesGoAfterRequest
  <2>1. boxes # Nothing /\ sinceOk \in Int
    BY DEF OverlayInv, OverlayTypes
  <2>2. /\ Len(requests) \in Nat /\ DOMAIN requests = 1 .. Len(requests)
        /\ Len(timers) \in Nat /\ DOMAIN timers = 1 .. Len(timers)
    BY UnderWay DEF OverlayInv
  <2>3. Len(timers) = 1 \/ Len(requests) = 1
    BY <2>2 DEF OverlayInv, OnePoll, SelfPacing
  <2>4. CASE Len(timers) = 1
    <3>1. 1 \in DOMAIN timers
      BY <2>2, <2>4
    <3>2. timers[1] \in Nat /\ sinceOk + timers[1] <= STALE_MS + POLL_MS + MaxSettle
      BY <2>1, <3>1, UnderWay, AgesAreNumbers DEF OverlayInv, ConfirmedInTime
    <3> QED
      BY <2>1, <3>2, AgesAreNumbers
  <2>5. CASE Len(requests) = 1
    <3>1. 1 \in DOMAIN requests
      BY <2>2, <2>5
    <3>2. requests[1].waited \in 0 .. MaxSettle /\ sinceOk <= STALE_MS + requests[1].waited
      BY <2>1, <3>1, UnderWay DEF OverlayInv, ConfirmedInTime
    <3> QED
      BY <2>1, <3>2, AgesAreNumbers
  <2> QED
    BY <2>3, <2>4, <2>5
<1> QED
  BY <1>1, OverlayInitInv, OverlayStep, PTL DEF OverlaySpec

(* What is drawn never goes back to an older result, across switches of the *)
(* channel, failures, late answers and restarts of the device.              *)
THEOREM NeverGoesBackHolds == OverlaySpec => NeverGoesBack
<1>1. OverlayInv /\ OverlayInv' /\ [OverlayNext]_overlayVars => [~ Later(newest, newest')]_overlayVars
  <2> SUFFICES ASSUME OverlayInv, OverlayInv', OverlayNext PROVE ~ Later(newest, newest')
    OBVIOUS
  <2>1. newest \in Result /\ boxes \in Result /\ ~ Later(newest, newest)
    BY NothingIsOld DEF OverlayInv, OverlayTypes, Result
  <2>2. ASSUME newest' \in {newest, boxes}, newest' # newest => boxes # Nothing
        PROVE  ~ Later(newest, newest')
    BY <2>1, <2>2 DEF OverlayInv, NewsInOrder
  <2>3. CASE Settles
    <3>1. PICK i \in DOMAIN requests : Succeed(i) \/ Fail(i)
      BY <2>3 DEF Settles
    <3>2. CASE Succeed(i)
      <4>1. /\ requests[i].answer # NoAnswer
            /\ \/ UNCHANGED newest
               \/ newest' = NameOf(requests[i].answer)
        BY <3>2 DEF Succeed, takeResult, Draw, Keep
      <4>2. ~ Later(newest, requests[i].answer)
        BY <4>1 DEF OverlayInv, NewsInOrder
      <4>3. ~ Later(newest, NameOf(requests[i].answer))
        BY <4>2 DEF Later, NameOf
      <4> QED
        BY <2>1, <4>1, <4>3
    <3>3. CASE Fail(i)
      <4>1. newest' = newest
        BY <3>3 DEF Fail, Draw, Keep
      <4> QED
        BY <2>1, <4>1
    <3> QED
      BY <3>1, <3>2, <3>3
  <2>4. CASE Polls
    <3>1. newest' = newest
      BY <2>4 DEF Polls, poll, hideStaleBoxes, Draw, Keep
    <3> QED
      BY <2>1, <3>1
  <2>5. CASE setEnabled
    <3>1. newest' \in {newest, boxes} /\ (newest' # newest => boxes # Nothing)
      BY <2>5 DEF setEnabled
    <3> QED
      BY <2>2, <3>1
  <2>6. CASE Publish \/ DeviceRestarts \/ Answers \/ Tick \/ start \/ stop \/ reset
    <3>1. newest' = newest
      BY <2>6 DEF Publish, DeviceRestarts, Answers, Answer, Tick, start, stop, reset, pageVars
    <3> QED
      BY <2>1, <3>1
  <2> QED
    BY <2>3, <2>4, <2>5, <2>6 DEF OverlayNext
<1> QED
  BY <1>1, OverlayInitInv, OverlayStep, PTL DEF OverlaySpec, NeverGoesBack

-----------------------------------------------------------------------------
(* The player.                                                              *)

(* The types of what the two threads hold and post.                         *)
Piece == [id : Nat, type : {"video", "audio", "skip"}]
Command == [command : {"OpenStream", "CloseStream", "InputData"}, data : Seq(Piece)]
Message ==
  [function : {"GetFrameData"}, type : {"video", "audio", "skip", "more"}, id : Nat]
    \cup {BufOver}
PlayTypes ==
  /\ frame \in Frames /\ arrived \in Nat /\ stream \in {"none", "open", "closed"}
  /\ bPlay \in BOOLEAN /\ bIsFirstFrame \in BOOLEAN /\ bIsGetYUV \in BOOLEAN
  /\ bIsInput \in BOOLEAN /\ bIsInputBufOver \in BOOLEAN /\ bOpenStream \in BOOLEAN
  /\ failed \in BOOLEAN /\ glObjects \subseteq initProgram \cup initBuffers \cup initTextures
  /\ aInputData \in Seq(Piece) /\ decoder \in Seq(Piece) /\ aVideoFrameBuffer \in Seq(Nat)
  /\ toWorker \in Seq(Command) /\ toMain \in Seq(Message)

(* The worker is told once, and first, to open the stream; it answers, and  *)
(* there is a picture, only when it has.                                    *)
OpenedOnce ==
  /\ bPlay = (stream = "open")
  /\ stream = "none" => toWorker = << >> /\ toMain = << >> /\ bIsFirstFrame /\ ~ bOpenStream
  /\ \A i \in DOMAIN toWorker : toWorker[i].command = "OpenStream" => i = 1 /\ ~ bOpenStream
  /\ toMain # << >> \/ ~ bIsFirstFrame => bOpenStream

(* A decoder that says it is full has refused a piece. A renderer draws     *)
(* whole frames of the stream.                                              *)
RefusalFails == \A i \in DOMAIN toMain : toMain[i].type = "over" => failed
FramesAreDrawn == picture \in Frames \cup {NoPicture}

PlayInv ==
  /\ PlayTypes /\ OpenedOnce /\ NeverFrozen
  /\ RefusalFails /\ NothingAfterClose /\ FramesAreDrawn

-----------------------------------------------------------------------------
(* Lemmas about what a picture is cut to.                                   *)

LEMMA Least ==
  ASSUME NEW T \in SUBSET Nat, T # {}
  PROVE  Min(T) \in T /\ \A y \in T : Min(T) <= y
<1>1. PICK x \in T : \A y \in T : ~ (<<y, x>> \in OpToRel(<, Nat))
  BY WFMin, NatLessThanWellFounded, Zenon
<1>2. \A y \in T : ~ y < x
  BY <1>1 DEF OpToRel
<1>3. \E z \in T : \A y \in T : z <= y
  BY <1>2
<1> QED
  BY <1>3 DEF Min

LEMMA Quotient ==
  ASSUME NEW d \in Nat, NEW y \in Nat, NEW x \in 0 .. d - 1
  PROVE  (y * d + x) \div d = y /\ (y * d + x) % d = x
OBVIOUS

LEMMA Half ==
  ASSUME NEW s \in Nat, s % 2 = 0
  PROVE  s \div 2 \in Nat /\ s = 2 * (s \div 2)
OBVIOUS

LEMMA HalfOfProduct ==
  ASSUME NEW y \in Nat, NEW s \in Nat, s % 2 = 0
  PROVE  (y * s) \div 2 = y * (s \div 2)
<1>1. PICK h \in Nat : s = 2 * h /\ s \div 2 = h
  BY Half
<1>2. y * s = 2 * (y * h)
  BY <1>1
<1>3. y * h \in Nat
  OBVIOUS
<1>4. (2 * (y * h)) \div 2 = y * h
  BY <1>3
<1> QED
  BY <1>1, <1>2, <1>4

(* The place of a sample in a plane that is stored row by row.              *)
LEMMA InRows ==
  ASSUME NEW d \in Nat, NEW h \in Nat, NEW y \in 0 .. h - 1, NEW x \in 0 .. d - 1
  PROVE  y * d + x \in 0 .. d * h - 1
<1>1. y * d + x \in Nat
  OBVIOUS
<1>2. PICK n \in Nat : h = y + 1 + n
  OBVIOUS
<1>3. d * h = d * y + d + d * n
  BY <1>2
<1>4. d * n \in Nat /\ d * y = y * d /\ y * d \in Nat
  OBVIOUS
<1> QED
  BY <1>1, <1>3, <1>4

Sized(p) ==
  /\ p.width \in Nat /\ p.height \in Nat /\ p.dWidth \in Nat /\ p.dHeight \in Nat
  /\ p.width % 2 = 0 /\ p.height % 2 = 0 /\ p.dWidth % 2 = 0 /\ p.dHeight % 2 = 0

LEMMA YIsCut ==
  ASSUME NEW p, Sized(p), NEW x \in 0 .. p.dWidth - 1, NEW y \in 0 .. p.dHeight - 1
  PROVE  updateFrameData(p).Y[y * p.dWidth + x] = Place(p, "Y", x, y)
<1> DEFINE k == y * p.dWidth + x
<1>1. /\ p.width \in Nat /\ p.dWidth \in Nat /\ p.dHeight \in Nat /\ y \in Nat
  BY DEF Sized
<1>2. k \in 0 .. p.dWidth * p.dHeight - 1
  BY <1>1, InRows
<1>3. k \div p.dWidth = y /\ k % p.dWidth = x
  BY <1>1, Quotient
<1> HIDE DEF k
<1>4. updateFrameData(p).Y[k] = (k \div p.dWidth) * p.width + (k % p.dWidth)
  BY <1>2 DEF updateFrameData
<1>5. Place(p, "Y", x, y) = y * p.width + x
  BY DEF Place
<1> QED
  BY <1>3, <1>4, <1>5 DEF k

LEMMA QuarterOfProduct ==
  ASSUME NEW w \in Nat, NEW h \in Nat, w % 2 = 0, h % 2 = 0
  PROVE  (w * h * 5) \div 4 = w * h + (w \div 2) * (h \div 2)
<1>1. PICK a \in Nat : w = 2 * a /\ w \div 2 = a
  BY Half
<1>2. PICK b \in Nat : h = 2 * b /\ h \div 2 = b
  BY Half
<1>3. a * b \in Nat
  OBVIOUS
<1>4. w * h = 4 * (a * b)
  BY <1>1, <1>2
<1>5. w * h * 5 = 4 * (5 * (a * b))
  BY <1>3, <1>4
<1>6. (4 * (5 * (a * b))) \div 4 = 5 * (a * b)
  BY <1>3
<1> QED
  BY <1>1, <1>2, <1>3, <1>4, <1>5, <1>6

LEMMA ChromaIsCut ==
  ASSUME NEW p, Sized(p),
         NEW x \in 0 .. (p.dWidth \div 2) - 1, NEW y \in 0 .. (p.dHeight \div 2) - 1
  PROVE  /\ updateFrameData(p).U[y * (p.dWidth \div 2) + x] = Place(p, "U", x, y)
         /\ updateFrameData(p).V[y * (p.dWidth \div 2) + x] = Place(p, "V", x, y)
<1> DEFINE half == p.dWidth \div 2
           rows == p.dHeight \div 2
           k == y * half + x
<1>1. /\ p.width \in Nat /\ p.height \in Nat /\ p.width % 2 = 0 /\ p.height % 2 = 0
      /\ half \in Nat /\ rows \in Nat
  BY Half DEF Sized
<1>2. x \in 0 .. half - 1 /\ y \in 0 .. rows - 1 /\ y \in Nat
  BY <1>1
<1>3. k \in 0 .. half * rows - 1
  <2> HIDE DEF half, rows
  <2> QED
    BY <1>1, <1>2, InRows
<1>4. k \div half = y /\ k % half = x
  <2> HIDE DEF half, rows
  <2> QED
    BY <1>1, <1>2, Quotient
<1>5. (y * p.width) \div 2 = y * (p.width \div 2)
  BY <1>1, <1>2, HalfOfProduct
<1> HIDE DEF k
<1>6. updateFrameData(p).U[k] =
        p.width * p.height + ((k \div half) * p.width) \div 2 + (k % half)
  BY <1>3 DEF updateFrameData
<1>7. updateFrameData(p).V[k] =
        (p.width * p.height * 5) \div 4 + ((k \div half) * p.width) \div 2 + (k % half)
  BY <1>3 DEF updateFrameData
<1>8. Place(p, "U", x, y) = p.width * p.height + y * (p.width \div 2) + x
  BY DEF Place
<1>9. Place(p, "V", x, y) =
        p.width * p.height + (p.width \div 2) * (p.height \div 2) + y * (p.width \div 2) + x
  BY DEF Place
<1>10. (p.width * p.height * 5) \div 4 =
        p.width * p.height + (p.width \div 2) * (p.height \div 2)
  BY <1>1, QuarterOfProduct
<1>11. updateFrameData(p).U[k] = Place(p, "U", x, y)
  BY <1>4, <1>5, <1>6, <1>8
<1>12. updateFrameData(p).V[k] = Place(p, "V", x, y)
  BY <1>4, <1>5, <1>7, <1>9, <1>10
<1> QED
  BY <1>11, <1>12 DEF k

LEMMA PictureIsCut == ASSUME FramesAreDrawn PROVE CropIsExact
<1>1. Sized(picture)
  <2>1. CASE picture \in Frames
    BY <2>1, PlayerAssumption DEF Sized
  <2>2. CASE picture = NoPicture
    BY <2>2 DEF Sized, NoPicture
  <2> QED
    BY <2>1, <2>2 DEF FramesAreDrawn
<1> QED
  BY <1>1, YIsCut, ChromaIsCut DEF CropIsExact

-----------------------------------------------------------------------------
(* Lemmas about queues, and about what the handlers and the worker post.    *)

LEMMA Appended ==
  ASSUME NEW S, NEW s \in Seq(S), NEW e \in S
  PROVE  /\ Append(s, e) \in Seq(S) /\ Append(s, e) # << >>
         /\ Len(s) \in Nat /\ DOMAIN s = 1 .. Len(s)
         /\ DOMAIN Append(s, e) = 1 .. Len(s) + 1
         /\ \A i \in 1 .. Len(s) : Append(s, e)[i] = s[i]
         /\ Append(s, e)[Len(s) + 1] = e /\ Last(Append(s, e)) = e
<1>1. /\ Append(s, e) \in Seq(S) /\ Append(s, e) # << >>
      /\ Len(Append(s, e)) = Len(s) + 1
      /\ \A i \in 1 .. Len(s) : Append(s, e)[i] = s[i]
      /\ Append(s, e)[Len(s) + 1] = e
  BY AppendProperties
<1>2. Len(s) \in Nat /\ DOMAIN s = 1 .. Len(s)
  BY LenProperties
<1>3. DOMAIN Append(s, e) = 1 .. Len(s) + 1
  BY <1>1, LenProperties
<1>4. Last(Append(s, e)) = e
  BY <1>1 DEF Last
<1> QED
  BY <1>1, <1>2, <1>3, <1>4

LEMMA TakenOff ==
  ASSUME NEW S, NEW s \in Seq(S), s # << >>
  PROVE  /\ Len(s) \in Nat /\ Len(s) >= 1 /\ DOMAIN s = 1 .. Len(s)
         /\ Head(s) = s[1] /\ Head(s) \in S /\ Tail(s) \in Seq(S)
         /\ DOMAIN Tail(s) = 1 .. Len(s) - 1
         /\ \A i \in 1 .. Len(s) - 1 : Tail(s)[i] = s[i + 1]
         /\ Tail(s) # << >> => Last(Tail(s)) = Last(s)
<1>1. Len(s) \in Nat /\ DOMAIN s = 1 .. Len(s) /\ Len(s) # 0
  BY LenProperties, EmptySeq
<1>2. /\ Head(s) \in S /\ Tail(s) \in Seq(S) /\ Len(Tail(s)) = Len(s) - 1
      /\ \A i \in 1 .. Len(s) - 1 : Tail(s)[i] = s[i + 1]
  BY HeadTailProperties
<1>3. DOMAIN Tail(s) = 1 .. Len(s) - 1
  BY <1>2, LenProperties
<1>4. Head(s) = s[1]
  OBVIOUS
<1>5. ASSUME Tail(s) # << >> PROVE Last(Tail(s)) = Last(s)
  <2>1. Len(s) - 1 # 0
    BY <1>2, <1>5, EmptySeq
  <2>2. Tail(s)[Len(s) - 1] = s[Len(s)]
    BY <1>1, <1>2, <2>1
  <2> QED
    BY <1>2, <2>2 DEF Last
<1> QED
  BY <1>1, <1>2, <1>3, <1>4, <1>5

LEMMA Parted ==
  ASSUME NEW S, NEW s \in Seq(S), NEW n \in 0 .. Len(s)
  PROVE  /\ SubSeq(s, 1, n) \in Seq(S) /\ SubSeq(s, n + 1, Len(s)) \in Seq(S)
         /\ s = << >> => SubSeq(s, n + 1, Len(s)) = << >>
<1>1. Len(s) \in Nat /\ \A i \in 1 .. Len(s) : s[i] \in S
  BY LenProperties, ElementOfSeq
<1>2. SubSeq(s, 1, n) \in Seq(S)
  <2>1. \A i \in 1 .. n : s[i] \in S
    BY <1>1
  <2> QED
    BY <1>1, <2>1, SubSeqProperties
<1>3. SubSeq(s, n + 1, Len(s)) \in Seq(S)
  <2>1. \A i \in n + 1 .. Len(s) : s[i] \in S
    BY <1>1
  <2>2. n + 1 \in Int /\ Len(s) \in Int
    BY <1>1
  <2> QED
    BY <2>1, <2>2, SubSeqProperties
<1>4. ASSUME s = << >> PROVE SubSeq(s, n + 1, Len(s)) = << >>
  <2>1. Len(s) = 0 /\ n = 0
    BY <1>4
  <2> QED
    BY <2>1, SubSeqEmpty
<1> QED
  BY <1>2, <1>3, <1>4

(* Pieces are handed out: the worker has one more message.                  *)
Asks ==
  /\ toWorker' \in Seq(Command)
  /\ DOMAIN toWorker' = 1 .. Len(toWorker) + 1
  /\ \A i \in 1 .. Len(toWorker) : toWorker'[i] = toWorker[i]
  /\ toWorker'[Len(toWorker) + 1].command = "InputData"

LEMMA HandedOut ==
  ASSUME PlayTypes, NEW queued \in Seq(Piece), NEW full, inputDataFun(queued, full)
  PROVE  /\ Asks /\ bIsGetYUV' = FALSE /\ aInputData' \in Seq(Piece)
         /\ queued = << >> => aInputData' = << >>
<1> DEFINE taken == IF full THEN 0 ELSE IF Len(queued) < Batch THEN Len(queued) ELSE Batch
           data == SubSeq(queued, 1, taken)
<1>1. /\ bIsGetYUV' = FALSE /\ toWorker' = Append(toWorker, InputData(data))
      /\ aInputData' = SubSeq(queued, taken + 1, Len(queued))
  BY DEF inputDataFun
<1>2. taken \in 0 .. Len(queued)
  <2>1. Len(queued) \in Nat /\ Batch \in Nat
    BY PlayerAssumption, LenProperties
  <2> QED
    BY <2>1
<1> HIDE DEF taken
<1>3. /\ data \in Seq(Piece) /\ aInputData' \in Seq(Piece)
      /\ queued = << >> => aInputData' = << >>
  BY <1>1, <1>2, Parted
<1>4. InputData(data) \in Command /\ InputData(data).command = "InputData"
  BY <1>3 DEF InputData, Command
<1> HIDE DEF data
<1>5. Asks
  <2>1. toWorker \in Seq(Command)
    BY DEF PlayTypes
  <2> QED
    BY <1>1, <1>4, <2>1, Appended DEF Asks
<1> QED
  BY <1>1, <1>3, <1>5

LEMMA FrameKept ==
  ASSUME PlayTypes, NEW message \in Message, KeepFrame(message)
  PROVE  aVideoFrameBuffer' \in Seq(Nat)
<1>1. aVideoFrameBuffer \in Seq(Nat) /\ message.id \in Nat
  BY DEF PlayTypes, Message, BufOver
<1> DEFINE kept == Append(aVideoFrameBuffer, message.id)
<1>2. kept \in Seq(Nat)
  BY <1>1, Appended
<1> HIDE DEF kept
<1>3. SubSeq(kept, DropFrames + 1, Len(kept)) \in Seq(Nat)
  <2>1. Len(kept) \in Nat /\ \A i \in 1 .. Len(kept) : kept[i] \in Nat
    BY <1>2, LenProperties, ElementOfSeq
  <2>2. DropFrames \in Nat
    BY PlayerAssumption
  <2>3. \A i \in DropFrames + 1 .. Len(kept) : kept[i] \in Nat
    BY <2>1, <2>2
  <2>4. DropFrames + 1 \in Int /\ Len(kept) \in Int
    BY <2>1, <2>2
  <2> QED
    BY <2>3, <2>4, SubSeqProperties
<1> QED
  BY <1>1, <1>2, <1>3 DEF KeepFrame, kept

LEMMA FramesPosted ==
  ASSUME NEW queued \in Seq(Piece)
  PROVE  /\ FramesOf(queued).posted \in Seq(Message) /\ FramesOf(queued).left \in Seq(Piece)
         /\ Len(FramesOf(queued).posted) >= 1
         /\ \A i \in 1 .. Len(FramesOf(queued).posted) :
              FramesOf(queued).posted[i].type # "over"
         /\ FramesOf(queued).posted[Len(FramesOf(queued).posted)].type \in {"video", "more"}
<1> DEFINE pictures == {i \in DOMAIN queued : queued[i].type = "video"}
           last == IF pictures = {} THEN Len(queued) ELSE Min(pictures)
           posted == [i \in 1 .. last |-> GetFrameDataOf(queued[i])]
           result == IF pictures = {} THEN Append(posted, NeedMore) ELSE posted
<1>1. FramesOf(queued).posted = result /\ FramesOf(queued).left = SubSeq(queued, last + 1, Len(queued))
  BY DEF FramesOf
<1>2. /\ Len(queued) \in Nat /\ DOMAIN queued = 1 .. Len(queued)
      /\ \A i \in 1 .. Len(queued) : queued[i] \in Piece
  BY LenProperties, ElementOfSeq
<1>3. /\ last \in 0 .. Len(queued)
      /\ pictures # {} => last \in pictures
  <2>1. pictures \subseteq Nat /\ pictures \subseteq 1 .. Len(queued)
    BY <1>2
  <2>2. pictures # {} => Min(pictures) \in pictures
    <3> HIDE DEF pictures
    <3> QED
      BY <2>1, Least
  <2> QED
    BY <1>2, <2>1, <2>2
<1>4. pictures # {} => last \in 1 .. Len(queued) /\ queued[last].type = "video"
  BY <1>2, <1>3
<1> HIDE DEF last, pictures
<1>5. \A i \in 1 .. last : /\ GetFrameDataOf(queued[i]) \in Message
                           /\ GetFrameDataOf(queued[i]).type = queued[i].type
                           /\ GetFrameDataOf(queued[i]).type # "over"
  <2>1. TAKE i \in 1 .. last
  <2>2. queued[i] \in Piece
    BY <1>2, <1>3
  <2> QED
    BY <2>2 DEF GetFrameDataOf, Piece, Message
<1>6. posted \in Seq(Message) /\ Len(posted) = last
  <2>1. posted \in [1 .. last -> Message]
    BY <1>5
  <2>2. last \in Nat
    BY <1>2, <1>3
  <2>3. posted \in Seq(Message)
    BY <2>1, <2>2, SeqDef
  <2>4. DOMAIN posted = 1 .. last
    OBVIOUS
  <2> QED
    BY <2>2, <2>3, <2>4, LenProperties
<1>7. \A i \in 1 .. last : posted[i] = GetFrameDataOf(queued[i])
  OBVIOUS
<1> HIDE DEF posted
<1>8. FramesOf(queued).left \in Seq(Piece)
  BY <1>1, <1>3, Parted
<1>9. CASE pictures = {}
  <2>1. NeedMore \in Message /\ NeedMore.type = "more"
    BY DEF NeedMore, Message
  <2>2. result = Append(posted, NeedMore)
    BY <1>9
  <2>3. /\ result \in Seq(Message) /\ Len(result) = last + 1 /\ result[last + 1] = NeedMore
        /\ \A i \in 1 .. last : result[i] = posted[i]
    BY <1>6, <2>1, <2>2, AppendProperties
  <2>4. \A i \in 1 .. last + 1 : result[i].type # "over"
    BY <1>3, <1>5, <1>7, <2>1, <2>3
  <2> QED
    BY <1>1, <1>3, <1>8, <2>1, <2>3, <2>4
<1>10. CASE pictures # {}
  <2>1. result = posted
    BY <1>10
  <2> QED
    BY <1>1, <1>4, <1>5, <1>6, <1>7, <1>8, <1>10, <2>1
<1> QED
  BY <1>9, <1>10

-----------------------------------------------------------------------------
(* The invariant.                                                           *)

LEMMA SameAgain ==
  ASSUME PlayInv, UNCHANGED <<frame, arrived, stream, bPlay, flags, aInputData,
                              aVideoFrameBuffer, toWorker, toMain, workerVars, failed,
                              renderVars>>
  PROVE  PlayInv'
<1>1. /\ frame' = frame /\ arrived' = arrived /\ stream' = stream /\ bPlay' = bPlay
      /\ bIsFirstFrame' = bIsFirstFrame /\ bIsGetYUV' = bIsGetYUV /\ bIsInput' = bIsInput
      /\ bIsInputBufOver' = bIsInputBufOver /\ aInputData' = aInputData
      /\ aVideoFrameBuffer' = aVideoFrameBuffer /\ toWorker' = toWorker /\ toMain' = toMain
      /\ bOpenStream' = bOpenStream /\ decoder' = decoder /\ failed' = failed
      /\ picture' = picture /\ glObjects' = glObjects
  BY DEF flags, workerVars, renderVars
<1>2. PlayTypes'
  BY <1>1 DEF PlayInv, PlayTypes
<1>3. OpenedOnce' /\ RefusalFails' /\ FramesAreDrawn'
  BY <1>1 DEF PlayInv, OpenedOnce, RefusalFails, FramesAreDrawn
<1>4. NeverFrozen' /\ NothingAfterClose'
  BY <1>1 DEF PlayInv, NeverFrozen, NothingAfterClose
<1> QED
  BY <1>2, <1>3, <1>4 DEF PlayInv

LEMMA PlayKeeps == ASSUME PlayInv, PlayM4_Play PROVE PlayInv'
<1>1. /\ frame' = frame /\ arrived' = arrived /\ stream = "none" /\ stream' = "open"
      /\ bPlay' = TRUE
      /\ bIsFirstFrame' = bIsFirstFrame /\ bIsGetYUV' = bIsGetYUV /\ bIsInput' = bIsInput
      /\ bIsInputBufOver' = bIsInputBufOver /\ aInputData' = aInputData
      /\ aVideoFrameBuffer' = aVideoFrameBuffer
      /\ toWorker' = Append(toWorker, OpenStream) /\ toMain' = toMain
      /\ bOpenStream' = bOpenStream /\ decoder' = decoder /\ failed' = failed
      /\ picture' = picture
      /\ glObjects' = initProgram \cup initBuffers \cup initTextures
  BY DEF PlayM4_Play, flags, workerVars, RenderManager
<1>2. toWorker = << >> /\ toMain = << >> /\ bIsFirstFrame /\ ~ bOpenStream
  BY <1>1 DEF PlayInv, OpenedOnce
<1>3. toWorker' \in Seq(Command) /\ DOMAIN toWorker' = {1}
  <2>1. OpenStream \in Command
    <3>1. << >> \in Seq(Piece)
      OBVIOUS
    <3> QED
      BY <3>1 DEF OpenStream, Command
  <2>2. toWorker \in Seq(Command) /\ Len(toWorker) = 0
    BY <1>2 DEF PlayInv, PlayTypes
  <2> QED
    BY <1>1, <2>1, <2>2, Appended
<1>4. PlayTypes'
  BY <1>1, <1>3 DEF PlayInv, PlayTypes
<1>5. OpenedOnce'
  BY <1>1, <1>2, <1>3 DEF OpenedOnce
<1>6. RefusalFails' /\ FramesAreDrawn' /\ NeverFrozen' /\ NothingAfterClose'
  BY <1>1, <1>2 DEF PlayInv, RefusalFails, FramesAreDrawn, NeverFrozen, NothingAfterClose
<1> QED
  BY <1>4, <1>5, <1>6 DEF PlayInv

(* Handing out keeps the worker's commands in order.                        *)
LEMMA AskedInOrder ==
  ASSUME PlayTypes, OpenedOnce, Asks, bOpenStream' = bOpenStream
  PROVE  /\ \A i \in DOMAIN toWorker' :
              toWorker'[i].command = "OpenStream" => i = 1 /\ ~ bOpenStream'
         /\ \E i \in DOMAIN toWorker' : toWorker'[i].command = "InputData"
<1>1. Len(toWorker) \in Nat /\ DOMAIN toWorker = 1 .. Len(toWorker)
  BY LenProperties DEF PlayTypes
<1>2. \A i \in DOMAIN toWorker' : i \in 1 .. Len(toWorker) \/ i = Len(toWorker) + 1
  BY <1>1 DEF Asks
<1>3. Len(toWorker) + 1 \in DOMAIN toWorker'
  BY <1>1 DEF Asks
<1> QED
  BY <1>1, <1>2, <1>3 DEF Asks, OpenedOnce

LEMMA InputDataKeeps == ASSUME PlayInv, PlayM4_InputData PROVE PlayInv'
<1>1. /\ frame' = frame /\ arrived' = arrived + 1 /\ stream = "open" /\ stream' = "open"
      /\ bPlay' = bPlay
      /\ bIsFirstFrame' = bIsFirstFrame
      /\ bIsInputBufOver' = bIsInputBufOver
      /\ aVideoFrameBuffer' = aVideoFrameBuffer /\ toMain' = toMain
      /\ bOpenStream' = bOpenStream /\ decoder' = decoder
      /\ picture' = picture /\ glObjects' = glObjects
  BY DEF PlayM4_InputData, workerVars, renderVars
<1>2. PlayTypes /\ OpenedOnce /\ NeverFrozen
  BY DEF PlayInv
<1>3. PICK type \in {"video", "audio", "skip"} :
        LET queued == Append(aInputData, [id |-> arrived', type |-> type])
        IN  \/ /\ Len(aInputData) = InputRoom
               /\ inputDataFun(aInputData, bIsInputBufOver)
               /\ failed' = TRUE /\ UNCHANGED bIsInput
            \/ /\ Len(aInputData) < InputRoom /\ (bIsFirstFrame \/ bIsGetYUV)
               /\ inputDataFun(queued, bIsInputBufOver)
               /\ UNCHANGED <<failed, bIsInput>>
            \/ /\ Len(aInputData) < InputRoom /\ ~ bIsFirstFrame /\ ~ bIsGetYUV
               /\ aInputData' = queued /\ bIsInput' = TRUE
               /\ UNCHANGED <<bIsGetYUV, toWorker, failed>>
  BY DEF PlayM4_InputData
<1> DEFINE queued == Append(aInputData, [id |-> arrived', type |-> type])
<1>4. queued \in Seq(Piece)
  <2>1. arrived \in Nat /\ aInputData \in Seq(Piece)
    BY <1>2 DEF PlayTypes
  <2>2. [id |-> arrived', type |-> type] \in Piece
    BY <1>1, <2>1 DEF Piece
  <2> QED
    BY <2>1, <2>2, Appended
<1>5. /\ failed' \in BOOLEAN /\ (failed => failed') /\ bIsInput' \in BOOLEAN
      /\ aInputData' \in Seq(Piece)
      /\ \/ Asks /\ bIsGetYUV' = FALSE
         \/ toWorker' = toWorker /\ bIsGetYUV' = bIsGetYUV
  <2>1. aInputData \in Seq(Piece) /\ failed \in BOOLEAN /\ bIsInput \in BOOLEAN
    BY <1>2 DEF PlayTypes
  <2>2. CASE inputDataFun(aInputData, bIsInputBufOver)
             /\ failed' = TRUE /\ bIsInput' = bIsInput
    BY <1>2, <2>1, <2>2, HandedOut
  <2>3. CASE inputDataFun(queued, bIsInputBufOver)
             /\ failed' = failed /\ bIsInput' = bIsInput
    <3> HIDE DEF queued
    <3> QED
      BY <1>2, <1>4, <2>1, <2>3, HandedOut
  <2>4. CASE /\ aInputData' = queued /\ bIsInput' = TRUE
             /\ bIsGetYUV' = bIsGetYUV /\ toWorker' = toWorker /\ failed' = failed
    BY <1>4, <2>1, <2>4
  <2> QED
    BY <1>3, <2>2, <2>3, <2>4
<1>6. arrived' \in Nat
  BY <1>1, <1>2 DEF PlayTypes
<1>7. PlayTypes'
  BY <1>1, <1>2, <1>5, <1>6 DEF PlayTypes, Asks
<1>8. OpenedOnce'
  <2>1. \A i \in DOMAIN toWorker' :
          toWorker'[i].command = "OpenStream" => i = 1 /\ ~ bOpenStream'
    BY <1>1, <1>2, <1>5, AskedInOrder DEF OpenedOnce
  <2> QED
    BY <1>1, <1>2, <2>1 DEF OpenedOnce
<1>9. NeverFrozen'
  BY <1>1, <1>2, <1>5, AskedInOrder DEF NeverFrozen
<1>10. RefusalFails' /\ FramesAreDrawn' /\ NothingAfterClose'
  BY <1>1, <1>5 DEF PlayInv, RefusalFails, FramesAreDrawn, NothingAfterClose
<1> QED
  BY <1>7, <1>8, <1>9, <1>10 DEF PlayInv

LEMMA CloseStreamKeeps == ASSUME PlayInv, PlayM4_CloseStream PROVE PlayInv'
<1>1. /\ frame' = frame /\ arrived' = arrived /\ stream = "open" /\ stream' = "closed"
      /\ bPlay' = FALSE
      /\ bIsFirstFrame' = bIsFirstFrame /\ bIsGetYUV' = bIsGetYUV /\ bIsInput' = bIsInput
      /\ bIsInputBufOver' = bIsInputBufOver /\ aInputData' = << >>
      /\ aVideoFrameBuffer' = << >> /\ toWorker' = Append(toWorker, CloseStream)
      /\ toMain' = toMain
      /\ bOpenStream' = bOpenStream /\ decoder' = decoder /\ failed' = failed
      /\ picture' = NoPicture /\ SR_Destroy
  BY DEF PlayM4_CloseStream, flags, workerVars, SR_Clear
<1>2. CloseStream \in Command /\ CloseStream.command = "CloseStream"
  <2>1. << >> \in Seq(Piece)
    OBVIOUS
  <2> QED
    BY <2>1 DEF CloseStream, Command
<1>3. /\ toWorker' \in Seq(Command) /\ Last(toWorker') = CloseStream
      /\ Len(toWorker) \in Nat /\ DOMAIN toWorker = 1 .. Len(toWorker)
      /\ DOMAIN toWorker' = 1 .. Len(toWorker) + 1
      /\ \A i \in 1 .. Len(toWorker) : toWorker'[i] = toWorker[i]
      /\ toWorker'[Len(toWorker) + 1] = CloseStream
  <2>1. toWorker \in Seq(Command)
    BY DEF PlayInv, PlayTypes
  <2> QED
    BY <1>1, <1>2, <2>1, Appended
<1>4. glObjects' = {}
  <2>1. glObjects \subseteq initProgram \cup initBuffers \cup initTextures
    BY DEF PlayInv, PlayTypes
  <2> QED
    BY <1>1, <2>1 DEF SR_Destroy
<1>5. PlayTypes'
  <2>1. << >> \in Seq(Piece) /\ << >> \in Seq(Nat)
    OBVIOUS
  <2> QED
    BY <1>1, <1>3, <1>4, <2>1 DEF PlayInv, PlayTypes
<1>6. OpenedOnce'
  <2>1. \A i \in DOMAIN toWorker' :
          toWorker'[i].command = "OpenStream" => i = 1 /\ ~ bOpenStream'
    BY <1>1, <1>2, <1>3 DEF PlayInv, OpenedOnce
  <2> QED
    BY <1>1, <2>1 DEF PlayInv, OpenedOnce
<1>7. RefusalFails' /\ FramesAreDrawn' /\ NeverFrozen' /\ NothingAfterClose'
  BY <1>1, <1>3, <1>4 DEF PlayInv, RefusalFails, FramesAreDrawn, NeverFrozen, NothingAfterClose
<1> QED
  BY <1>5, <1>6, <1>7 DEF PlayInv

LEMMA drawKeeps == ASSUME PlayInv, draw PROVE PlayInv'
<1>1. /\ frame' = frame /\ arrived' = arrived /\ stream' = stream /\ bPlay' = bPlay
      /\ bIsFirstFrame' = bIsFirstFrame /\ bIsGetYUV' = bIsGetYUV /\ bIsInput' = bIsInput
      /\ bIsInputBufOver' = bIsInputBufOver /\ aInputData' = aInputData
      /\ toWorker' = toWorker /\ toMain' = toMain
      /\ bOpenStream' = bOpenStream /\ decoder' = decoder /\ failed' = failed
      /\ glObjects' = glObjects
  BY DEF draw, flags, workerVars
<1>2. /\ aVideoFrameBuffer' \in Seq(Nat)
      /\ \/ bPlay /\ picture' = frame
         \/ ~ bPlay /\ picture' = picture /\ aVideoFrameBuffer' = << >>
  <2>1. aVideoFrameBuffer \in Seq(Nat)
    BY DEF PlayInv, PlayTypes
  <2>2. CASE bPlay
    <3>1. /\ Len(aVideoFrameBuffer) > YUVBufferSize /\ picture' = frame
          /\ aVideoFrameBuffer' = Tail(aVideoFrameBuffer)
      BY <2>2 DEF draw, SR_DisplayFrameData
    <3>2. aVideoFrameBuffer # << >>
      BY <3>1 DEF YUVBufferSize
    <3> QED
      BY <2>1, <2>2, <3>1, <3>2, TakenOff
  <2>3. CASE ~ bPlay
    <3>1. picture' = picture /\ aVideoFrameBuffer' = << >>
      BY <2>3 DEF draw
    <3>2. << >> \in Seq(Nat)
      OBVIOUS
    <3> QED
      BY <2>3, <3>1, <3>2
  <2> QED
    BY <2>2, <2>3
<1>3. PlayTypes'
  BY <1>1, <1>2 DEF PlayInv, PlayTypes
<1>4. OpenedOnce' /\ NeverFrozen' /\ RefusalFails'
  BY <1>1 DEF PlayInv, OpenedOnce, NeverFrozen, RefusalFails
<1>5. FramesAreDrawn'
  BY <1>1, <1>2 DEF PlayInv, PlayTypes, FramesAreDrawn
<1>6. NothingAfterClose'
  BY <1>1, <1>2 DEF PlayInv, OpenedOnce, NothingAfterClose
<1> QED
  BY <1>3, <1>4, <1>5, <1>6 DEF PlayInv

(* What a message does: more pieces are handed out, or nothing is and the   *)
(* page asks for the next piece, or the message was none of those that keep *)
(* the stream going.                                                        *)
KeepsGoing(message) == message.type \in {"video", "more", "over"}
Answered(message) ==
  /\ bIsFirstFrame' \in BOOLEAN /\ bIsGetYUV' \in BOOLEAN /\ bIsInput' \in BOOLEAN
  /\ bIsInputBufOver' \in BOOLEAN
  /\ aInputData' \in Seq(Piece) /\ (aInputData = << >> => aInputData' = << >>)
  /\ \/ Asks
     \/ /\ toWorker' = toWorker /\ message.type # "over"
        /\ ~ bIsFirstFrame' => \/ bIsGetYUV'
                               \/ ~ KeepsGoing(message) /\ bIsGetYUV' = bIsGetYUV
                                    /\ bIsFirstFrame' = bIsFirstFrame

LEMMA NeedMoreAnswered ==
  ASSUME PlayTypes, AnswerNeedMore, ~ bIsFirstFrame, NEW message PROVE Answered(message)
<1>1. /\ bIsInputBufOver' = FALSE /\ bIsInput' = bIsInput /\ bIsFirstFrame' = bIsFirstFrame
      /\ inputDataFun(aInputData, FALSE) /\ aInputData \in Seq(Piece)
      /\ bIsInput \in BOOLEAN /\ bIsFirstFrame \in BOOLEAN
  BY DEF AnswerNeedMore, PlayTypes
<1> QED
  BY <1>1, HandedOut DEF Answered

LEMMA FullAnswered ==
  ASSUME PlayTypes, NEW message, AnswerFull(message) PROVE Answered(message)
<1>1. /\ bIsInputBufOver' = bIsInputBufOver /\ bIsInput' = bIsInput
      /\ bIsFirstFrame' = (bIsFirstFrame /\ ~ (message.type = "video" /\ bVisibility))
      /\ inputDataFun(aInputData, TRUE) /\ aInputData \in Seq(Piece)
      /\ bIsInput \in BOOLEAN /\ bIsInputBufOver \in BOOLEAN
  BY DEF AnswerFull, PlayTypes
<1>2. bIsFirstFrame' \in BOOLEAN
  BY <1>1
<1> QED
  BY <1>1, <1>2, HandedOut DEF Answered

LEMMA PictureAnswered ==
  ASSUME PlayTypes, NEW message, message.type = "video", AnswerPicture
  PROVE  Answered(message)
<1>1. /\ bIsFirstFrame' = FALSE /\ bIsInputBufOver' = bIsInputBufOver
      /\ aInputData \in Seq(Piece) /\ bIsInput \in BOOLEAN /\ bIsInputBufOver \in BOOLEAN
  BY DEF AnswerPicture, PlayTypes
<1>2. CASE inputDataFun(aInputData, FALSE) /\ bIsInput' = FALSE
  BY <1>1, <1>2, HandedOut DEF Answered
<1>3. CASE /\ bIsGetYUV' = TRUE /\ bIsInput' = bIsInput /\ toWorker' = toWorker
           /\ aInputData' = aInputData
  BY <1>1, <1>3 DEF Answered
<1> QED
  BY <1>2, <1>3 DEF AnswerPicture

LEMMA NothingAnswered ==
  ASSUME PlayTypes, NEW message, message.type # "over",
         ~ bIsFirstFrame => ~ KeepsGoing(message),
         UNCHANGED <<flags, toWorker, aInputData>>
  PROVE  Answered(message)
<1>1. /\ bIsFirstFrame' = bIsFirstFrame /\ bIsGetYUV' = bIsGetYUV /\ bIsInput' = bIsInput
      /\ bIsInputBufOver' = bIsInputBufOver /\ toWorker' = toWorker
      /\ aInputData' = aInputData
  BY DEF flags
<1> QED
  BY <1>1 DEF PlayTypes, Answered

LEMMA MessageAnswered ==
  ASSUME PlayInv, OnMessage
  PROVE  /\ aVideoFrameBuffer' \in Seq(Nat)
         /\ bPlay => Answered(Head(toMain))
         /\ ~ bPlay => /\ aVideoFrameBuffer' = aVideoFrameBuffer
                       /\ \/ UNCHANGED <<flags, toWorker, aInputData>>
                          \/ Head(toMain).type = "over" /\ Answered(Head(toMain))
<1> DEFINE message == Head(toMain)
<1>1. PlayTypes /\ aVideoFrameBuffer \in Seq(Nat) /\ toMain # << >>
  BY DEF PlayInv, PlayTypes, OnMessage
<1>2. message \in Message
  BY <1>1, TakenOff DEF PlayTypes
<1> HIDE DEF message
<1>3. /\ message.function = "InputData" => message = BufOver
      /\ message.function = "GetFrameData" =>
           message.type # "over" /\ message.type \in {"video", "audio", "skip", "more"}
  BY <1>2 DEF Message, BufOver
<1>4. CASE message.function = "InputData"
  <2>1. /\ bIsInputBufOver' = TRUE /\ inputDataFun(aInputData, TRUE)
        /\ bIsFirstFrame' = bIsFirstFrame /\ bIsInput' = bIsInput
        /\ aVideoFrameBuffer' = aVideoFrameBuffer
    BY <1>4 DEF OnMessage, message
  <2>2. message.type = "over"
    BY <1>3, <1>4 DEF BufOver
  <2>3. aInputData \in Seq(Piece) /\ bIsFirstFrame \in BOOLEAN /\ bIsInput \in BOOLEAN
    BY <1>1 DEF PlayTypes
  <2>4. Answered(message)
    BY <1>1, <2>1, <2>3, HandedOut DEF Answered
  <2> QED
    BY <1>1, <2>1, <2>2, <2>4 DEF message
<1>5. CASE message.function = "GetFrameData" /\ ~ bPlay
  <2>1. GetFrameData(message)
    BY <1>5 DEF OnMessage, message
  <2>2. UNCHANGED <<flags, toWorker, aInputData, aVideoFrameBuffer>>
    BY <1>5, <2>1 DEF GetFrameData
  <2> QED
    BY <1>1, <1>5, <2>2
<1>6. CASE message.function = "GetFrameData" /\ bPlay
  <2>1. GetFrameData(message)
    BY <1>6 DEF OnMessage, message
  <2>2. KeepFrame(message)
    BY <1>6, <2>1 DEF GetFrameData
  <2>3. aVideoFrameBuffer' \in Seq(Nat)
    BY <1>1, <1>2, <2>2, FrameKept
  <2>4. ASSUME ~ bIsFirstFrame, AnswerNeedMore PROVE Answered(message)
    BY <1>1, <2>4, NeedMoreAnswered
  <2>5. ASSUME AnswerFull(message) PROVE Answered(message)
    BY <1>1, <2>5, FullAnswered
  <2>6. ASSUME message.type = "video", AnswerPicture PROVE Answered(message)
    BY <1>1, <2>6, PictureAnswered
  <2>7. ASSUME bIsFirstFrame \/ message.type # "more", message.type # "video",
               UNCHANGED <<flags, toWorker, aInputData>>
        PROVE  Answered(message)
    <3>1. message.type # "over" /\ (~ bIsFirstFrame => ~ KeepsGoing(message))
      BY <1>3, <1>6, <2>7 DEF KeepsGoing
    <3> QED
      BY <1>1, <2>7, <3>1, NothingAnswered
  <2>8. Answered(message)
    BY <1>6, <2>1, <2>4, <2>5, <2>6, <2>7 DEF GetFrameData
  <2> QED
    BY <1>6, <2>3, <2>8 DEF message
<1>7. message.function \in {"GetFrameData", "InputData"}
  BY <1>2 DEF Message, BufOver
<1> QED
  BY <1>4, <1>5, <1>6, <1>7

LEMMA OnMessageKeeps == ASSUME PlayInv, OnMessage PROVE PlayInv'
<1>1. /\ frame' = frame /\ arrived' = arrived /\ stream' = stream /\ bPlay' = bPlay
      /\ bOpenStream' = bOpenStream /\ decoder' = decoder /\ failed' = failed
      /\ picture' = picture /\ glObjects' = glObjects
      /\ toMain # << >> /\ toMain' = Tail(toMain)
  BY DEF OnMessage, workerVars, renderVars
<1>2. PlayTypes /\ OpenedOnce /\ NeverFrozen /\ RefusalFails /\ toMain \in Seq(Message)
  BY DEF PlayInv, PlayTypes
<1>3. /\ toMain' \in Seq(Message) /\ Head(toMain) = toMain[1]
      /\ Len(toMain) \in Nat /\ Len(toMain) >= 1 /\ DOMAIN toMain = 1 .. Len(toMain)
      /\ DOMAIN toMain' = 1 .. Len(toMain) - 1
      /\ \A i \in 1 .. Len(toMain) - 1 : toMain'[i] = toMain[i + 1]
  BY <1>1, <1>2, TakenOff
<1>4. stream # "none" /\ bOpenStream
  BY <1>1, <1>2 DEF OpenedOnce
<1>5. /\ bIsFirstFrame' \in BOOLEAN /\ bIsGetYUV' \in BOOLEAN /\ bIsInput' \in BOOLEAN
      /\ bIsInputBufOver' \in BOOLEAN /\ aInputData' \in Seq(Piece)
      /\ aVideoFrameBuffer' \in Seq(Nat)
      /\ (aInputData = << >> => aInputData' = << >>)
      /\ Asks \/ toWorker' = toWorker
  <2>1. CASE Answered(Head(toMain))
    BY <2>1, MessageAnswered DEF Answered
  <2>2. CASE UNCHANGED <<flags, toWorker, aInputData>>
    <3>1. /\ bIsFirstFrame' = bIsFirstFrame /\ bIsGetYUV' = bIsGetYUV
          /\ bIsInput' = bIsInput /\ bIsInputBufOver' = bIsInputBufOver
          /\ toWorker' = toWorker /\ aInputData' = aInputData
      BY <2>2 DEF flags
    <3> QED
      BY <1>2, <3>1, MessageAnswered DEF PlayTypes
  <2> QED
    BY <2>1, <2>2, MessageAnswered
<1>6. PlayTypes'
  BY <1>1, <1>2, <1>3, <1>5 DEF PlayTypes, Asks
<1>7. OpenedOnce'
  <2>1. \A i \in DOMAIN toWorker' :
          toWorker'[i].command = "OpenStream" => i = 1 /\ ~ bOpenStream'
    BY <1>1, <1>2, <1>5, AskedInOrder DEF OpenedOnce
  <2> QED
    BY <1>1, <1>2, <1>4, <2>1 DEF OpenedOnce
<1>8. NeverFrozen'
  <2> SUFFICES ASSUME bPlay, ~ bIsFirstFrame', ~ bIsGetYUV' PROVE NeverFrozen'
    BY <1>1 DEF NeverFrozen
  <2>1. CASE Asks
    BY <1>1, <1>2, <2>1, AskedInOrder DEF NeverFrozen
  <2>2. CASE ~ Asks
    <3>1. /\ toWorker' = toWorker /\ ~ KeepsGoing(toMain[1])
          /\ ~ bIsFirstFrame /\ ~ bIsGetYUV
      BY <1>3, <2>2, MessageAnswered DEF Answered
    <3>2. \/ \E i \in DOMAIN toWorker : toWorker[i].command = "InputData"
          \/ \E i \in 1 .. Len(toMain) : KeepsGoing(toMain[i])
      BY <1>2, <1>3, <3>1 DEF NeverFrozen, KeepsGoing
    <3>3. ASSUME NEW i \in 1 .. Len(toMain), KeepsGoing(toMain[i])
          PROVE  \E k \in DOMAIN toMain' : KeepsGoing(toMain'[k])
      <4>1. i - 1 \in 1 .. Len(toMain) - 1 /\ i = (i - 1) + 1
        BY <1>3, <3>1, <3>3
      <4> QED
        BY <1>3, <3>3, <4>1
    <3> QED
      BY <1>1, <3>1, <3>2, <3>3 DEF NeverFrozen, KeepsGoing
  <2> QED
    BY <2>1, <2>2
<1>9. RefusalFails'
  <2>1. \A i \in DOMAIN toMain' : i + 1 \in DOMAIN toMain /\ toMain'[i] = toMain[i + 1]
    BY <1>3
  <2> QED
    BY <1>1, <1>2, <2>1 DEF RefusalFails
<1>10. FramesAreDrawn'
  BY <1>1 DEF PlayInv, FramesAreDrawn
<1>11. NothingAfterClose'
  <2> SUFFICES ASSUME stream = "closed" PROVE NothingAfterClose'
    BY <1>1 DEF NothingAfterClose
  <2>1. ~ bPlay
    BY <1>2 DEF OpenedOnce
  <2>2. /\ aVideoFrameBuffer = << >> /\ aInputData = << >> /\ glObjects = {}
        /\ picture = NoPicture
        /\ failed \/ toWorker = << >> \/ Last(toWorker) = CloseStream
    BY DEF PlayInv, NothingAfterClose
  <2>3. aVideoFrameBuffer' = << >> /\ aInputData' = << >>
    BY <1>5, <2>1, <2>2, MessageAnswered
  <2>4. failed \/ toWorker' = toWorker
    <3>1. Head(toMain).type = "over" => failed
      BY <1>2, <1>3 DEF RefusalFails
    <3> QED
      BY <2>1, <3>1, MessageAnswered
  <2> QED
    BY <1>1, <2>2, <2>3, <2>4 DEF NothingAfterClose
<1> QED
  BY <1>6, <1>7, <1>8, <1>9, <1>10, <1>11 DEF PlayInv

-----------------------------------------------------------------------------
(* The worker's steps.                                                      *)

LEMMA Joined ==
  ASSUME NEW S, NEW s \in Seq(S), NEW t \in Seq(S)
  PROVE  /\ s \o t \in Seq(S) /\ Len(s) \in Nat /\ Len(t) \in Nat
         /\ DOMAIN s = 1 .. Len(s) /\ DOMAIN (s \o t) = 1 .. Len(s) + Len(t)
         /\ \A i \in 1 .. Len(s) : (s \o t)[i] = s[i]
         /\ \A i \in 1 .. Len(t) : (s \o t)[Len(s) + i] = t[i]
         /\ \A i \in 1 .. Len(s) + Len(t) :
              (s \o t)[i] \in {s[k] : k \in 1 .. Len(s)} \cup {t[k] : k \in 1 .. Len(t)}
<1>1. Len(s) \in Nat /\ Len(t) \in Nat /\ DOMAIN s = 1 .. Len(s)
  BY LenProperties
<1>2. /\ s \o t \in Seq(S) /\ Len(s \o t) = Len(s) + Len(t)
      /\ \A i \in 1 .. Len(s) + Len(t) :
           (s \o t)[i] = IF i <= Len(s) THEN s[i] ELSE t[i - Len(s)]
  BY ConcatProperties
<1>3. DOMAIN (s \o t) = 1 .. Len(s) + Len(t)
  BY <1>2, LenProperties
<1>4. \A i \in 1 .. Len(s) : (s \o t)[i] = s[i]
  BY <1>1, <1>2
<1>5. ASSUME NEW i \in 1 .. Len(t) PROVE (s \o t)[Len(s) + i] = t[i]
  <2>1. Len(s) + i \in 1 .. Len(s) + Len(t) /\ ~ Len(s) + i <= Len(s)
        /\ (Len(s) + i) - Len(s) = i
    BY <1>1
  <2> QED
    BY <1>2, <2>1
<1>6. ASSUME NEW i \in 1 .. Len(s) + Len(t)
      PROVE  (s \o t)[i] \in {s[k] : k \in 1 .. Len(s)} \cup {t[k] : k \in 1 .. Len(t)}
  <2>1. CASE i <= Len(s)
    <3>1. i \in 1 .. Len(s)
      BY <1>1, <2>1
    <3> QED
      BY <1>4, <3>1
  <2>2. CASE ~ i <= Len(s)
    <3>1. i - Len(s) \in 1 .. Len(t) /\ (s \o t)[i] = t[i - Len(s)]
      BY <1>1, <1>2, <2>2
    <3> QED
      BY <3>1
  <2> QED
    BY <2>1, <2>2
<1> QED
  BY <1>1, <1>2, <1>3, <1>4, <1>5, <1>6

(* What the worker has posted: after what is under way, at least the news   *)
(* of a picture or of its need when it was given data; and that it is full  *)
(* only when it has refused a piece.                                        *)
Posts ==
  /\ toMain' \in Seq(Message) /\ decoder' \in Seq(Piece)
  /\ bOpenStream' \in BOOLEAN /\ failed' \in BOOLEAN /\ (failed => failed')
  /\ bOpenStream => bOpenStream'
  /\ toMain' # << >> => bOpenStream'
  /\ \A i \in DOMAIN toMain : i \in DOMAIN toMain' /\ toMain'[i] = toMain[i]
  /\ \A i \in DOMAIN toMain' : toMain'[i].type = "over" => failed'
  /\ Head(toWorker).command = "InputData" /\ bOpenStream =>
       \E i \in DOMAIN toMain' : toMain'[i].type \in {"video", "more"}

LEMMA OpensPosts == ASSUME PlayInv, toWorker # << >>, WorkerOpens PROVE Posts
<1>1. /\ toMain' = toMain /\ decoder' = decoder /\ Head(toWorker).command = "OpenStream"
      /\ \E ok \in BOOLEAN : bOpenStream' = ok /\ failed' = (failed \/ ~ ok)
  BY DEF WorkerOpens
<1>2. /\ toMain \in Seq(Message) /\ decoder \in Seq(Piece) /\ failed \in BOOLEAN
      /\ toWorker \in Seq(Command)
  BY DEF PlayInv, PlayTypes
<1>3. ~ bOpenStream /\ toMain = << >>
  <2>1. 1 \in DOMAIN toWorker /\ toWorker[1].command = "OpenStream"
    BY <1>1, <1>2, TakenOff
  <2> QED
    BY <2>1 DEF PlayInv, OpenedOnce
<1>4. bOpenStream' \in BOOLEAN /\ failed' \in BOOLEAN /\ (failed => failed')
  BY <1>1, <1>2
<1> QED
  BY <1>1, <1>2, <1>3, <1>4 DEF Posts

LEMMA QuietPosts ==
  ASSUME PlayInv, toMain' = toMain, failed' = failed, bOpenStream' = bOpenStream,
         decoder' \in Seq(Piece), ~ bOpenStream \/ Head(toWorker).command # "InputData"
  PROVE  Posts
BY DEF PlayInv, PlayTypes, OpenedOnce, RefusalFails, Posts

LEMMA DecodesPosts == ASSUME PlayInv, toWorker # << >>, WorkerDecodes PROVE Posts
<1>1. /\ toMain \in Seq(Message) /\ decoder \in Seq(Piece) /\ failed \in BOOLEAN
      /\ bOpenStream \in BOOLEAN /\ toWorker \in Seq(Command)
  BY DEF PlayInv, PlayTypes
<1>2. bOpenStream' = bOpenStream
  BY DEF WorkerDecodes
<1>3. CASE ~ bOpenStream
  <2>1. toMain' = toMain /\ decoder' = decoder /\ failed' = failed
    BY <1>3 DEF WorkerDecodes
  <2> QED
    BY <1>1, <1>2, <1>3, <2>1, QuietPosts
<1>4. CASE bOpenStream
  <2> DEFINE data == Head(toWorker).data
             full == Len(decoder) + Len(data) > DecoderRoom
             queued == IF full THEN decoder ELSE decoder \o data
             posted == FramesOf(queued).posted
             refusal == IF full THEN <<BufOver>> ELSE << >>
             sent == toMain \o refusal
  <2>1. /\ decoder' = FramesOf(queued).left /\ toMain' = sent \o posted
        /\ failed' = (failed \/ full)
    BY <1>4 DEF WorkerDecodes
  <2>2. data \in Seq(Piece)
    <3>1. Head(toWorker) \in Command
      BY <1>1, TakenOff
    <3> QED
      BY <3>1 DEF Command
  <2>3. queued \in Seq(Piece)
    BY <1>1, <2>2, Joined
  <2> HIDE DEF queued, data
  <2>4. /\ posted \in Seq(Message) /\ decoder' \in Seq(Piece)
        /\ Len(posted) >= 1
        /\ \A i \in 1 .. Len(posted) : posted[i].type # "over"
        /\ posted[Len(posted)].type \in {"video", "more"}
    BY <2>1, <2>3, FramesPosted
  <2>5. /\ refusal \in Seq(Message)
        /\ \A i \in 1 .. Len(refusal) : full
    <3>1. BufOver \in Message
      BY DEF Message
    <3>2. << >> \in Seq(Message) /\ Len(<< >>) = 0
      OBVIOUS
    <3>3. <<BufOver>> \in Seq(Message)
      BY <3>1
    <3> QED
      BY <3>2, <3>3
  <2> HIDE DEF refusal, posted, full
  <2>6. /\ sent \in Seq(Message) /\ Len(toMain) \in Nat /\ Len(refusal) \in Nat
        /\ DOMAIN toMain = 1 .. Len(toMain) /\ DOMAIN sent = 1 .. Len(toMain) + Len(refusal)
        /\ \A i \in 1 .. Len(toMain) : sent[i] = toMain[i]
        /\ \A i \in 1 .. Len(toMain) + Len(refusal) :
             sent[i] \in {toMain[k] : k \in 1 .. Len(toMain)}
                           \cup {refusal[k] : k \in 1 .. Len(refusal)}
    BY <1>1, <2>5, Joined
  <2>7. \A i \in DOMAIN sent : sent[i].type = "over" => failed \/ full
    BY <2>5, <2>6 DEF PlayInv, RefusalFails
  <2> HIDE DEF sent
  <2>8. /\ sent \o posted \in Seq(Message) /\ Len(sent) \in Nat /\ Len(posted) \in Nat
        /\ DOMAIN sent = 1 .. Len(sent)
        /\ DOMAIN (sent \o posted) = 1 .. Len(sent) + Len(posted)
        /\ \A i \in 1 .. Len(sent) : (sent \o posted)[i] = sent[i]
        /\ \A i \in 1 .. Len(posted) : (sent \o posted)[Len(sent) + i] = posted[i]
        /\ \A i \in 1 .. Len(sent) + Len(posted) :
             (sent \o posted)[i] \in {sent[k] : k \in 1 .. Len(sent)}
                                       \cup {posted[k] : k \in 1 .. Len(posted)}
    BY <2>4, <2>6, Joined
  <2>9. \A i \in DOMAIN toMain : i \in DOMAIN toMain' /\ toMain'[i] = toMain[i]
    <3>1. TAKE i \in DOMAIN toMain
    <3>2. i \in 1 .. Len(toMain) /\ i \in DOMAIN sent /\ sent[i] = toMain[i]
      BY <2>6
    <3>3. i \in 1 .. Len(sent) /\ i \in 1 .. Len(sent) + Len(posted)
      BY <2>8, <3>2
    <3> QED
      BY <2>1, <2>8, <3>2, <3>3
  <2>10. \A i \in DOMAIN toMain' : toMain'[i].type = "over" => failed'
    <3>1. TAKE i \in DOMAIN toMain'
    <3>2. \/ \E k \in DOMAIN sent : toMain'[i] = sent[k]
          \/ \E k \in 1 .. Len(posted) : toMain'[i] = posted[k]
      BY <2>1, <2>8
    <3> QED
      BY <2>1, <2>4, <2>7, <3>2
  <2>11. \E i \in DOMAIN toMain' : toMain'[i].type \in {"video", "more"}
    <3>1. Len(posted) \in 1 .. Len(posted)
          /\ Len(sent) + Len(posted) \in 1 .. Len(sent) + Len(posted)
      BY <2>4, <2>8
    <3>2. toMain'[Len(sent) + Len(posted)] = posted[Len(posted)]
      BY <2>1, <2>8, <3>1
    <3> QED
      BY <2>1, <2>4, <2>8, <3>1, <3>2
  <2>12. toMain' \in Seq(Message) /\ failed' \in BOOLEAN /\ (failed => failed')
    BY <1>1, <2>1, <2>8 DEF full
  <2> QED
    BY <1>1, <1>2, <1>4, <2>4, <2>9, <2>10, <2>11, <2>12 DEF Posts
<1> QED
  BY <1>3, <1>4

LEMMA WorkerStepKeeps == ASSUME PlayInv, WorkerStep PROVE PlayInv'
<1>1. /\ frame' = frame /\ arrived' = arrived /\ stream' = stream /\ bPlay' = bPlay
      /\ bIsFirstFrame' = bIsFirstFrame /\ bIsGetYUV' = bIsGetYUV /\ bIsInput' = bIsInput
      /\ bIsInputBufOver' = bIsInputBufOver /\ aInputData' = aInputData
      /\ aVideoFrameBuffer' = aVideoFrameBuffer
      /\ picture' = picture /\ glObjects' = glObjects
      /\ toWorker # << >> /\ toWorker' = Tail(toWorker)
  BY DEF WorkerStep, flags, renderVars
<1>2. PlayTypes /\ OpenedOnce /\ NeverFrozen /\ toWorker \in Seq(Command)
  BY DEF PlayInv, PlayTypes
<1>3. /\ toWorker' \in Seq(Command) /\ Head(toWorker) = toWorker[1]
      /\ Len(toWorker) \in Nat /\ Len(toWorker) >= 1 /\ DOMAIN toWorker = 1 .. Len(toWorker)
      /\ DOMAIN toWorker' = 1 .. Len(toWorker) - 1
      /\ \A i \in 1 .. Len(toWorker) - 1 : toWorker'[i] = toWorker[i + 1]
      /\ toWorker' # << >> => Last(toWorker') = Last(toWorker)
  BY <1>1, <1>2, TakenOff
<1>4. Posts
  <2>1. CASE WorkerOpens
    BY <1>1, <2>1, OpensPosts
  <2>2. CASE WorkerDecodes
    BY <1>1, <2>2, DecodesPosts
  <2>3. CASE WorkerCloses
    <3>1. << >> \in Seq(Piece)
      OBVIOUS
    <3>2. /\ toMain' = toMain /\ failed' = failed /\ bOpenStream' = bOpenStream
          /\ decoder' = << >> /\ Head(toWorker).command = "CloseStream"
      BY <2>3 DEF WorkerCloses
    <3>3. decoder' \in Seq(Piece) /\ Head(toWorker).command # "InputData"
      BY <3>1, <3>2
    <3> QED
      BY <3>2, <3>3, QuietPosts
  <2> QED
    BY <2>1, <2>2, <2>3 DEF WorkerStep
<1>5. stream # "none"
  BY <1>1, <1>2 DEF OpenedOnce
<1>6. PlayTypes'
  BY <1>1, <1>2, <1>3, <1>4 DEF PlayTypes, Posts
<1>7. OpenedOnce'
  <2>1. \A i \in DOMAIN toWorker' : toWorker'[i].command # "OpenStream"
    <3>1. TAKE i \in DOMAIN toWorker'
    <3>2. i + 1 \in DOMAIN toWorker /\ i + 1 # 1 /\ toWorker'[i] = toWorker[i + 1]
      BY <1>3
    <3> QED
      BY <1>2, <3>2 DEF OpenedOnce
  <2>2. toMain' # << >> \/ ~ bIsFirstFrame' => bOpenStream'
    BY <1>1, <1>2, <1>4 DEF OpenedOnce, Posts
  <2> QED
    BY <1>1, <1>2, <1>5, <2>1, <2>2 DEF OpenedOnce
<1>8. NeverFrozen'
  <2> SUFFICES ASSUME bPlay, ~ bIsFirstFrame, ~ bIsGetYUV PROVE NeverFrozen'
    BY <1>1 DEF NeverFrozen
  <2>1. bOpenStream
    BY <1>2 DEF OpenedOnce
  <2>2. CASE Head(toWorker).command = "InputData"
    BY <1>4, <2>1, <2>2 DEF NeverFrozen, Posts
  <2>3. CASE \E i \in DOMAIN toMain : toMain[i].type \in {"video", "more", "over"}
    BY <1>4, <2>3 DEF NeverFrozen, Posts
  <2>4. CASE /\ Head(toWorker).command # "InputData"
             /\ \E i \in DOMAIN toWorker : toWorker[i].command = "InputData"
    <3>1. PICK i \in 1 .. Len(toWorker) : toWorker[i].command = "InputData"
      BY <1>3, <2>4
    <3>2. i # 1
      BY <1>3, <2>4, <3>1
    <3>3. i - 1 \in 1 .. Len(toWorker) - 1 /\ (i - 1) + 1 = i
      BY <1>3, <3>2
    <3>4. i - 1 \in DOMAIN toWorker' /\ toWorker'[i - 1].command = "InputData"
      BY <1>3, <3>1, <3>3
    <3> QED
      BY <3>4 DEF NeverFrozen
  <2> QED
    BY <1>2, <2>2, <2>3, <2>4 DEF NeverFrozen
<1>9. RefusalFails'
  BY <1>4 DEF RefusalFails, Posts
<1>10. FramesAreDrawn'
  BY <1>1 DEF PlayInv, FramesAreDrawn
<1>11. NothingAfterClose'
  BY <1>1, <1>3, <1>4 DEF PlayInv, NothingAfterClose, Posts
<1> QED
  BY <1>6, <1>7, <1>8, <1>9, <1>10, <1>11 DEF PlayInv

-----------------------------------------------------------------------------
LEMMA PlayInitHolds == ASSUME PlayInit PROVE PlayInv
<1>1. << >> \in Seq(Piece) /\ << >> \in Seq(Nat) /\ << >> \in Seq(Command)
      /\ << >> \in Seq(Message) /\ DOMAIN << >> = {}
  OBVIOUS
<1>2. PlayTypes
  BY <1>1 DEF PlayInit, RenderInit, PlayTypes
<1>3. OpenedOnce /\ NeverFrozen /\ RefusalFails /\ NothingAfterClose /\ FramesAreDrawn
  BY <1>1 DEF PlayInit, RenderInit, OpenedOnce, NeverFrozen, RefusalFails,
              NothingAfterClose, FramesAreDrawn
<1> QED
  BY <1>2, <1>3 DEF PlayInv

LEMMA PlayNextKeeps == ASSUME PlayInv, [PlayNext]_playVars PROVE PlayInv'
<1>1. CASE PlayM4_Play
  BY <1>1, PlayKeeps
<1>2. CASE PlayM4_InputData
  BY <1>2, InputDataKeeps
<1>3. CASE PlayM4_CloseStream
  BY <1>3, CloseStreamKeeps
<1>4. CASE SetVisibility
  BY <1>4, SameAgain DEF SetVisibility, workerVars
<1>5. CASE OnMessage
  BY <1>5, OnMessageKeeps
<1>6. CASE draw
  BY <1>6, drawKeeps
<1>7. CASE WorkerStep
  BY <1>7, WorkerStepKeeps
<1>8. CASE UNCHANGED playVars
  BY <1>8, SameAgain DEF playVars
<1> QED
  BY <1>1, <1>2, <1>3, <1>4, <1>5, <1>6, <1>7, <1>8 DEF PlayNext

(* In every order of pieces, pictures, sound and refusals, for every size   *)
(* of the buffers, once there has been a picture one of the two threads     *)
(* will ask for the next piece.                                             *)
THEOREM NeverFrozenHolds == PlaySpec => []NeverFrozen
<1>1. PlayInit => PlayInv
  BY PlayInitHolds
<1>2. PlayInv /\ [PlayNext]_playVars => PlayInv'
  BY PlayNextKeeps
<1>3. PlayInv => NeverFrozen
  BY DEF PlayInv
<1> QED
  BY <1>1, <1>2, <1>3, PTL DEF PlaySpec

(* For every size of a stream's frames, what is drawn is the picture cut to *)
(* its size, sample by sample; a closed player holds and draws nothing.     *)
THEOREM PictureIsRightHolds == PlaySpec => []PictureIsRight
<1>1. PlayInit => PlayInv
  BY PlayInitHolds
<1>2. PlayInv /\ [PlayNext]_playVars => PlayInv'
  BY PlayNextKeeps
<1>3. PlayInv => PictureIsRight
  BY PictureIsCut DEF PlayInv, PictureIsRight
<1> QED
  BY <1>1, <1>2, <1>3, PTL DEF PlaySpec

=============================================================================
