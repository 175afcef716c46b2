---------------------------- MODULE AutoRecorder ----------------------------
(***************************************************************************)
(* The "auto record" button of the page (src/APP/html/script/main.js,      *)
(* 1290-1374): a chain of MediaRecorders, each recording one segment of    *)
(* the canvas, which is uploaded when the recorder has stopped; 300 ms     *)
(* later the next one starts.                                              *)
(*                                                                         *)
(* A recorder is numbered by its start. stop() only asks: the recorder     *)
(* hands out its data and then says that it has stopped, in two callbacks. *)
(* Every callback is one step. The callbacks share the variables           *)
(* `recorder' and `chunks', whichever recorder they belong to.             *)
(***************************************************************************)
EXTENDS Naturals, Sequences, FiniteSets

CONSTANT MaxSegments   (* bound: recorders started                          *)

ASSUME RecorderAssumption == MaxSegments \in Nat

VARIABLES
  autoOn,
  state,        (* of every recorder: "recording", "stopping" (asked to),   *)
                (* "flushed" (has handed out its data) or "stopped"         *)
  recorder,     (* the recorder the page knows, 0: none yet                 *)
  chunks,       (* whose data is in chunks                                  *)
  segTimers,    (* pending ends of segments, by the recorder started with   *)
  segTimer,     (* the one the page knows                                   *)
  restarts,     (* pending setTimeout(startSegment, 300)                    *)
                (* History, since recording was started from rest:          *)
  overlaps,     (* clicks on start before what was switched off had ended   *)
  withData,     (* segments that handed out data                            *)
  uploads       (* what was uploaded, in order, until the first of those    *)

recorderHistory == <<overlaps, withData, uploads>>
recorderVars == <<autoOn, state, recorder, chunks, segTimers, segTimer, restarts,
                  recorderHistory>>

Recorders == 1 .. Len(state)
Recording == {r \in Recorders : state[r] # "stopped"}

(* A recorder that has not stopped yet, or a restart that is still due.     *)
Unfinished == Recording # {} \/ restarts > 0

(* recorder.stop(), if it is not inactive already.                          *)
StopRecorder ==
  state' = IF recorder # 0 /\ state[recorder] = "recording"
           THEN [state EXCEPT ![recorder] = "stopping"] ELSE state

startSegment ==
  /\ Len(state) < MaxSegments
  /\ chunks' = << >>
  /\ state' = Append(state, "recording")
  /\ recorder' = Len(state')
  /\ segTimers' = segTimers \cup {recorder'} /\ segTimer' = recorder'

-----------------------------------------------------------------------------
(* The button. Nothing keeps the user from clicking again at once.          *)

ClickStart ==
  /\ ~ autoOn
  /\ autoOn' = TRUE
  /\ startSegment
  /\ overlaps' = IF Unfinished THEN overlaps + 1 ELSE 0
  /\ withData' = {} /\ uploads' = << >>
  /\ UNCHANGED restarts

(* Variant: the segment is not stopped.                                     *)
ClickStop_NoStop ==
  /\ autoOn
  /\ autoOn' = FALSE
  /\ segTimers' = segTimers \ {segTimer}
  /\ UNCHANGED <<state, recorder, chunks, segTimer, restarts, recorderHistory>>

ClickStop ==
  /\ autoOn
  /\ autoOn' = FALSE
  /\ segTimers' = segTimers \ {segTimer}
  /\ StopRecorder
  /\ UNCHANGED <<recorder, chunks, segTimer, restarts, recorderHistory>>

-----------------------------------------------------------------------------
(* Timers and the callbacks of a recorder.                                  *)

(* Variant: the timer asks for the next segment too.                        *)
SegmentEnds_Restarts(t) ==
  /\ t \in segTimers
  /\ segTimers' = segTimers \ {t}
  /\ StopRecorder
  /\ restarts' = IF autoOn THEN restarts + 1 ELSE restarts
  /\ UNCHANGED <<autoOn, recorder, chunks, segTimer, recorderHistory>>

SegmentEnds(t) ==
  /\ t \in segTimers
  /\ segTimers' = segTimers \ {t}
  /\ StopRecorder
  /\ UNCHANGED <<autoOn, recorder, chunks, segTimer, restarts, recorderHistory>>

(* There may be nothing in the data.                                        *)
OnDataAvailable(r) ==
  /\ state[r] = "stopping"
  /\ state' = [state EXCEPT ![r] = "flushed"]
  /\ \/ chunks' = chunks /\ UNCHANGED withData
     \/ chunks' = Append(chunks, r) /\ withData' = withData \cup {r}
  /\ UNCHANGED <<autoOn, recorder, segTimers, segTimer, restarts, uploads, overlaps>>

(* fetch(recordUrl(), ...), if there is anything to send.                   *)
Upload ==
  uploads' = IF chunks # << >> /\ overlaps = 0 THEN Append(uploads, chunks) ELSE uploads

(* Variant: a segment without data ends the chain.                          *)
OnStop_EmptyEnds(r) ==
  /\ state[r] = "flushed"
  /\ state' = [state EXCEPT ![r] = "stopped"]
  /\ Upload
  /\ restarts' = IF autoOn /\ chunks # << >> THEN restarts + 1 ELSE restarts
  /\ UNCHANGED <<autoOn, recorder, chunks, segTimers, segTimer, withData, overlaps>>

OnStop(r) ==
  /\ state[r] = "flushed"
  /\ state' = [state EXCEPT ![r] = "stopped"]
  /\ Upload
  /\ restarts' = IF autoOn THEN restarts + 1 ELSE restarts
  /\ UNCHANGED <<autoOn, recorder, chunks, segTimers, segTimer, withData, overlaps>>

(* Variant: the chunks of the last segment are kept.                        *)
RestartSegment_KeepsChunks ==
  /\ restarts > 0 /\ restarts' = restarts - 1
  /\ Len(state) < MaxSegments
  /\ state' = Append(state, "recording")
  /\ recorder' = Len(state')
  /\ segTimers' = segTimers \cup {recorder'} /\ segTimer' = recorder'
  /\ UNCHANGED <<autoOn, chunks, recorderHistory>>

(* Nobody asks again whether recording is still on.                         *)
RestartSegment ==
  /\ restarts > 0 /\ restarts' = restarts - 1
  /\ startSegment
  /\ UNCHANGED <<autoOn, recorderHistory>>

-----------------------------------------------------------------------------
RecorderInit ==
  /\ autoOn = FALSE /\ state = << >> /\ recorder = 0
  /\ chunks = << >> /\ segTimers = {} /\ segTimer = 0
  /\ restarts = 0 /\ uploads = << >> /\ withData = {} /\ overlaps = 0

Callback ==
  \/ \E t \in segTimers : SegmentEnds(t)
  \/ \E r \in Recorders : OnDataAvailable(r) \/ OnStop(r)
  \/ RestartSegment

RecorderNext == ClickStart \/ ClickStop \/ Callback

RecorderSpec == RecorderInit /\ [][RecorderNext]_recorderVars

(* Timers and callbacks come; nothing is assumed of the user.               *)
FairRecorderSpec == RecorderSpec /\ WF_recorderVars(Callback)

-----------------------------------------------------------------------------
(* Properties.                                                              *)

(* Variables have their types.                                              *)
RecorderTypeOK ==
  /\ autoOn \in BOOLEAN
  /\ state \in Seq({"recording", "stopping", "flushed", "stopped"})
  /\ recorder \in 0 .. Len(state) /\ segTimer \in 0 .. Len(state)
  /\ segTimers \subseteq Recorders
  /\ restarts \in Nat /\ overlaps \in Nat
  /\ withData \subseteq Recorders
  /\ \A i \in DOMAIN chunks : chunks[i] \in Recorders

(* Only a click starts a chain of segments; timers and callbacks carry on   *)
(* those there are. A click on stop and one on start before the last        *)
(* recorder has stopped, or in the 300 ms after it, start one more.         *)
ChainsAreCounted == Cardinality(Recording) + restarts <= 1 + overlaps

(* A segment that is recorded ends by the timer that was set for it, and    *)
(* no timer is left that would cut another one short.                       *)
EachHasItsTimer == segTimers = {r \in Recorders : state[r] = "recording"}

(* An upload is one segment, whole and alone; in the order they were        *)
(* recorded, all that had data and have stopped are uploaded once.          *)
EachIsUploaded ==
  /\ \A i \in DOMAIN uploads : Len(uploads[i]) = 1
  /\ \A i, j \in DOMAIN uploads : i < j => uploads[i][1] < uploads[j][1]
  /\ {uploads[i][1] : i \in DOMAIN uploads} = {r \in withData : state[r] = "stopped"}

(* Whatever the user clicks, callbacks never multiply the chains; and from  *)
(* a start at rest on, while no click on start comes too early, segments    *)
(* follow one another and each is uploaded as one, also when recording is   *)
(* switched off while a restart is due.                                     *)
RecordsInTurn == ChainsAreCounted /\ (overlaps = 0 => EachHasItsTimer /\ EachIsUploaded)

(* Switched on, one segment follows the other, whatever was clicked; and    *)
(* what is switched off comes to rest, a restart that was due included.     *)
KeepsRecording ==
  /\ autoOn ~> (~ autoOn \/ Len(state) = MaxSegments)
  /\ ~ autoOn ~> (autoOn \/ ~ Unfinished \/ overlaps > 0 \/ Len(state) = MaxSegments)

=============================================================================
