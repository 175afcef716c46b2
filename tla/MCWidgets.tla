----------------------------- MODULE MCWidgets -----------------------------
(***************************************************************************)
(* The parts of the page that work by timers, callbacks and messages of    *)
(* their own, side by side for TLC: a behaviour picks one of them and      *)
(* stays with it, the others rest.                                         *)
(*   overlay   a page that polls a device which starts twice; times in     *)
(*             units of the poll interval;                                 *)
(*   recorder  a few segments, and a user who clicks at any moment;        *)
(*   dialog    a few prompts of two kinds and the dialog that preloads;    *)
(*   player    one stream of a few pieces: frames as the decoder rounds    *)
(*             them up, larger than the picture in one direction, in both  *)
(*             and in none;                                                *)
(*   audio     two windows, a volume that is set, a few pieces of sound;   *)
(*   ready     three blocks of $(document).ready, two holds.               *)
(***************************************************************************)
EXTENDS DetectOverlay, AutoRecorder, ArtDialog, PlayCtrl, AudioRenderer, PageReady

CONSTANTS MaxTips   (* bound: prompts                                      *)

Sizes == {[width |-> 8, height |-> 8, dWidth |-> 8, dHeight |-> 8],
          [width |-> 8, height |-> 8, dWidth |-> 4, dHeight |-> 6],
          [width |-> 8, height |-> 4, dWidth |-> 8, dHeight |-> 2]}

VARIABLES
  widget,   (* the one that runs                                           *)
  tips      (* prompts so far                                              *)

FewTips ==
  \/ DialogEvents /\ UNCHANGED tips
  \/ /\ tips < MaxTips /\ tips' = tips + 1
     /\ \E msg \in Messages : tip(msg)

WidgetsInit ==
  /\ widget \in {"overlay", "recorder", "dialog", "player", "audio", "ready"}
  /\ tips = 0
  /\ OverlayInit /\ RecorderInit /\ DialogInit /\ PlayInit /\ AudioInit /\ ReadyInit
  /\ widget # "overlay" => enabled
  /\ widget # "player" => frame.dWidth = 4

OverlayRuns ==
  /\ widget = "overlay" /\ OverlayNext
  /\ UNCHANGED <<widget, tips, recorderVars, dialogVars, playVars, audioVars, readyVars>>
RecorderRuns ==
  /\ widget = "recorder" /\ RecorderNext
  /\ UNCHANGED <<widget, tips, overlayVars, dialogVars, playVars, audioVars, readyVars>>
DialogRuns ==
  /\ widget = "dialog" /\ FewTips
  /\ UNCHANGED <<widget, overlayVars, recorderVars, playVars, audioVars, readyVars>>
PlayerRuns ==
  /\ widget = "player" /\ PlayNext
  /\ UNCHANGED <<widget, tips, overlayVars, recorderVars, dialogVars, audioVars, readyVars>>
AudioRuns ==
  /\ widget = "audio" /\ AudioNext
  /\ UNCHANGED <<widget, tips, overlayVars, recorderVars, dialogVars, playVars, readyVars>>
ReadyRuns ==
  /\ widget = "ready" /\ ReadyNext
  /\ UNCHANGED <<widget, tips, overlayVars, recorderVars, dialogVars, playVars, audioVars>>

WidgetsNext ==
  \/ OverlayRuns \/ RecorderRuns \/ DialogRuns \/ PlayerRuns \/ AudioRuns \/ ReadyRuns

(* The fairness of FairOverlaySpec, FairRecorderSpec and FairReadySpec;    *)
(* timers of dialogs come. What is checked of the player and the sound     *)
(* needs none.                                                             *)
WidgetsSpec ==
  /\ WidgetsInit
  /\ [][WidgetsNext]_<<widget, tips, overlayVars, recorderVars, dialogVars, playVars,
                       audioVars, readyVars>>
  /\ WF_overlayVars(widget = "overlay" /\ Polls)
  /\ WF_overlayVars(widget = "overlay" /\ Tick)
  /\ WF_overlayVars(widget = "overlay" /\ Settles)
  /\ WF_recorderVars(widget = "recorder" /\ Callback)
  /\ WF_dialogVars(widget = "dialog" /\ PreloadImages)
  /\ \A id \in Ids : WF_dialogVars(widget = "dialog" /\ TimerFires(id))
  /\ WF_readyVars(widget = "ready" /\ RunBlock)
  /\ WF_readyVars(widget = "ready" /\ DocumentAdvances)
  /\ WF_readyVars(widget = "ready" /\ BodyComes)
  /\ WF_readyVars(widget = "ready" /\ TimerComes)
  /\ WF_readyVars(widget = "ready" /\ Release)

=============================================================================
