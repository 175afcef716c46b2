--------------------------- MODULE ConfirmWindow ----------------------------
(***************************************************************************)
(* The N-of-M alarm confirmation of src/src/infer_adapter.c:               *)
(* camera_abnormal_on_detection_frame keeps the last M detection results   *)
(* in a static circular array, and publishes one event when N of them held *)
(* a target. It runs on the single HIKFlow algorithm thread, one call per  *)
(* inferred frame, so a call is one step. The push of the event does not   *)
(* block: the event queue may refuse it.                                   *)
(***************************************************************************)
EXTENDS Integers, Sequences, FiniteSets

CONSTANTS
  ConfirmWindowM, (* confirm_window_m of the configuration                  *)
  ConfirmRequireN,(* confirm_require_n of the configuration                 *)
  MaxSamples,     (* length of g_confirm_samples: 256 in the code           *)
  Classes,        (* class ids the detector may report, valid or not        *)
  Bins            (* length of the histogram of classes: 16 in the code     *)

ASSUME ConfirmAssumption ==
  /\ ConfirmWindowM \in Int
  /\ ConfirmRequireN \in Int
  /\ MaxSamples \in Nat \ {0}
  /\ Classes \subseteq Int /\ 0 \in Classes
  /\ Bins \in Nat

(* The function clamps its own parameters on every call.                    *)
Clamp(v, lo, hi) == IF v < lo THEN lo ELSE IF v > hi THEN hi ELSE v
M == Clamp(ConfirmWindowM, 1, MaxSamples)
N == Clamp(ConfirmRequireN, 1, M)

Indices == 0 .. MaxSamples - 1
KnownClasses == 0 .. Bins - 1
Sample == [detected : BOOLEAN, class_id : Classes]
NoAlarm == [raised |-> FALSE]

VARIABLES
  samples,  (* g_confirm_samples; never cleared                             *)
  next,     (* g_confirm_next: where the next sample goes                   *)
  fill,     (* g_confirm_fill: how many samples count                       *)
  alarm,    (* what the last call published                                 *)
  hitsSince (* history: frames with a target since the last confirmation,   *)
            (* counted up to N                                              *)

confirmVars == <<samples, next, fill, alarm, hitsSince>>

(* Variant: the whole array counts, with the samples of before the last     *)
(* confirmation.                                                            *)
HitsIn_StaleToo(s, n) == {i \in 0 .. M - 1 : s[i].detected}

HitsIn(s, n) == {i \in 0 .. n - 1 : s[i].detected}
Hist(s, n, c) == Cardinality({i \in HitsIn(s, n) : s[i].class_id = c})

(* Variant: ">=" in the search for the maximum, the last of equals wins.    *)
IsBestClass_LastOfEquals(s, n, c) ==
  \/ /\ c \in KnownClasses /\ Hist(s, n, c) > 0
     /\ \A d \in KnownClasses : Hist(s, n, d) <= Hist(s, n, c)
     /\ \A d \in KnownClasses : d > c => Hist(s, n, d) < Hist(s, n, c)
  \/ c = -1 /\ \A d \in KnownClasses : Hist(s, n, d) = 0

(* best_class: the first bin that holds the largest count, -1 if all are 0. *)
IsBestClass(s, n, c) ==
  \/ /\ c \in KnownClasses /\ Hist(s, n, c) > 0
     /\ \A d \in KnownClasses : Hist(s, n, d) <= Hist(s, n, c)
     /\ \A d \in 0 .. c - 1 : Hist(s, n, d) < Hist(s, n, c)
  \/ c = -1 /\ \A d \in KnownClasses : Hist(s, n, d) = 0

(* The window after one more sample.                                        *)
Filled == IF fill < M THEN fill + 1 ELSE fill
Confirmed(f) ==
  Cardinality(HitsIn([samples EXCEPT ![next] = f], Filled)) >= N

(* Fewer than N hits: the sample is kept and nothing is published.          *)
CollectFrame(f) ==
  /\ ~ Confirmed(f)
  /\ samples' = [samples EXCEPT ![next] = f]
  /\ next' = (next + 1) % M
  /\ fill' = Filled
  /\ alarm' = NoAlarm
  /\ hitsSince' = IF f.detected /\ hitsSince < N THEN hitsSince + 1 ELSE hitsSince

(* N hits: the window restarts, then abnormal_event_publish pushes without  *)
(* blocking; a refused event is only logged.                                *)
ConfirmFrame(f) ==
  /\ Confirmed(f)
  /\ samples' = [samples EXCEPT ![next] = f]
  /\ hitsSince' = 0
  /\ next' = 0
  /\ fill' = 0
  /\ \E c \in KnownClasses \cup {-1}, accepted \in BOOLEAN :
       /\ IsBestClass(samples', Filled, c)
       /\ alarm' = [raised |-> TRUE, class_id |-> c, delivered |-> accepted]

OnDetectionFrame(f) == CollectFrame(f) \/ ConfirmFrame(f)

ConfirmInit ==
  /\ samples = [i \in Indices |-> [detected |-> FALSE, class_id |-> 0]]
  /\ next = 0
  /\ fill = 0
  /\ alarm = NoAlarm
  /\ hitsSince = 0

ConfirmNext == \E f \in Sample : OnDetectionFrame(f)

ConfirmSpec == ConfirmInit /\ [][ConfirmNext]_confirmVars

-----------------------------------------------------------------------------
ConfirmTypeOK ==
  /\ samples \in [Indices -> Sample]
  /\ next \in 0 .. M - 1
  /\ fill \in 0 .. M
  /\ alarm \in {NoAlarm} \cup
       [raised : {TRUE}, class_id : KnownClasses \cup {-1}, delivered : BOOLEAN]
  /\ hitsSince \in 0 .. N

(* The indices stay in step: until the window is full the next free place   *)
(* is right after the samples that count.                                   *)
IndicesInStep == fill < M => next = fill

(* No call leaves the window at or over the threshold, so a window that     *)
(* could confirm always has confirmed already.                              *)
BelowThreshold == Cardinality(HitsIn(samples, fill)) < N

(* An alarm is raised exactly by the frame that brings the N-th hit: that   *)
(* frame itself holds a target, and the window then holds N hits, no more.  *)
(* A frame without a target never raises one, not even when it pushes an    *)
(* old sample out of the full array.                                        *)
AlarmOnNthHit ==
  [][ \A f \in Sample :
        ConfirmFrame(f) =>
          /\ f.detected
          /\ Cardinality(HitsIn(samples', Filled)) = N ]_confirmVars

(* Two alarms are never closer than N frames with a target, even when the   *)
(* first one could not be queued: samples from before the last confirmation *)
(* are still in the array, and must not be counted again.                   *)
AlarmsAreSpaced ==
  [][ \A f \in Sample : ConfirmFrame(f) => hitsSince + 1 >= N ]_confirmVars

(* The array, read from its oldest sample on, is the window of the          *)
(* abstract confirmation.                                                   *)
Oldest == (next + M - fill) % M
Window == [i \in 1 .. fill |-> samples[(Oldest + i - 1) % M]]

Sliding == INSTANCE SlidingConfirm
  WITH win <- Window, Known <- KnownClasses

(* The circular array implements the sliding window: same alarms, on the    *)
(* same frames, with the class most of the window agrees on.                *)
ImplementsSlidingConfirm == Sliding!Spec

=============================================================================
