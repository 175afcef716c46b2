--------------------------- MODULE DetectOverlay ----------------------------
(***************************************************************************)
(* Detection boxes over the live picture: the device's newest result       *)
(* (src/src/detect_overlay.c), the endpoint that answers with it, and the  *)
(* page that polls it (DetectOverlay in src/APP/html/script/main.js).      *)
(*                                                                         *)
(* The page has one thread: every callback is one step. Its clock is the   *)
(* time since the last good answer; it does not pass while a timer is due. *)
(* A result is named by the run of the device and its sequence number.     *)
(***************************************************************************)
EXTENDS Integers, Sequences, SequencesExt

CONSTANTS
  POLL_MS,      (* that.POLL_MS, in ticks                                   *)
  STALE_MS,     (* that.STALE_MS, in ticks                                  *)
  MaxSettle,    (* bound: ticks until a request is answered or given up     *)
  MaxSeq,       (* bound: results a run of the device publishes             *)
  MaxRuns,      (* bound: runs of the device                                *)
  Lossy         (* whether requests fail                                    *)

ASSUME OverlayAssumption ==
  /\ POLL_MS \in Nat \ {0} /\ STALE_MS \in Nat
  /\ {MaxSettle, MaxSeq, MaxRuns} \subseteq Nat
  /\ Lossy \in BOOLEAN

VARIABLES
  snapshot,     (* g_snapshot: run of the device, number, any boxes in it   *)
  page,         (* "loading", "live" (running) or "unloading"               *)
  enabled,      (* the page's check box                                     *)
  timers,       (* time left until each pending poll                        *)
  requests,     (* polls under way: time so far, and the answer if any      *)
  lastSeq, failures,
  sinceOk,      (* now - lastOkMs                                           *)
  boxes,        (* the result whose boxes the page holds                    *)
  canvas,       (* the result whose boxes are drawn                         *)
  newest        (* history: the last result drawn                           *)

overlayVars == <<snapshot, page, enabled, timers, requests, lastSeq, failures, sinceOk,
          boxes, canvas, newest>>
pageVars == <<page, enabled, timers, requests, lastSeq, failures, sinceOk, boxes,
              canvas, newest>>

Nothing == [run |-> 0, seq |-> 0]
NoAnswer == [run |-> 0, seq |-> 0, found |-> FALSE]
NameOf(result) == [run |-> result.run, seq |-> result.seq]
Later(a, b) == a.run > b.run \/ (a.run = b.run /\ a.seq > b.seq)

-----------------------------------------------------------------------------
(* The device.                                                              *)

(* ca_detect_overlay_publish: a new number and the new result, under the    *)
(* mutex. An empty list is a result too.                                    *)
Publish ==
  /\ snapshot.seq < MaxSeq
  /\ \E found \in BOOLEAN :
       snapshot' = [snapshot EXCEPT !.seq = @ + 1, !.found = found]
  /\ UNCHANGED pageVars

(* The numbers begin again, and there is nothing until the first result.    *)
DeviceRestarts ==
  /\ snapshot.run < MaxRuns
  /\ snapshot' = [run |-> snapshot.run + 1, seq |-> 0, found |-> FALSE]
  /\ UNCHANGED pageVars

(* The ISAPI thread answers with what ca_detect_overlay_get copies.         *)
Answer(i) ==
  /\ requests[i].answer = NoAnswer
  /\ requests' = [requests EXCEPT ![i].answer = snapshot]
  /\ UNCHANGED <<snapshot, page, enabled, timers, lastSeq, failures, sinceOk, boxes,
                 canvas, newest>>

-----------------------------------------------------------------------------
(* The page. Draw is what every change of `boxes' is followed by.           *)

Draw(result) ==
  /\ boxes' = result
  /\ canvas' = IF enabled THEN result ELSE Nothing
  /\ newest' = IF enabled /\ result # Nothing THEN result ELSE newest

Keep == UNCHANGED <<boxes, canvas, newest>>

schedule(pending) == IF page = "live" THEN Append(pending, POLL_MS) ELSE pending

(* Variant: nothing is ever stale.                                          *)
hideStaleBoxes_Never == Keep

(* hideStaleBoxes, at the start of a poll.                                  *)
hideStaleBoxes ==
  IF boxes # Nothing /\ sinceOk > STALE_MS THEN Draw(Nothing) ELSE Keep

(* Variant: the next poll is scheduled when a request is sent, not when it  *)
(* settles, and nobody asks whether one is under way.                       *)
poll_Interval(i) ==
  /\ timers[i] = 0 /\ page = "live"
  /\ hideStaleBoxes
  /\ timers' = schedule(RemoveAt(timers, i))
  /\ requests' = IF enabled /\ Len(requests) < 2
                 THEN Append(requests, [waited |-> 0, answer |-> NoAnswer]) ELSE requests
  /\ UNCHANGED <<snapshot, page, enabled, lastSeq, failures, sinceOk>>

poll(i) ==
  /\ timers[i] = 0
  /\ \/ /\ page = "live"
        /\ hideStaleBoxes
        /\ IF ~ enabled \/ requests # << >>
           THEN timers' = schedule(RemoveAt(timers, i)) /\ UNCHANGED requests
           ELSE /\ timers' = RemoveAt(timers, i)
                /\ requests' = Append(requests, [waited |-> 0, answer |-> NoAnswer])
     \/ /\ page # "live"
        /\ timers' = RemoveAt(timers, i)
        /\ Keep /\ UNCHANGED requests
  /\ UNCHANGED <<snapshot, page, enabled, lastSeq, failures, sinceOk>>

(* Variant: an empty list is taken for no news.                             *)
takeResult_KeepsLast(result) ==
  /\ sinceOk' = 0 /\ failures' = 0
  /\ IF result.seq = lastSeq \/ ~ result.found
     THEN Keep /\ UNCHANGED lastSeq
     ELSE lastSeq' = result.seq /\ Draw(NameOf(result))

(* Number 0: the device has no result yet. The number seen last: no news.   *)
takeResult(result) ==
  /\ sinceOk' = 0 /\ failures' = 0
  /\ \/ result.seq = 0 /\ Draw(Nothing) /\ UNCHANGED lastSeq
     \/ result.seq # 0 /\ result.seq = lastSeq /\ Keep /\ UNCHANGED lastSeq
     \/ /\ result.seq # 0 /\ result.seq # lastSeq
        /\ lastSeq' = result.seq
        /\ Draw(IF result.found THEN NameOf(result) ELSE Nothing)

(* Variant: the chain of polls goes on only after an answer.                *)
complete_NotAfterError(i) ==
  /\ requests' = RemoveAt(requests, i)
  /\ timers' = IF requests[i].answer = NoAnswer THEN timers ELSE schedule(timers)

complete(i) ==
  /\ requests' = RemoveAt(requests, i)
  /\ timers' = schedule(timers)

Succeed(i) ==
  /\ requests[i].answer # NoAnswer
  /\ takeResult(requests[i].answer)
  /\ complete(i)
  /\ UNCHANGED <<snapshot, page, enabled>>

(* The third failure in a row removes the boxes; more are not counted.      *)
Fail(i) ==
  /\ Lossy
  /\ failures' = IF failures < 3 THEN failures + 1 ELSE 3
  /\ IF failures' = 3 THEN Draw(Nothing) ELSE Keep
  /\ complete(i)
  /\ UNCHANGED <<snapshot, page, enabled, lastSeq, sinceOk>>

(* The page has loaded: start, whose first poll comes at once.              *)
start ==
  /\ page = "loading" /\ page' = "live"
  /\ timers' = Append(timers, 0)
  /\ lastSeq' = -1 /\ sinceOk' = 0
  /\ UNCHANGED <<snapshot, enabled, requests, failures, boxes, canvas, newest>>

(* beforeunload.                                                            *)
stop ==
  /\ page = "live" /\ page' = "unloading"
  /\ timers' = << >>
  /\ lastSeq' = -1
  /\ boxes' = Nothing /\ canvas' = Nothing
  /\ UNCHANGED <<snapshot, enabled, requests, failures, sinceOk, newest>>

(* The channel changes; polling goes on.                                    *)
reset ==
  /\ page = "live"
  /\ lastSeq' = -1
  /\ boxes' = Nothing /\ canvas' = Nothing
  /\ UNCHANGED <<snapshot, page, enabled, timers, requests, failures, sinceOk, newest>>

setEnabled ==
  /\ enabled' = ~ enabled
  /\ canvas' = IF enabled' THEN boxes ELSE Nothing
  /\ newest' = IF enabled' /\ boxes # Nothing THEN boxes ELSE newest
  /\ UNCHANGED <<snapshot, page, timers, requests, lastSeq, failures, sinceOk, boxes>>

(* Beyond this age nothing compares sinceOk any more.                       *)
MaxAge == 2 * (STALE_MS + POLL_MS) + MaxSettle

Tick ==
  /\ \A i \in DOMAIN timers : timers[i] > 0
  /\ \A i \in DOMAIN requests : requests[i].waited < MaxSettle
  /\ timers' = [i \in DOMAIN timers |-> timers[i] - 1]
  /\ requests' = [i \in DOMAIN requests |-> [requests[i] EXCEPT !.waited = @ + 1]]
  /\ sinceOk' = IF sinceOk < MaxAge THEN sinceOk + 1 ELSE sinceOk
  /\ UNCHANGED <<snapshot, page, enabled, lastSeq, failures, boxes, canvas, newest>>

-----------------------------------------------------------------------------
OverlayInit ==
  /\ snapshot = [run |-> 1, seq |-> 0, found |-> FALSE]
  /\ page = "loading" /\ enabled \in BOOLEAN
  /\ timers = << >> /\ requests = << >>
  /\ lastSeq = -1 /\ failures = 0 /\ sinceOk = 0
  /\ boxes = Nothing /\ canvas = Nothing /\ newest = Nothing

Polls == \E i \in DOMAIN timers : poll(i)
Answers == \E i \in DOMAIN requests : Answer(i)
Settles == \E i \in DOMAIN requests : Succeed(i) \/ Fail(i)

OverlayNext ==
  \/ Publish \/ DeviceRestarts \/ Answers
  \/ Polls \/ Settles \/ Tick
  \/ start \/ stop \/ reset \/ setEnabled

OverlaySpec == OverlayInit /\ [][OverlayNext]_overlayVars

(* The browser runs what is due, time passes, and a request ends sooner or  *)
(* later. That any of them succeeds is not assumed.                         *)
FairOverlaySpec == OverlaySpec /\ WF_overlayVars(Polls) /\ WF_overlayVars(Tick) /\ WF_overlayVars(Settles)

-----------------------------------------------------------------------------
(* Properties.                                                              *)

Results == [run : 0 .. MaxRuns, seq : 0 .. MaxSeq]

(* Variables have their types.                                              *)
OverlayTypeOK ==
  /\ snapshot \in [run : 1 .. MaxRuns, seq : 0 .. MaxSeq, found : BOOLEAN]
  /\ page \in {"loading", "live", "unloading"} /\ enabled \in BOOLEAN
  /\ timers \in Seq(0 .. POLL_MS)
  /\ \A i \in DOMAIN requests : requests[i].waited \in 0 .. MaxSettle
  /\ lastSeq \in -1 .. MaxSeq /\ failures \in 0 .. 3 /\ sinceOk \in 0 .. MaxAge
  /\ {boxes, canvas, newest} \subseteq Results

(* "The next request is scheduled only after the previous one settles": a   *)
(* live page has exactly one timer or one request. Two would be a backlog,  *)
(* none would be the end of polling.                                        *)
SelfPacing == page = "live" => Len(timers) + Len(requests) = 1

(* What is drawn never goes back to an older result, across channel         *)
(* switches, failures and restarts of the device.                           *)
NeverGoesBack == [][~ Later(newest, newest')]_overlayVars

(* Boxes for which no good answer came are gone once the stale time, the    *)
(* poll interval and the request under way have passed. (Not earlier: that  *)
(* they are stale is looked at only at a poll, and no poll comes while a    *)
(* request hangs.)                                                          *)
StaleBoxesGoAfterRequest ==
  canvas # Nothing /\ page = "live" => sinceOk <= STALE_MS + POLL_MS + MaxSettle

(* "How the UI learns that the target disappeared": when the device has     *)
(* found nothing for good, the boxes of a page that stays go for good, if   *)
(* the device does not start again: its numbers would repeat, and a result  *)
(* with the number seen last is taken for no news.                          *)
GoneTargetsLeave ==
  [](snapshot.run = 1) /\ <>[](~ snapshot.found)
    => <>[](canvas = Nothing) \/ <>(page = "unloading")

(* Polls come one at a time and without end, and boxes that no answer       *)
(* confirms go in time.                                                     *)
PollsInTime == SelfPacing /\ StaleBoxesGoAfterRequest

=============================================================================
