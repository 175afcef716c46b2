-------------------------------- MODULE Effects --------------------------------
(***************************************************************************)
(* jQuery's effects (src/APP/html/script/jquery-1.11.1.js), by which the   *)
(* dialogs fade: every element has a queue of animations and delays, and   *)
(* one interval moves all animations that run. An animation that has ended *)
(* calls its complete handler and then takes the next item off the queue.  *)
(*                                                                         *)
(* The library calls itself and the page's handlers, who call it again; a  *)
(* step is what one call does up to the next, and fxCalls is the stack.    *)
(* How long an animation takes is left open, and so is what it moves.      *)
(* queue: false and queues by other names are left out.                    *)
(***************************************************************************)
EXTENDS Naturals, Sequences, SequencesExt, FiniteSets

CONSTANTS
  Animated,
  MaxItems,     (* bound: animations and delays                             *)
  MaxStops      (* bound: calls of stop, finish and clearQueue              *)

ASSUME EffectsAssumption == MaxItems \in Nat

Items == 1 .. MaxItems
InProgress == 0   (* the sentinel "inprogress"                              *)
NoItem == 0

VARIABLES
  item,         (* what was asked for: kind and element                     *)
  progress,     (* unused, queued, running, resolved or rejected            *)
  queues,       (* of every element                                         *)
  hook,         (* the delay that the hooks of the element's queue can stop *)
  finishing,    (* the flag data.finish                                     *)
  fxTimers,     (* jQuery.timers                                            *)
  timerId,      (* whether the interval is set                              *)
  timeouts,     (* delays under way                                         *)
  fxCalls,      (* calls under way, the innermost first                     *)
  stops,        (* calls of stop, finish and clearQueue so far              *)
  fxCompleted,  (* history: calls of complete                               *)
  nested        (* history: a handler that a stop called has stopped more   *)

queueVars == <<queues, hook, finishing>>
timerVars == <<fxTimers, timerId, timeouts>>
fxVars == <<item, progress, queueVars, timerVars, fxCalls, stops, fxCompleted, nested>>

(* Calls under way. timer: the animation whose end the loop waits for.      *)
Dequeue(e) == [call |-> "dequeue", elem |-> e]
Resolve(i) == [call |-> "resolve", item |-> i]
Complete == [call |-> "complete"]
Ticking(over) == [call |-> "tick", over |-> over, index |-> 1, timer |-> NoItem]
Stopping(e, gotoEnd, dequeues) ==
  [call |-> "stop", elem |-> e, gotoEnd |-> gotoEnd, dequeue |-> dequeues,
   index |-> Len(fxTimers), timer |-> NoItem]
Playing(e, rest) == [call |-> "play", elem |-> e, rest |-> rest]

Calling(call) == fxCalls # << >> /\ Head(fxCalls).call = call
ReturnWith(above) == fxCalls' = above \o Tail(fxCalls)
PageInControl == fxCalls = << >> \/ Calling("complete")

Running(i) == progress[i] = "running"
IsDelay(i) == item[i].kind = "delay"

-----------------------------------------------------------------------------
(* Queues.                                                                  *)

(* A delay, or the first frame of an animation: one that takes no time, or  *)
(* is started by finish, ends with it.                                      *)
Start(i, above) ==
  LET fades == item[i].kind = "fade"
      goes == IsDelay(i) \/ (fades /\ ~ finishing[item[i].elem])
  IN  /\ progress' = [progress EXCEPT ![i] = "running"]
      /\ timeouts' = IF IsDelay(i) THEN timeouts \cup {i} ELSE timeouts
      /\ fxTimers' = IF fades THEN Append(fxTimers, i) ELSE fxTimers
      /\ timerId' = (timerId \/ fades)
      /\ ReturnWith(IF goes THEN above ELSE <<Resolve(i)>> \o above)

Emptied(e) ==
  queues' = [queues EXCEPT ![e] = << >>] /\ hook' = [hook EXCEPT ![e] = NoItem]

(* The next item, with the sentinel before what is left; at the end of the  *)
(* queue it and its hooks go.                                               *)
dequeue ==
  /\ Calling("dequeue")
  /\ LET e == Head(fxCalls).elem
         q == queues[e]
         left == IF q # << >> /\ Head(q) = InProgress THEN Tail(q) ELSE q
         i == Head(left)
     IN  \/ /\ left = << >>
            /\ Emptied(e) /\ ReturnWith(<< >>)
            /\ UNCHANGED <<progress, timerVars>>
         \/ /\ left # << >>
            /\ queues' = [queues EXCEPT ![e] = <<InProgress>> \o Tail(left)]
            /\ hook' = [hook EXCEPT ![e] = IF IsDelay(i) THEN i ELSE NoItem]
            /\ Start(i, << >>)
  /\ UNCHANGED <<item, finishing, stops, fxCompleted, nested>>

(* The page, or a handler, adds to a queue. The sentinel makes it wait.     *)
animate(e, kind) ==
  /\ PageInControl
  /\ \E i \in Items :
       /\ progress[i] = "unused" /\ \A j \in 1 .. i - 1 : progress[j] # "unused"
       /\ item' = [item EXCEPT ![i] = [kind |-> kind, elem |-> e]]
       /\ progress' = [progress EXCEPT ![i] = "queued"]
       /\ queues' = [queues EXCEPT ![e] = Append(@, i)]
  /\ fxCalls' = IF Head(queues'[e]) = InProgress THEN fxCalls ELSE <<Dequeue(e)>> \o fxCalls
  /\ UNCHANGED <<hook, finishing, timerVars, stops, fxCompleted, nested>>

(* An empty queue has no sentinel: it is dequeued at once.                  *)
clearQueue(e) ==
  /\ PageInControl /\ stops < MaxStops /\ stops' = stops + 1
  /\ Emptied(e)
  /\ UNCHANGED <<item, progress, finishing, timerVars, fxCalls, fxCompleted, nested>>

(* The end of an animation: complete calls the handler, and then takes the  *)
(* next item.                                                               *)
Completing(i) ==
  /\ progress' = [progress EXCEPT ![i] = "resolved"]
  /\ fxCompleted' = [fxCompleted EXCEPT ![i] = @ + 1]
  /\ ReturnWith(<<Complete, Dequeue(item[i].elem)>>)
  /\ UNCHANGED <<item, queueVars, timerVars, stops, nested>>

(* Variant: nobody asks whether it has ended before.                        *)
resolve_Again == Calling("resolve") /\ Completing(Head(fxCalls).item)

resolve ==
  /\ Calling("resolve")
  /\ \/ Running(Head(fxCalls).item) /\ Completing(Head(fxCalls).item)
     \/ /\ ~ Running(Head(fxCalls).item) /\ ReturnWith(<< >>)
        /\ UNCHANGED <<item, progress, queueVars, timerVars, stops, fxCompleted, nested>>

CompleteReturns ==
  /\ Calling("complete") /\ ReturnWith(<< >>)
  /\ UNCHANGED <<item, progress, queueVars, timerVars, stops, fxCompleted, nested>>

-----------------------------------------------------------------------------
(* stop and finish.                                                         *)

(* By the page, or a handler; nested: one that a loop below has called.     *)
StopCalled ==
  /\ PageInControl /\ stops < MaxStops /\ stops' = stops + 1
  /\ nested' = (nested \/ \E n \in DOMAIN fxCalls : fxCalls[n].call = "stop")
  /\ UNCHANGED <<item, progress, fxTimers, timerId, fxCompleted>>

(* The delay under way is stopped, if the hooks still know it.              *)
Stopped(e, clear, gotoEnd, dequeues) ==
  /\ StopCalled
  /\ queues' = IF clear THEN [queues EXCEPT ![e] = << >>] ELSE queues
  /\ timeouts' = IF clear THEN timeouts ELSE timeouts \ {hook[e]}
  /\ hook' = [hook EXCEPT ![e] = NoItem]
  /\ fxCalls' = <<Stopping(e, gotoEnd, dequeues)>> \o fxCalls
  /\ UNCHANGED finishing

(* Variant: only complete handlers take the next item.                      *)
stop_NoDequeue(e, clear, gotoEnd) == Stopped(e, clear, gotoEnd, FALSE)
stop(e, clear, gotoEnd) == Stopped(e, clear, gotoEnd, TRUE)

(* All that run and all that wait are brought to their ends.                *)
finish(e) ==
  /\ StopCalled
  /\ finishing' = [finishing EXCEPT ![e] = TRUE]
  /\ queues' = [queues EXCEPT ![e] = << >>]
  /\ timeouts' = timeouts \ {hook[e]}
  /\ fxCalls' = <<Stopping(e, TRUE, FALSE), Playing(e, queues[e])>> \o fxCalls
  /\ UNCHANGED hook

(* The element's animations, the last first; their timers go. One that is   *)
(* stopped where it is does not call complete. The loop does not look       *)
(* whether timers[index] is still the one it has stopped: it can take       *)
(* another, or reach beyond the end, and then throws.                       *)
StopTimers ==
  /\ Calling("stop")
  /\ LET c == Head(fxCalls)
         i == fxTimers[c.index]
         mine == Running(i) /\ item[i].elem = c.elem
         next == [c EXCEPT !.index = @ - 1, !.timer = NoItem]
         there == c.timer = NoItem /\ c.index \in DOMAIN fxTimers
     IN  \/ /\ c.timer # NoItem
            /\ fxTimers' = IF c.index \in DOMAIN fxTimers THEN RemoveAt(fxTimers, c.index)
                           ELSE fxTimers
            /\ ReturnWith(<<next>>)
            /\ UNCHANGED progress
         \/ /\ there /\ mine /\ c.gotoEnd
            /\ ReturnWith(<<Resolve(i), [c EXCEPT !.dequeue = FALSE, !.timer = i]>>)
            /\ UNCHANGED <<progress, fxTimers>>
         \/ /\ there /\ mine /\ ~ c.gotoEnd
            /\ progress' = [progress EXCEPT ![i] = "rejected"]
            /\ fxTimers' = RemoveAt(fxTimers, c.index)
            /\ ReturnWith(<<[next EXCEPT !.dequeue = FALSE]>>)
         \/ /\ there /\ ~ mine
            /\ ReturnWith(<<next>>)
            /\ UNCHANGED <<progress, fxTimers>>
         \/ /\ c.timer = NoItem /\ c.index = 0
            /\ ReturnWith(IF c.dequeue \/ ~ c.gotoEnd THEN <<Dequeue(c.elem)>> ELSE << >>)
            /\ UNCHANGED <<progress, fxTimers>>
         \/ /\ c.timer = NoItem /\ c.index > Len(fxTimers)
            /\ fxCalls' = << >>
            /\ UNCHANGED <<progress, fxTimers>>
  /\ UNCHANGED <<item, queueVars, timerId, timeouts, stops, fxCompleted, nested>>

(* What finish found in the queue: animations are started, delays are not.  *)
Play ==
  /\ Calling("play")
  /\ LET c == Head(fxCalls)
         i == Head(c.rest)
         next == [c EXCEPT !.rest = Tail(@)]
         hasFinish == i \in {j \in Items : ~ IsDelay(j)}
     IN  \/ /\ c.rest # << >> /\ hasFinish
            /\ Start(i, <<next>>)
            /\ UNCHANGED finishing
         \/ /\ c.rest # << >> /\ ~ hasFinish
            /\ ReturnWith(<<next>>)
            /\ UNCHANGED <<progress, finishing, timerVars>>
         \/ /\ c.rest = << >>
            /\ finishing' = [finishing EXCEPT ![c.elem] = FALSE]
            /\ ReturnWith(<< >>)
            /\ UNCHANGED <<progress, timerVars>>
  /\ UNCHANGED <<item, queues, hook, stops, fxCompleted, nested>>

-----------------------------------------------------------------------------
(* The interval and the delays.                                             *)

(* over: the animations whose time is over.                                 *)
tick ==
  /\ fxCalls = << >> /\ timerId
  /\ \E over \in SUBSET {i \in ToSet(fxTimers) : Running(i)} : fxCalls' = <<Ticking(over)>>
  /\ UNCHANGED <<item, progress, queueVars, timerVars, stops, fxCompleted, nested>>

(* Every timer in turn, those too that are added meanwhile. One that has    *)
(* ended goes, if it is still where it was.                                 *)
RunTimers ==
  /\ Calling("tick")
  /\ LET c == Head(fxCalls)
         i == fxTimers[c.index]
         there == c.index \in DOMAIN fxTimers
     IN  \/ /\ c.timer # NoItem /\ there /\ i = c.timer
            /\ fxTimers' = RemoveAt(fxTimers, c.index)
            /\ ReturnWith(<<[c EXCEPT !.timer = NoItem]>>)
            /\ UNCHANGED timerId
         \/ /\ IF c.timer # NoItem THEN ~ (there /\ i = c.timer)
               ELSE there /\ Running(i) /\ i \notin c.over
            /\ ReturnWith(<<[c EXCEPT !.index = @ + 1, !.timer = NoItem]>>)
            /\ UNCHANGED <<fxTimers, timerId>>
         \/ /\ c.timer = NoItem /\ there /\ (Running(i) => i \in c.over)
            /\ ReturnWith(<<Resolve(i), [c EXCEPT !.timer = i]>>)
            /\ UNCHANGED <<fxTimers, timerId>>
         \/ /\ c.timer = NoItem /\ ~ there
            /\ timerId' = (fxTimers # << >>)
            /\ ReturnWith(<< >>)
            /\ UNCHANGED fxTimers
  /\ UNCHANGED <<item, progress, queueVars, timeouts, stops, fxCompleted, nested>>

DelayEnds ==
  /\ fxCalls = << >>
  /\ \E i \in timeouts :
       timeouts' = timeouts \ {i} /\ fxCalls' = <<Dequeue(item[i].elem)>>
  /\ UNCHANGED <<item, progress, queueVars, fxTimers, timerId, stops, fxCompleted, nested>>

-----------------------------------------------------------------------------
EffectsInit ==
  /\ item = [i \in Items |-> [kind |-> "none", elem |-> NoItem]]
  /\ progress = [i \in Items |-> "unused"]
  /\ queues = [e \in Animated |-> << >>] /\ hook = [e \in Animated |-> NoItem]
  /\ finishing = [e \in Animated |-> FALSE]
  /\ fxTimers = << >> /\ timerId = FALSE /\ timeouts = {}
  /\ fxCalls = << >> /\ stops = 0
  /\ fxCompleted = [i \in Items |-> 0] /\ nested = FALSE

EffectsNext ==
  \/ tick \/ RunTimers \/ DelayEnds \/ dequeue \/ resolve \/ CompleteReturns
  \/ StopTimers \/ Play
  \/ \E e \in Animated :
       \/ \E kind \in {"fade", "instant", "delay"} : animate(e, kind)
       \/ \E clear, gotoEnd \in BOOLEAN : stop(e, clear, gotoEnd)
       \/ finish(e) \/ clearQueue(e)

EffectsSpec == EffectsInit /\ [][EffectsNext]_fxVars

-----------------------------------------------------------------------------
(* Properties.                                                              *)

(* A queue never stands still: when all calls have returned, and it holds   *)
(* anything, even just the sentinel that makes new items wait, something of *)
(* the element runs that will take the next item; and what runs is moved by *)
(* the interval. (Not so after a stop by a handler that a stop has called.) *)
NothingStalls ==
  fxCalls = << >> /\ ~ nested =>
    /\ \A e \in Animated :
         queues[e] # << >> =>
           \E i \in timeouts \cup ToSet(fxTimers) : Running(i) /\ item[i].elem = e
    /\ \A i \in Items :
         Running(i) /\ ~ IsDelay(i) => timerId /\ i \in ToSet(fxTimers)

(* An animation calls complete once when it ends, by its time, at a stop    *)
(* that goes to the end or at a finish, and never when it was stopped where *)
(* it was.                                                                  *)
CompletesOnce ==
  \A i \in Items : fxCompleted[i] = IF progress[i] = "resolved" THEN 1 ELSE 0

(* Effects come to their end: nothing waits for ever, and who waits for an  *)
(* end hears of it once.                                                    *)
EffectsEnd == NothingStalls /\ CompletesOnce

=============================================================================
