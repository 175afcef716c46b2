------------------------------ MODULE Callbacks ------------------------------
(***************************************************************************)
(* jQuery.Callbacks and jQuery.Deferred                                    *)
(* (src/APP/html/script/jquery-1.11.1.js), on which the page's requests    *)
(* and its $(function) blocks stand.                                       *)
(*                                                                         *)
(* A list calls its callbacks one after the other, and every callback may  *)
(* itself add, remove, fire, lock or settle. The list keeps its own place  *)
(* in the loop for that. Here a step is what runs between two moments at   *)
(* which such a callback has control; callbackFrames stacks the lists that *)
(* are firing. Either one list with any options is looked at, or the three *)
(* lists of a Deferred. Callbacks that throw are left out.                 *)
(***************************************************************************)
EXTENDS Naturals, Sequences, SequencesExt, FiniteSets, Sublists

CONSTANTS
  Fns,          (* callbacks of the page                                    *)
  MaxCallbackCalls  (* bound: calls of the methods of lists                     *)

NoFn == 0
Values == {1, 2}
Options == {"once", "memory", "unique", "stopOnFalse"}
DeferredLists == {"done", "fail", "progress"}

VARIABLES
  lists,        (* the lists, by name, as in NewList                        *)
  callbackFrames,  (* lists whose loops are on the stack, the innermost last   *)
  state,        (* of the Deferred                                          *)
  callbackCalls,  (* calls made so far                                        *)
  dueCalls,      (* history: what each firing list still has to call         *)
  emptied,      (* history: lists emptied while they were firing            *)
  owed,         (* history: [list, callback] -> times added, not yet called *)
  settledWith   (* history: the value of the first resolve or reject        *)

callbackVars == <<lists, callbackFrames, state, callbackCalls, dueCalls, emptied, owed, settledWith>>

(* locked: there is no stack of further fires; running: the callback at     *)
(* firingIndex has control; data: what is fired. memory is NoFn when there  *)
(* is none.                                                                 *)
NewList(options, list) ==
  [options |-> options, list |-> list, disabled |-> FALSE,
   stack |-> << >>, locked |-> "once" \in options, memory |-> NoFn, data |-> NoFn,
   fired |-> FALSE, firing |-> FALSE, running |-> FALSE,
   firingIndex |-> 1, firingLength |-> 0]

-----------------------------------------------------------------------------
(* The methods of a list, as functions of it.                               *)

fire(L, value, firingStart) ==
  [L EXCEPT !.memory = IF "memory" \in L.options THEN value ELSE NoFn,
            !.data = value, !.fired = TRUE, !.firing = TRUE,
            !.firingIndex = firingStart, !.firingLength = Len(L.list)]

Skips(L, f) == L.disabled \/ ("unique" \in L.options /\ f \in ToSet(L.list))

addCallback(L, f) ==
  LET more == IF Skips(L, f) THEN L ELSE [L EXCEPT !.list = Append(@, f)]
  IN  IF L.disabled THEN L
      ELSE IF L.firing THEN [more EXCEPT !.firingLength = Len(more.list)]
      ELSE IF L.memory # NoFn THEN fire(more, L.memory, Len(L.list) + 1)
      ELSE more

(* Variant: the place in the loop is not moved.                             *)
removeCallback_SamePlace(L, f) ==
  LET places == {i \in DOMAIN L.list : L.list[i] = f}
      shorter == [L EXCEPT !.list = Without(@, {f})]
  IN  IF L.firing THEN [shorter EXCEPT !.firingLength = @ - Cardinality(places)] ELSE shorter

(* Every occurrence goes; the loop's place and end move with what was       *)
(* before them.                                                             *)
removeCallback(L, f) ==
  LET places == {i \in DOMAIN L.list : L.list[i] = f}
      shorter == [L EXCEPT !.list = Without(@, {f})]
  IN  IF ~ L.firing THEN shorter
      ELSE [shorter EXCEPT
              !.firingLength = @ - Cardinality(places),
              !.firingIndex = @ - Cardinality({i \in places : i <= L.firingIndex})]

(* A list that was disabled is one again.                                   *)
empty(L) == [L EXCEPT !.list = << >>, !.disabled = FALSE, !.firingLength = 0]

disable(L) ==
  [L EXCEPT !.list = << >>, !.disabled = TRUE, !.stack = << >>, !.locked = TRUE,
            !.memory = NoFn]

lock(L) ==
  IF L.memory = NoFn THEN disable(L) ELSE [L EXCEPT !.stack = << >>, !.locked = TRUE]

Accepts(L) == ~ L.disabled /\ (~ L.fired \/ ~ L.locked)

fireWith(L, value) ==
  IF ~ Accepts(L) THEN L
  ELSE IF L.firing THEN [L EXCEPT !.stack = Append(@, value)]
  ELSE fire(L, value, 1)

(* The end of fire's loop.                                                  *)
LoopEnds(L) ==
  LET ended == [L EXCEPT !.firing = FALSE]
  IN  IF L.disabled THEN ended
      ELSE IF ~ L.locked /\ L.stack # << >>
           THEN fire([ended EXCEPT !.stack = Tail(@)], Head(L.stack), 1)
      ELSE IF ~ L.locked THEN ended
      ELSE IF L.memory # NoFn THEN [ended EXCEPT !.list = << >>]
      ELSE disable(ended)

-----------------------------------------------------------------------------
(* Callbacks that have control, or the browser when no list is firing, call *)
(* the methods.                                                             *)

CallerInControl == callbackFrames # << >> => lists[Last(callbackFrames)].running

Call(n, L) ==
  /\ CallerInControl /\ callbackCalls < MaxCallbackCalls /\ callbackCalls' = callbackCalls + 1
  /\ lists' = [lists EXCEPT ![n] = L]
  /\ callbackFrames' = IF L.firing /\ ~ lists[n].firing THEN Append(callbackFrames, n) ELSE callbackFrames

CallAdd(n, f) ==
  /\ Call(n, addCallback(lists[n], f))
  /\ LET new == IF Skips(lists[n], f) THEN << >> ELSE <<f>>
         heardNow == lists[n].firing \/ (~ lists[n].disabled /\ lists[n].memory # NoFn)
     IN  /\ dueCalls' = IF heardNow THEN [dueCalls EXCEPT ![n] = @ \o new] ELSE dueCalls
         /\ owed' = [owed EXCEPT ![<<n, f>>] = @ + Len(new)]
  /\ UNCHANGED <<state, emptied, settledWith>>

CallRemove(n, f) ==
  /\ Call(n, removeCallback(lists[n], f))
  /\ dueCalls' = [dueCalls EXCEPT ![n] = Without(@, {f})]
  /\ UNCHANGED <<state, emptied, owed, settledWith>>

CallEmpty(n) ==
  /\ Call(n, empty(lists[n]))
  /\ dueCalls' = [dueCalls EXCEPT ![n] = << >>]
  /\ emptied' = IF lists[n].firing THEN emptied \cup {n} ELSE emptied
  /\ UNCHANGED <<state, owed, settledWith>>

CallDisable(n) ==
  /\ Call(n, disable(lists[n]))
  /\ dueCalls' = [dueCalls EXCEPT ![n] = << >>]
  /\ UNCHANGED <<state, emptied, owed, settledWith>>

CallLock(n) ==
  /\ Call(n, lock(lists[n]))
  /\ dueCalls' = IF lists'[n].disabled THEN [dueCalls EXCEPT ![n] = << >>] ELSE dueCalls
  /\ UNCHANGED <<state, emptied, owed, settledWith>>

(* fire; of a Deferred: resolve, reject, notify.                            *)
CallFire(n, value) ==
  /\ Call(n, fireWith(lists[n], value))
  /\ dueCalls' = IF Accepts(lists[n]) /\ ~ lists[n].firing
            THEN [dueCalls EXCEPT ![n] = lists[n].list] ELSE dueCalls
  /\ settledWith' =
       IF settledWith = NoFn /\ n \in {"done", "fail"} THEN value ELSE settledWith
  /\ UNCHANGED <<state, emptied, owed>>

-----------------------------------------------------------------------------
(* The loops.                                                               *)

Other(n) == IF n = "done" THEN "fail" ELSE "done"

(* The first three callbacks of a Deferred's done and fail.                 *)
OwnCallbacks == <<"state", "disable", "lock">>

(* They are jQuery's own, not the page's.                                   *)
ASSUME CallbacksAssumption == Fns \cap ToSet(OwnCallbacks) = {}

(* Variant: the other list stays open.                                      *)
CallsOwn_OtherOpen(n, f, L) ==
  /\ state' = IF f # "state" THEN state ELSE IF n = "done" THEN "resolved" ELSE "rejected"
  /\ lists' = CASE f = "lock" -> [lists EXCEPT ![n] = L, !["progress"] = lock(@)]
                [] OTHER -> [lists EXCEPT ![n] = L]

CallsOwn(n, f, L) ==
  /\ state' = IF f # "state" THEN state ELSE IF n = "done" THEN "resolved" ELSE "rejected"
  /\ lists' = CASE f = "disable" -> [lists EXCEPT ![n] = L, ![Other(n)] = disable(@)]
                [] f = "lock" -> [lists EXCEPT ![n] = L, !["progress"] = lock(@)]
                [] f = "state" -> [lists EXCEPT ![n] = L]

CallsNext ==
  /\ ~ CallerInControl
  /\ LET n == Last(callbackFrames)
         L == lists[n]
         f == L.list[L.firingIndex]
     IN  /\ ~ L.disabled /\ L.firingIndex <= L.firingLength
         /\ dueCalls' = [dueCalls EXCEPT ![n] = IF @ # << >> THEN Tail(@) ELSE @]
         /\ \/ /\ f \in ToSet(OwnCallbacks)
               /\ CallsOwn(n, f, [L EXCEPT !.firingIndex = @ + 1])
               /\ UNCHANGED owed
            \/ /\ f \in Fns
               /\ lists' = [lists EXCEPT ![n].running = TRUE]
               /\ owed' = [owed EXCEPT ![<<n, f>>] = IF @ > 0 THEN @ - 1 ELSE @]
               /\ UNCHANGED state
  /\ UNCHANGED <<callbackFrames, callbackCalls, emptied, settledWith>>

Returns ==
  /\ callbackFrames # << >> /\ CallerInControl
  /\ lists' = [lists EXCEPT ![Last(callbackFrames)].running = FALSE, ![Last(callbackFrames)].firingIndex = @ + 1]
  /\ UNCHANGED <<callbackFrames, state, callbackCalls, dueCalls, emptied, owed, settledWith>>

(* With stopOnFalse the loop ends there, and nothing is remembered.         *)
ReturnsFalse ==
  /\ callbackFrames # << >> /\ CallerInControl
  /\ LET n == Last(callbackFrames)
     IN  /\ "stopOnFalse" \in lists[n].options
         /\ lists' = [lists EXCEPT ![n].running = FALSE, ![n].memory = NoFn,
                                   ![n].firingIndex = lists[n].firingLength + 1]
         /\ dueCalls' = [dueCalls EXCEPT ![n] = << >>]
  /\ UNCHANGED <<callbackFrames, state, callbackCalls, emptied, owed, settledWith>>

FireEnds ==
  /\ ~ CallerInControl
  /\ LET n == Last(callbackFrames)
         L == lists[n]
         ended == LoopEnds(L)
     IN  /\ L.disabled \/ L.firingIndex > L.firingLength
         /\ lists' = [lists EXCEPT ![n] = ended]
         /\ callbackFrames' = IF ended.firing THEN callbackFrames ELSE Front(callbackFrames)
         /\ dueCalls' = IF ended.firing THEN [dueCalls EXCEPT ![n] = ended.list]
                   ELSE IF n \in emptied THEN [dueCalls EXCEPT ![n] = << >>] ELSE dueCalls
         /\ emptied' = emptied \ {n}
  /\ UNCHANGED <<state, callbackCalls, owed, settledWith>>

-----------------------------------------------------------------------------
NewDeferred ==
  [n \in DeferredLists |->
     IF n = "progress" THEN NewList({"memory"}, << >>)
     ELSE NewList({"once", "memory"}, OwnCallbacks)]

CallbacksInit ==
  /\ \/ \E options \in SUBSET Options : lists = [n \in {"list"} |-> NewList(options, << >>)]
     \/ lists = NewDeferred
  /\ callbackFrames = << >> /\ state = "pending" /\ callbackCalls = 0
  /\ dueCalls = [n \in DOMAIN lists |-> << >>] /\ emptied = {}
  /\ owed = [a \in (DOMAIN lists) \X Fns |-> 0]
  /\ settledWith = NoFn

(* What a Deferred lets out: done, fail, progress and their fireWith.       *)
CallbacksNext ==
  \/ \E n \in DOMAIN lists :
       \/ \E f \in Fns : CallAdd(n, f)
       \/ \E value \in Values : CallFire(n, value)
       \/ n = "list" /\ \/ CallEmpty(n) \/ CallDisable(n) \/ CallLock(n)
                        \/ \E f \in Fns : CallRemove(n, f)
  \/ CallsNext \/ Returns \/ ReturnsFalse \/ FireEnds

CallbacksSpec == CallbacksInit /\ [][CallbacksNext]_callbackVars

-----------------------------------------------------------------------------
(* Properties.                                                              *)

(* A list that is firing has exactly those callbacks before it that are     *)
(* due: whatever its callbacks add, remove or fire, none is skipped and     *)
(* none is called twice in one round. (Not after a callback has emptied the *)
(* list: the loop's place stays, and what is added then may be skipped.)    *)
EachDueOnce ==
  \A n \in DOMAIN lists \ emptied :
    LET L == lists[n]
        next == IF L.running THEN L.firingIndex + 1 ELSE L.firingIndex
    IN  dueCalls[n] = IF ~ L.firing \/ L.disabled THEN << >>
                 ELSE SubSeq(L.list, next, L.firingLength)

(* A Deferred is settled once: the callbacks of the outcome, and no others, *)
(* all hear the first value, whether they were added before, meanwhile or   *)
(* after, and from within which callback, and whatever was resolved or      *)
(* rejected later.                                                          *)
SettledOnce ==
  "done" \in DOMAIN lists =>
    /\ \A n \in {"done", "fail"} : lists[n].data \in {NoFn, settledWith}
    /\ ~ (lists["done"].fired /\ lists["fail"].fired)
    /\ callbackFrames = << >> /\ state # "pending" =>
         LET n == IF state = "resolved" THEN "done" ELSE "fail"
         IN  lists[n].fired /\ \A f \in Fns : owed[<<n, f>>] = 0

(* Both: callbacks are called as often, and with what, they were promised.  *)
CallbacksInOrder == EachDueOnce /\ SettledOnce

=============================================================================
