---------------------------- MODULE BoundedQueue ----------------------------
(***************************************************************************)
(* EventQueue (src/src/event_queue.c) and UploadQueue (src/src/uploader.c):*)
(* the same circular buffer under a mutex with two condition variables.    *)
(* In the application                                                      *)
(*   - the HIKFlow thread and the test-event timer push events without     *)
(*     blocking, and the clip thread pops them;                            *)
(*   - the clip thread pushes jobs and blocks while the queue is full, and *)
(*     the upload thread pops them;                                        *)
(*   - the main thread closes both queues at shutdown.                     *)
(* A thread holds the mutex from a call, or from the moment it is woken,   *)
(* until it returns or waits: each such stretch is one step. A signal      *)
(* wakes at most one waiter, a broadcast all, and a waiter may also wake   *)
(* without any (POSIX spurious wakeups).                                   *)
(***************************************************************************)
EXTENDS Naturals, Sequences, FiniteSets

CONSTANTS
  Capacity,   (* max_events of the configuration                            *)
  Producers,  (* threads that push                                          *)
  Blocking,   (* those of them that push with block = 1                     *)
  Consumers,  (* threads that pop                                           *)
  MaxPushes   (* bound of the model: pushes of each producer                *)

ASSUME QueueAssumption ==
  /\ Capacity \in Nat \ {0}
  /\ Blocking \subseteq Producers
  /\ IsFiniteSet(Producers) /\ Consumers # {}
  /\ Producers \cap Consumers = {}
  /\ MaxPushes \in Nat

Threads == Producers \cup Consumers
Slots == 0 .. Capacity - 1
Item == [from : Producers, serial : 1 .. MaxPushes]
NoItem == [from |-> "nobody", serial |-> 0]   (* a slot never written       *)

VARIABLES
  items, head, tail, count, closed, (* fields of the queue                  *)
  pc,      (* "out": not in a call; "in": running in push or pop;           *)
           (* "asleep": in pthread_cond_wait; "quit": its last call failed  *)
  pushes,  (* how many pushes each producer has begun                       *)
  accepted, delivered  (* history: what push took, what pop returned        *)

queueVars == <<items, head, tail, count, closed>>
vars == <<queueVars, pc, pushes, accepted, delivered>>

Full == count = Capacity
WaitingFor(T) == {t \in T : pc[t] = "asleep"}

(* Variant: nobody is signalled.                                            *)
SignalFrom_Nobody(T, self, label) == pc' = [pc EXCEPT ![self] = label]

(* pthread_cond_signal: wakes one of the waiters, if there is any.          *)
SignalFrom(T, self, label) ==
  \/ /\ WaitingFor(T) = {}
     /\ pc' = [pc EXCEPT ![self] = label]
  \/ \E t \in WaitingFor(T) : pc' = [pc EXCEPT ![self] = label, ![t] = "in"]

-----------------------------------------------------------------------------
(* A producer calls push with its next item.                                *)
CallPush(p) ==
  /\ pc[p] = "out"
  /\ pushes[p] < MaxPushes
  /\ pushes' = [pushes EXCEPT ![p] = @ + 1]
  /\ pc' = [pc EXCEPT ![p] = "in"]
  /\ UNCHANGED <<queueVars, accepted, delivered>>

(* Full and open: a blocking push waits on not_full.                        *)
PushWaits(p) ==
  /\ pc[p] = "in" /\ p \in Producers
  /\ ~ closed /\ Full /\ p \in Blocking
  /\ pc' = [pc EXCEPT ![p] = "asleep"]
  /\ UNCHANGED <<queueVars, pushes, accepted, delivered>>

(* Closed, or full for a push that does not block: the item is refused.     *)
PushRefused(p) ==
  /\ pc[p] = "in" /\ p \in Producers
  /\ closed \/ (Full /\ p \notin Blocking)
  /\ pc' = [pc EXCEPT ![p] = "out"]
  /\ UNCHANGED <<queueVars, pushes, accepted, delivered>>

(* Variant: nobody looks whether the queue was closed during the wait.      *)
PushAccepted_WhenClosed(p) ==
  /\ pc[p] = "in" /\ p \in Producers
  /\ ~ Full
  /\ LET item == [from |-> p, serial |-> pushes[p]]
     IN  /\ items' = [items EXCEPT ![tail] = item]
         /\ accepted' = Append(accepted, item)
  /\ tail' = (tail + 1) % Capacity
  /\ count' = count + 1
  /\ SignalFrom(Consumers, p, "out")
  /\ UNCHANGED <<head, closed, pushes, delivered>>

PushAccepted(p) ==
  /\ pc[p] = "in" /\ p \in Producers
  /\ ~ closed /\ ~ Full
  /\ LET item == [from |-> p, serial |-> pushes[p]]
     IN  /\ items' = [items EXCEPT ![tail] = item]
         /\ accepted' = Append(accepted, item)
  /\ tail' = (tail + 1) % Capacity
  /\ count' = count + 1
  /\ SignalFrom(Consumers, p, "out")
  /\ UNCHANGED <<head, closed, pushes, delivered>>

(* A consumer calls pop.                                                    *)
CallPop(c) ==
  /\ pc[c] = "out"
  /\ pc' = [pc EXCEPT ![c] = "in"]
  /\ UNCHANGED <<queueVars, pushes, accepted, delivered>>

PopWaits(c) ==
  /\ pc[c] = "in" /\ c \in Consumers
  /\ ~ closed /\ count = 0
  /\ pc' = [pc EXCEPT ![c] = "asleep"]
  /\ UNCHANGED <<queueVars, pushes, accepted, delivered>>

(* Closed and drained: the consumer leaves its loop.                        *)
PopFails(c) ==
  /\ pc[c] = "in" /\ c \in Consumers
  /\ closed /\ count = 0
  /\ pc' = [pc EXCEPT ![c] = "quit"]
  /\ UNCHANGED <<queueVars, pushes, accepted, delivered>>

(* Variant: nobody learns that there is room.                               *)
PopReturns_Silent(c) ==
  /\ pc[c] = "in" /\ c \in Consumers
  /\ count > 0
  /\ delivered' = Append(delivered, items[head])
  /\ head' = (head + 1) % Capacity
  /\ count' = count - 1
  /\ pc' = [pc EXCEPT ![c] = "out"]
  /\ UNCHANGED <<items, tail, closed, pushes, accepted>>

PopReturns(c) ==
  /\ pc[c] = "in" /\ c \in Consumers
  /\ count > 0
  /\ delivered' = Append(delivered, items[head])
  /\ head' = (head + 1) % Capacity
  /\ count' = count - 1
  /\ SignalFrom(Producers, c, "out")
  /\ UNCHANGED <<items, tail, closed, pushes, accepted>>

(* Variant: the flag is set and nobody is woken.                            *)
CloseQueue_NoBroadcast ==
  /\ ~ closed
  /\ closed' = TRUE
  /\ UNCHANGED <<items, head, tail, count, pc, pushes, accepted, delivered>>

(* event_queue_close, upload_queue_close: broadcast to both conditions.     *)
CloseQueue ==
  /\ ~ closed
  /\ closed' = TRUE
  /\ pc' = [t \in Threads |-> IF pc[t] = "asleep" THEN "in" ELSE pc[t]]
  /\ UNCHANGED <<items, head, tail, count, pushes, accepted, delivered>>

(* pthread_cond_wait may return for no reason; the loop looks again.        *)
SpuriousWakeup(t) ==
  /\ pc[t] = "asleep"
  /\ pc' = [pc EXCEPT ![t] = "in"]
  /\ UNCHANGED <<queueVars, pushes, accepted, delivered>>

Push(p) == CallPush(p) \/ PushWaits(p) \/ PushRefused(p) \/ PushAccepted(p)
Pop(c) == CallPop(c) \/ PopWaits(c) \/ PopFails(c) \/ PopReturns(c)

Init ==
  /\ items = [s \in Slots |-> NoItem]
  /\ head = 0 /\ tail = 0 /\ count = 0 /\ closed = FALSE
  /\ pc = [t \in Threads |-> "out"]
  /\ pushes = [p \in Producers |-> 0]
  /\ accepted = << >> /\ delivered = << >>

Next ==
  \/ \E p \in Producers : Push(p)
  \/ \E c \in Consumers : Pop(c)
  \/ CloseQueue
  \/ \E t \in Threads : SpuriousWakeup(t)

Spec == Init /\ [][Next]_vars

(* A thread in a call goes on, and a consumer calls pop again and again. No *)
(* fairness of wakeups nobody signalled, of producers, nor of the shutdown. *)
Fairness ==
  /\ \A p \in Producers : WF_vars(PushWaits(p) \/ PushRefused(p) \/ PushAccepted(p))
  /\ \A c \in Consumers : WF_vars(Pop(c))

FairSpec == Spec /\ Fairness

-----------------------------------------------------------------------------
TypeOK ==
  /\ items \in [Slots -> Item \cup {NoItem}]
  /\ head \in Slots /\ tail \in Slots
  /\ count \in 0 .. Capacity
  /\ closed \in BOOLEAN
  /\ pc \in [Threads -> {"out", "in", "asleep", "quit"}]
  /\ pushes \in [Producers -> 0 .. MaxPushes]
  /\ accepted \in Seq(Item)
  /\ delivered \in Seq(Item)

Contents == [i \in 1 .. count |-> items[(head + i - 1) % Capacity]]

(* Every item push took is either popped already or still in the queue:     *)
(* none is lost, duplicated, invented or overtaken, through any number of   *)
(* wraps of head and tail, and whatever close does in between.              *)
NothingLostOrReordered ==
  /\ Len(accepted) = Len(delivered) + count
  /\ \A i \in 1 .. Len(delivered) : delivered[i] = accepted[i]
  /\ \A i \in 1 .. count : Contents[i] = accepted[Len(delivered) + i]

(* No lost wakeup: the consumers do not all sleep on a queue that has       *)
(* something for them, nor does a producer sleep on one that has room       *)
(* unless another is on its way to fill it, and nobody sleeps on a closed   *)
(* one. Push and pop signal for every item, not only for the first, and a   *)
(* signal may go to a thread that finds the room taken and waits again.     *)
NoLostWakeup ==
  /\ count > 0 => WaitingFor(Consumers) # Consumers
  /\ ~ Full /\ WaitingFor(Producers) # {} => \E p \in Producers : pc[p] = "in"
  /\ closed => WaitingFor(Threads) = {}

(* The circular buffer implements the channel.                              *)
Abstract == INSTANCE Channel WITH contents <- Contents
ImplementsChannel == Abstract!Spec

(* A consumer leaves only when the queue is closed and empty: what was      *)
(* accepted before the close is still handed out.                           *)
DrainsBeforeQuitting ==
  (\E c \in Consumers : pc[c] = "quit") => closed /\ delivered = accepted

(* Whatever was accepted is delivered in the end.                           *)
AcceptedIsDelivered ==
  \A n \in 1 .. MaxPushes : (Len(accepted) >= n) ~> (Len(delivered) >= n)

(* A blocking push always comes back, as long as somebody pops: it finds    *)
(* room or the queue is closed.                                             *)
PushReturns == \A p \in Producers : pc[p] \in {"in", "asleep"} ~> pc[p] = "out"

(* After a close every consumer leaves, however many were asleep.           *)
CloseReleasesConsumers == \A c \in Consumers : closed ~> pc[c] = "quit"

(* Nothing hangs in the queue: what was accepted is delivered, a push       *)
(* returns, and after a close every consumer leaves.                        *)
QueueIsLive == AcceptedIsDelivered /\ PushReturns /\ CloseReleasesConsumers

=============================================================================
