---------------------------- MODULE UploadProofs ----------------------------
(***************************************************************************)
(* Proofs about what uploading stands on.                                  *)
(*                                                                         *)
(* The queues of events and uploads (BoundedQueue), for every capacity and *)
(* any sets of producers and consumers: types, that a queue is first-in    *)
(* first-out, that a closed one is drained, and that it implements Channel.*)
(*                                                                         *)
(* The archive of failed uploads (FailedArchive), for any number of failed *)
(* events, directory names and power losses: what fails to upload is not   *)
(* lost, directories are not shared, and what the archive leaves is whole. *)
(* The inductive invariant says whose each directory is (Owned) and what   *)
(* has reached the card when the code is where it is (Progress, Tidy).     *)
(***************************************************************************)
EXTENDS BoundedQueue, FailedArchive, SequenceTheorems, FiniteSetTheorems, TLAPS

-----------------------------------------------------------------------------
(* The queues.                                                              *)

(* Who may be where: only a consumer quits, and a producer inside push has  *)
(* counted that call.                                                       *)
CallsCounted ==
  \A p \in Producers :
    /\ pc[p] # "quit"
    /\ pc[p] \in {"in", "asleep"} => pushes[p] >= 1

(* The next free slot comes right after the items held.                     *)
IndicesInStep == tail = (head + count) % Capacity

IInv == TypeOK /\ CallsCounted /\ IndicesInStep /\ NothingLostOrReordered

(* The empty queue satisfies the invariant.                                 *)
LEMMA InitIInv == Init => IInv
<1> SUFFICES ASSUME Init PROVE IInv
  OBVIOUS
<1> USE QueueAssumption DEF Init
<1>1. TypeOK
  <2>1. 0 \in Slots /\ 0 \in 0 .. Capacity
    BY DEF Slots
  <2>2. << >> \in Seq(Item)
    OBVIOUS
  <2>3. items \in [Slots -> Item \cup {NoItem}]
    OBVIOUS
  <2>4. pushes \in [Producers -> 0 .. MaxPushes]
    OBVIOUS
  <2> QED
    BY <2>1, <2>2, <2>3, <2>4 DEF TypeOK
<1>2. CallsCounted
  BY DEF CallsCounted, Threads
<1>3. IndicesInStep
  <2>1. (0 + 0) % Capacity = 0
    OBVIOUS
  <2> QED
    BY <2>1 DEF IndicesInStep
<1>4. NothingLostOrReordered
  BY DEF NothingLostOrReordered, Contents
<1> QED
  BY <1>1, <1>2, <1>3, <1>4 DEF IInv

(* What every signal and broadcast does to the program counters: the caller *)
(* moves on and a sleeper may be woken; nothing else.                       *)
LEMMA SignalTypes ==
  ASSUME TypeOK, NEW T, T \subseteq Threads, NEW self \in Threads, pc[self] = "in",
         SignalFrom(T, self, "out")
  PROVE  /\ pc' \in [Threads -> {"out", "in", "asleep", "quit"}]
         /\ \A t \in Threads : pc'[t] = "quit" => pc[t] = "quit"
         /\ \A t \in Threads : pc'[t] \in {"in", "asleep"} => pc[t] \in {"in", "asleep"}
  BY DEF TypeOK, SignalFrom, WaitingFor

(* A step that leaves the buffer and its history alone.                     *)
LEMMA QuietStep ==
  ASSUME IInv, UNCHANGED <<items, head, tail, count, accepted, delivered>>
  PROVE  IndicesInStep' /\ NothingLostOrReordered'
  BY DEF IInv, IndicesInStep, NothingLostOrReordered, Contents

(* What the array holds, read as a sequence.                                *)
LEMMA ContentsType ==
  ASSUME IInv
  PROVE  Contents \in Seq(Item) /\ Len(Contents) = count
<1>1. count \in Nat /\ accepted \in Seq(Item) /\ delivered \in Seq(Item)
  BY QueueAssumption DEF IInv, TypeOK
<1>2. \A i \in 1 .. count : Contents[i] \in Item
  <2> SUFFICES ASSUME NEW i \in 1 .. count PROVE Contents[i] \in Item
    OBVIOUS
  <2> DEFINE n == Len(delivered) + i
  <2>1. Len(accepted) = Len(delivered) + count /\ Contents[i] = accepted[n]
    BY DEF IInv, NothingLostOrReordered
  <2>2. n \in 1 .. Len(accepted)
    BY <1>1, <2>1
  <2> HIDE DEF n
  <2> QED
    BY <1>1, <2>1, <2>2
<1>3. Contents = [i \in 1 .. count |-> Contents[i]]
  BY DEF Contents
<1>4. Contents \in [1 .. count -> Item]
  BY <1>2, <1>3
<1> QED
  BY <1>1, <1>4

(* One accepted item is appended to what the array holds.                   *)
LEMMA PushContents ==
  ASSUME IInv, NEW p \in Producers, PushAccepted(p)
  PROVE  /\ \A i \in 1 .. count : Contents'[i] = Contents[i]
         /\ Contents'[count + 1] = [from |-> p, serial |-> pushes[p]]
<1> USE QueueAssumption
<1>1. TypeOK /\ IndicesInStep
  BY DEF IInv
<1>2. /\ items' = [items EXCEPT ![tail] = [from |-> p, serial |-> pushes[p]]]
      /\ count' = count + 1
      /\ head' = head
  BY DEF PushAccepted
<1>3. /\ Capacity \in Nat \ {0} /\ head \in 0 .. Capacity - 1 /\ tail \in 0 .. Capacity - 1
      /\ count \in Nat /\ count < Capacity
  BY <1>1 DEF TypeOK, Slots, PushAccepted, Full
<1>4. \A i \in 1 .. count : (head + i - 1) % Capacity # tail
  <2> SUFFICES ASSUME NEW i \in 1 .. count PROVE (head + i - 1) % Capacity # tail
    OBVIOUS
  <2>1. tail = IF head + count < Capacity THEN head + count ELSE head + count - Capacity
    BY <1>1, <1>3 DEF IndicesInStep
  <2>2. (head + i - 1) % Capacity
          = IF head + i - 1 < Capacity THEN head + i - 1 ELSE head + i - 1 - Capacity
    BY <1>3
  <2> QED
    BY <1>3, <2>1, <2>2
<1>5. ASSUME NEW i \in 1 .. count PROVE Contents'[i] = Contents[i]
  <2>1. (head + i - 1) % Capacity \in Slots
    BY <1>3 DEF Slots
  <2>2. items'[(head + i - 1) % Capacity] = items[(head + i - 1) % Capacity]
    BY <1>1, <1>2, <1>4, <2>1 DEF TypeOK
  <2> QED
    BY <1>2, <1>3, <2>2 DEF Contents
<1>6. Contents'[count + 1] = [from |-> p, serial |-> pushes[p]]
  <2>1. tail = (head + count) % Capacity /\ head + (count + 1) - 1 = head + count
    BY <1>1, <1>3 DEF IndicesInStep
  <2>2. items'[tail] = [from |-> p, serial |-> pushes[p]]
    BY <1>1, <1>2, <1>3 DEF TypeOK, Slots
  <2>3. Contents'[count + 1] = items'[(head + (count + 1) - 1) % Capacity]
    BY <1>2, <1>3 DEF Contents
  <2> QED
    BY <2>1, <2>2, <2>3
<1> QED
  BY <1>5, <1>6

(* One delivered item is taken off the front.                               *)
LEMMA PopContents ==
  ASSUME IInv, NEW c \in Consumers, PopReturns(c)
  PROVE  /\ items[head] = Contents[1]
         /\ \A i \in 1 .. count - 1 : Contents'[i] = Contents[i + 1]
<1> USE QueueAssumption
<1>1. TypeOK
  BY DEF IInv
<1>2. head' = (head + 1) % Capacity /\ count' = count - 1 /\ items' = items
  BY DEF PopReturns
<1>3. /\ Capacity \in Nat \ {0} /\ head \in 0 .. Capacity - 1
      /\ count \in Nat /\ count > 0 /\ count <= Capacity
  BY <1>1 DEF TypeOK, Slots, PopReturns
<1>4. items[head] = Contents[1]
  <2>1. Contents[1] = items[(head + 1 - 1) % Capacity]
    BY <1>3 DEF Contents
  <2>2. (head + 1 - 1) % Capacity = head
    BY <1>3
  <2> QED
    BY <2>1, <2>2
<1>5. head' = IF head + 1 < Capacity THEN head + 1 ELSE 0
  BY <1>2, <1>3
<1>6. ASSUME NEW i \in 1 .. count - 1 PROVE Contents'[i] = Contents[i + 1]
  <2>1. (head' + i - 1) % Capacity = (head + (i + 1) - 1) % Capacity
    <3>1. CASE head + 1 < Capacity
      BY <1>3, <1>5, <3>1
    <3>2. CASE head + 1 >= Capacity
      <4>1. (head' + i - 1) % Capacity = i - 1
        BY <1>3, <1>5, <3>2
      <4>2. (head + (i + 1) - 1) % Capacity = head + (i + 1) - 1 - Capacity
        BY <1>3, <3>2
      <4> QED
        BY <1>3, <3>2, <4>1, <4>2
    <3> QED
      BY <1>3, <3>1, <3>2
  <2>2. Contents'[i] = items[(head' + i - 1) % Capacity]
    BY <1>2, <1>3 DEF Contents
  <2>3. Contents[i + 1] = items[(head + (i + 1) - 1) % Capacity]
    BY <1>3 DEF Contents
  <2> QED
    BY <2>1, <2>2, <2>3
<1> QED
  BY <1>4, <1>6

(* A push that stores its item keeps the invariant.                         *)
LEMMA PushAcceptedIInv ==
  ASSUME IInv, NEW p \in Producers, PushAccepted(p)
  PROVE  IInv'
<1> DEFINE item == [from |-> p, serial |-> pushes[p]]
<1> USE QueueAssumption
<1>1. TypeOK /\ CallsCounted /\ IndicesInStep /\ NothingLostOrReordered
  BY DEF IInv
<1>2. /\ items' = [items EXCEPT ![tail] = item]
      /\ accepted' = Append(accepted, item)
      /\ tail' = (tail + 1) % Capacity
      /\ count' = count + 1
      /\ head' = head /\ delivered' = delivered /\ pushes' = pushes /\ closed' = closed
  BY DEF PushAccepted
<1>3. item \in Item
  BY <1>1 DEF PushAccepted, TypeOK, CallsCounted, Item
<1>4. /\ pc' \in [Threads -> {"out", "in", "asleep", "quit"}]
      /\ \A t \in Threads : pc'[t] = "quit" => pc[t] = "quit"
      /\ \A t \in Threads : pc'[t] \in {"in", "asleep"} => pc[t] \in {"in", "asleep"}
  BY <1>1, SignalTypes DEF PushAccepted, Threads
<1>5. /\ Capacity \in Nat \ {0} /\ head \in 0 .. Capacity - 1 /\ tail \in 0 .. Capacity - 1
      /\ count \in Nat /\ count < Capacity
  BY <1>1 DEF TypeOK, Slots, PushAccepted, Full
<1>6. tail' \in Slots
  BY <1>2, <1>5 DEF Slots
<1>7. TypeOK'
  BY <1>1, <1>2, <1>3, <1>4, <1>5, <1>6 DEF TypeOK
<1>8. CallsCounted'
  BY <1>1, <1>2, <1>4 DEF CallsCounted, Threads
<1>9. IndicesInStep'
  <2>1. tail = (head + count) % Capacity
    BY <1>1 DEF IndicesInStep
  <2>2. CASE head + count < Capacity
    <3>1. tail = head + count
      BY ONLY <1>5, <2>1, <2>2
    <3>2. (tail + 1) % Capacity = (head + (count + 1)) % Capacity
      BY <1>5, <3>1
    <3> QED
      BY <1>2, <3>2 DEF IndicesInStep
  <2>3. CASE head + count >= Capacity
    <3>1. tail = head + count - Capacity
      BY <1>5, <2>1, <2>3
    <3>2. (tail + 1) % Capacity = tail + 1
      BY <1>5, <3>1
    <3>3. (head + (count + 1)) % Capacity = head + (count + 1) - Capacity
      BY <1>5, <2>3
    <3> QED
      BY <1>2, <1>5, <3>1, <3>2, <3>3 DEF IndicesInStep
  <2> QED
    BY <2>2, <2>3, <1>5
<1>10. NothingLostOrReordered'
  <2>1. \A i \in 1 .. count : Contents'[i] = Contents[i]
    BY PushContents
  <2>2. Contents'[count + 1] = item
    BY PushContents
  <2>3. /\ accepted \in Seq(Item) /\ delivered \in Seq(Item)
        /\ Len(accepted) = Len(delivered) + count
        /\ \A i \in 1 .. Len(delivered) : delivered[i] = accepted[i]
        /\ \A i \in 1 .. count : Contents[i] = accepted[Len(delivered) + i]
    BY <1>1 DEF TypeOK, NothingLostOrReordered
  <2>4. /\ Len(accepted') = Len(accepted) + 1
        /\ \A i \in 1 .. Len(accepted) : accepted'[i] = accepted[i]
        /\ accepted'[Len(accepted) + 1] = item
    BY <1>2, <1>3, <2>3
  <2>5. Len(accepted') = Len(delivered') + count'
    BY <1>2, <1>5, <2>3, <2>4
  <2>6. \A i \in 1 .. Len(delivered') : delivered'[i] = accepted'[i]
    BY <1>2, <1>5, <2>3, <2>4
  <2>7. \A i \in 1 .. count' : Contents'[i] = accepted'[Len(delivered') + i]
    <3> SUFFICES ASSUME NEW i \in 1 .. count + 1
                 PROVE  Contents'[i] = accepted'[Len(delivered) + i]
      BY <1>2
    <3>1. CASE i = count + 1
      BY <1>5, <2>2, <2>3, <2>4, <3>1
    <3>2. CASE i \in 1 .. count
      BY <1>5, <2>1, <2>3, <2>4, <3>2
    <3> QED
      BY <1>5, <3>1, <3>2
  <2> QED
    BY <2>5, <2>6, <2>7 DEF NothingLostOrReordered
<1> QED
  BY <1>7, <1>8, <1>9, <1>10 DEF IInv

(* A pop that takes an item keeps the invariant.                            *)
LEMMA PopReturnsIInv ==
  ASSUME IInv, NEW c \in Consumers, PopReturns(c)
  PROVE  IInv'
<1> USE QueueAssumption
<1>1. TypeOK /\ CallsCounted /\ IndicesInStep /\ NothingLostOrReordered
  BY DEF IInv
<1>2. /\ delivered' = Append(delivered, items[head])
      /\ head' = (head + 1) % Capacity
      /\ count' = count - 1
      /\ items' = items /\ tail' = tail /\ closed' = closed
      /\ pushes' = pushes /\ accepted' = accepted
  BY DEF PopReturns
<1>3. /\ Capacity \in Nat \ {0} /\ head \in 0 .. Capacity - 1 /\ tail \in 0 .. Capacity - 1
      /\ count \in Nat /\ count > 0 /\ count <= Capacity
  BY <1>1 DEF TypeOK, Slots, PopReturns
<1>4. /\ accepted \in Seq(Item) /\ delivered \in Seq(Item)
      /\ Len(accepted) = Len(delivered) + count
      /\ \A i \in 1 .. Len(delivered) : delivered[i] = accepted[i]
      /\ \A i \in 1 .. count : Contents[i] = accepted[Len(delivered) + i]
  BY <1>1 DEF TypeOK, NothingLostOrReordered
<1>5. items[head] = accepted[Len(delivered) + 1]
  BY <1>3, <1>4, PopContents
<1>6. items[head] \in Item
  BY <1>3, <1>4, <1>5
<1>7. /\ pc' \in [Threads -> {"out", "in", "asleep", "quit"}]
      /\ \A t \in Threads : pc'[t] = "quit" => pc[t] = "quit"
      /\ \A t \in Threads : pc'[t] \in {"in", "asleep"} => pc[t] \in {"in", "asleep"}
  BY <1>1, SignalTypes DEF PopReturns, Threads
<1>8. head' = IF head + 1 < Capacity THEN head + 1 ELSE 0
  BY <1>2, <1>3
<1>9. TypeOK'
  <2>1. head' \in Slots
    BY <1>3, <1>8 DEF Slots
  <2>2. delivered' \in Seq(Item)
    BY <1>2, <1>4, <1>6
  <2> QED
    BY <1>1, <1>2, <1>3, <1>7, <2>1, <2>2 DEF TypeOK
<1>10. CallsCounted'
  BY <1>1, <1>2, <1>7 DEF CallsCounted, Threads
<1>11. IndicesInStep'
  <2>1. tail = IF head + count < Capacity THEN head + count ELSE head + count - Capacity
    BY <1>1, <1>3 DEF IndicesInStep
  <2>2. CASE head + 1 < Capacity
    <3>1. head' + count' = head + count
      BY <1>2, <1>3, <1>8, <2>2
    <3> QED
      BY <1>1, <1>2, <3>1 DEF IndicesInStep
  <2>3. CASE head + 1 >= Capacity
    <3>1. head' + count' = count - 1
      BY <1>2, <1>3, <1>8, <2>3
    <3>2. (count - 1) % Capacity = count - 1
      BY <1>3
    <3>3. tail = count - 1
      BY <1>3, <2>1, <2>3
    <3> QED
      BY <1>2, <3>1, <3>2, <3>3 DEF IndicesInStep
  <2> QED
    BY <1>3, <2>2, <2>3
<1>12. NothingLostOrReordered'
  <2>1. /\ Len(delivered') = Len(delivered) + 1
        /\ \A i \in 1 .. Len(delivered) : delivered'[i] = delivered[i]
        /\ delivered'[Len(delivered) + 1] = items[head]
    BY <1>2, <1>4, <1>6
  <2>2. \A i \in 1 .. count - 1 : Contents'[i] = Contents[i + 1]
    BY PopContents
  <2>3. Len(accepted') = Len(delivered') + count'
    BY <1>2, <1>3, <1>4, <2>1
  <2>4. \A i \in 1 .. Len(delivered') : delivered'[i] = accepted'[i]
    BY <1>2, <1>4, <1>5, <2>1
  <2>5. \A i \in 1 .. count' : Contents'[i] = accepted'[Len(delivered') + i]
    BY <1>2, <1>3, <1>4, <2>1, <2>2
  <2> QED
    BY <2>3, <2>4, <2>5 DEF NothingLostOrReordered
<1> QED
  BY <1>9, <1>10, <1>11, <1>12 DEF IInv

(* Every step keeps the invariant.                                          *)
LEMMA NextIInv == IInv /\ [Next]_vars => IInv'
<1> SUFFICES ASSUME IInv, [Next]_vars PROVE IInv'
  OBVIOUS
<1> USE QueueAssumption
<1>0. TypeOK /\ CallsCounted
  BY DEF IInv
<1>1. ASSUME NEW p \in Producers, CallPush(p)
      PROVE  IInv'
  <2>1. TypeOK'
    BY <1>0, <1>1 DEF TypeOK, CallPush, queueVars, Threads
  <2>2. CallsCounted'
    BY <1>0, <1>1 DEF TypeOK, CallsCounted, CallPush, Threads
  <2> QED
    BY <1>1, <2>1, <2>2, QuietStep DEF IInv, CallPush, queueVars
<1>2. ASSUME NEW p \in Producers, PushWaits(p) \/ PushRefused(p)
      PROVE  IInv'
  <2>1. TypeOK'
    BY <1>0, <1>2 DEF TypeOK, PushWaits, PushRefused, queueVars, Threads
  <2>2. CallsCounted'
    BY <1>0, <1>2 DEF TypeOK, CallsCounted, PushWaits, PushRefused, Threads
  <2> QED
    BY <1>2, <2>1, <2>2, QuietStep DEF IInv, PushWaits, PushRefused, queueVars
<1>3. ASSUME NEW p \in Producers, PushAccepted(p)
      PROVE  IInv'
  BY <1>3, PushAcceptedIInv
<1>4. ASSUME NEW c \in Consumers, CallPop(c) \/ PopWaits(c) \/ PopFails(c)
      PROVE  IInv'
  <2>1. TypeOK'
    BY <1>0, <1>4 DEF TypeOK, CallPop, PopWaits, PopFails, queueVars, Threads
  <2>2. CallsCounted'
    BY <1>0, <1>4 DEF TypeOK, CallsCounted, CallPop, PopWaits, PopFails, Threads
  <2> QED
    BY <1>4, <2>1, <2>2, QuietStep DEF IInv, CallPop, PopWaits, PopFails, queueVars
<1>5. ASSUME NEW c \in Consumers, PopReturns(c)
      PROVE  IInv'
  BY <1>5, PopReturnsIInv
<1>6. ASSUME CloseQueue
      PROVE  IInv'
  <2>1. TypeOK'
    BY <1>0, <1>6 DEF TypeOK, CloseQueue
  <2>2. CallsCounted'
    BY <1>0, <1>6 DEF TypeOK, CallsCounted, CloseQueue, Threads
  <2> QED
    BY <1>6, <2>1, <2>2, QuietStep DEF IInv, CloseQueue
<1>7. ASSUME NEW t \in Threads, SpuriousWakeup(t)
      PROVE  IInv'
  <2>1. TypeOK'
    BY <1>0, <1>7 DEF TypeOK, SpuriousWakeup, queueVars
  <2>2. CallsCounted'
    BY <1>0, <1>7 DEF TypeOK, CallsCounted, SpuriousWakeup, Threads
  <2> QED
    BY <1>7, <2>1, <2>2, QuietStep DEF IInv, SpuriousWakeup, queueVars
<1>8. CASE UNCHANGED vars
  BY <1>8 DEF IInv, TypeOK, CallsCounted, IndicesInStep, NothingLostOrReordered,
              Contents, vars, queueVars
<1> QED
  BY <1>1, <1>2, <1>3, <1>4, <1>5, <1>6, <1>7, <1>8 DEF Next, Push, Pop

(* The invariant of the buffer and its history holds in every state.        *)
THEOREM Invariance == Spec => []IInv
  BY InitIInv, NextIInv, PTL DEF Spec

(* The type invariant of the queue.                                         *)
THEOREM TypeCorrect == Spec => []TypeOK
<1>1. IInv => TypeOK
  BY DEF IInv
<1> QED
  BY <1>1, Invariance, PTL

(* Every item push took is popped already or still queued, in order, for    *)
(* every capacity and any number of threads on either side.                 *)
THEOREM FirstInFirstOut == Spec => []NothingLostOrReordered
<1>1. IInv => NothingLostOrReordered
  BY DEF IInv
<1> QED
  BY <1>1, Invariance, PTL

-----------------------------------------------------------------------------
(* Refinement: the circular buffer behind the mutex is a Channel.           *)

(* Read as a sequence, the array grows at its end.                          *)
LEMMA PushIsAccept ==
  ASSUME IInv, NEW p \in Producers, PushAccepted(p)
  PROVE  \E item \in Item : Abstract!Accept(item)
<1> DEFINE item == [from |-> p, serial |-> pushes[p]]
<1>1. /\ item \in Item /\ count \in Nat /\ count < Capacity /\ Contents \in Seq(Item)
      /\ Len(Contents) = count /\ DOMAIN Contents = 1 .. count
  <2>1. item \in Item /\ count \in Nat /\ count < Capacity
    BY QueueAssumption DEF IInv, TypeOK, CallsCounted, PushAccepted, Full, Item
  <2>2. Contents \in Seq(Item) /\ Len(Contents) = count
    BY <2>1, ContentsType
  <2> QED
    BY <2>1, <2>2 DEF Contents
<1>2. count' = count + 1 /\ ~ closed /\ closed' = closed
  BY DEF PushAccepted
<1>3. Contents' = [i \in 1 .. count + 1 |-> IF i = count + 1 THEN item ELSE Contents[i]]
  <2>1. \A i \in 1 .. count + 1 :
          Contents'[i] = IF i = count + 1 THEN item ELSE Contents[i]
    BY <1>1, PushContents
  <2>2. Contents' = [i \in 1 .. count + 1 |-> Contents'[i]]
    BY <1>2 DEF Contents
  <2> QED
    BY <2>1, <2>2
<1>4. Append(Contents, item)
        = [i \in 1 .. count + 1 |-> IF i = count + 1 THEN item ELSE Contents[i]]
  <2>1. \A i \in 1 .. count + 1 :
          Append(Contents, item)[i] = IF i = count + 1 THEN item ELSE Contents[i]
    BY <1>1
  <2>2. /\ Append(Contents, item) \in Seq(Item)
        /\ Len(Append(Contents, item)) = count + 1
    BY <1>1
  <2>3. Append(Contents, item) = [i \in 1 .. count + 1 |-> Append(Contents, item)[i]]
    BY <2>2
  <2> QED
    BY <2>1, <2>3
<1> HIDE DEF item
<1>5. Abstract!Accept(item)
  BY <1>1, <1>2, <1>3, <1>4 DEF Abstract!Accept, Abstract!HasRoom
<1> QED
  BY <1>1, <1>5

(* Read as a sequence, the array shrinks at its front.                      *)
LEMMA PopIsDeliver ==
  ASSUME IInv, NEW c \in Consumers, PopReturns(c)
  PROVE  Abstract!Deliver
<1>1. count \in Nat /\ count > 0 /\ Contents \in Seq(Item) /\ Len(Contents) = count
  BY ContentsType DEF IInv, TypeOK, PopReturns
<1>2. count' = count - 1 /\ closed' = closed
  BY DEF PopReturns
<1>3. Contents' = [i \in 1 .. count - 1 |-> Contents[i + 1]]
  <2>1. Contents' = [i \in 1 .. count - 1 |-> Contents'[i]]
    BY <1>2 DEF Contents
  <2>2. \A i \in 1 .. count - 1 : Contents'[i] = Contents[i + 1]
    BY PopContents
  <2> QED
    BY <2>1, <2>2
<1>4. Contents # << >>
  BY <1>1
<1>5. Tail(Contents) = [i \in 1 .. count - 1 |-> Contents[i + 1]]
  <2>1. Tail(Contents) \in Seq(Item) /\ Len(Tail(Contents)) = count - 1
    BY <1>1, <1>4
  <2>2. \A i \in 1 .. count - 1 : Tail(Contents)[i] = Contents[i + 1]
    BY <1>1, <1>4
  <2>3. Tail(Contents) = [i \in 1 .. count - 1 |-> Tail(Contents)[i]]
    <3>1. Tail(Contents) \in [1 .. count - 1 -> Item]
      BY <2>1, LenProperties
    <3> QED
      BY <3>1
  <2> QED
    BY <2>2, <2>3
<1> QED
  BY <1>2, <1>3, <1>4, <1>5 DEF Abstract!Deliver

(* Every step of the queue is a step of the channel, or one it does not see.*)
LEMMA StepRefines ==
  ASSUME IInv, [Next]_vars
  PROVE  [Abstract!Next]_(Abstract!chanVars)
<1> USE DEF Abstract!Next, Abstract!chanVars
<1>1. ASSUME NEW p \in Producers, CallPush(p) \/ PushWaits(p) \/ PushRefused(p)
      PROVE  UNCHANGED Abstract!chanVars
  BY <1>1 DEF CallPush, PushWaits, PushRefused, queueVars, Contents
<1>2. ASSUME NEW p \in Producers, PushAccepted(p)
      PROVE  \E item \in Item : Abstract!Accept(item)
  BY <1>2, PushIsAccept
<1>3. ASSUME NEW c \in Consumers, CallPop(c) \/ PopWaits(c) \/ PopFails(c)
      PROVE  UNCHANGED Abstract!chanVars
  BY <1>3 DEF CallPop, PopWaits, PopFails, queueVars, Contents
<1>4. ASSUME NEW c \in Consumers, PopReturns(c)
      PROVE  Abstract!Deliver
  BY <1>4, PopIsDeliver
<1>5. ASSUME CloseQueue
      PROVE  Abstract!Close
  BY <1>5 DEF CloseQueue, Contents, Abstract!Close
<1>6. ASSUME NEW t \in Threads, SpuriousWakeup(t)
      PROVE  UNCHANGED Abstract!chanVars
  BY <1>6 DEF SpuriousWakeup, queueVars, Contents
<1>7. CASE UNCHANGED vars
  BY <1>7 DEF vars, queueVars, Contents
<1> QED
  BY <1>1, <1>2, <1>3, <1>4, <1>5, <1>6, <1>7 DEF Next, Push, Pop

(* The circular buffer implements the bounded first-in first-out channel    *)
(* that can be closed.                                                      *)
THEOREM Refinement == Spec => ImplementsChannel
<1>1. Init => Abstract!Init
  <2> SUFFICES ASSUME Init PROVE Contents = << >> /\ closed = FALSE
    BY DEF Abstract!Init
  <2>1. count = 0 /\ closed = FALSE
    BY DEF Init
  <2>2. Contents = << >>
    BY <2>1 DEF Contents
  <2> QED
    BY <2>1, <2>2
<1>2. IInv /\ [Next]_vars => [Abstract!Next]_(Abstract!chanVars)
  BY StepRefines
<1> QED
  BY <1>1, <1>2, Invariance, PTL DEF Spec, ImplementsChannel, Abstract!Spec

-----------------------------------------------------------------------------
(* Shutdown and wakeups.                                                    *)

(* A consumer that has left found the queue closed and empty.               *)
Drained == (\E c \in Consumers : pc[c] = "quit") => closed /\ count = 0

Running == {p \in Producers : pc[p] = "in"}

(* Why no wakeup is lost: while a producer sleeps, every free slot has a    *)
(* producer of its own on the way to it. Each pop frees one slot and wakes  *)
(* one sleeper; each push takes one slot and one producer out of push.      *)
RoomIsClaimed == WaitingFor(Producers) # {} => Cardinality(Running) >= Capacity - count

WakeInv ==
  /\ count > 0 => WaitingFor(Consumers) # Consumers
  /\ RoomIsClaimed
  /\ closed => WaitingFor(Threads) = {}

(* The number of producers running in push follows the set.                 *)
LEMMA RunningCounts ==
  ASSUME NEW R, R \subseteq Producers, NEW p
  PROVE  /\ Cardinality(R) \in Nat
         /\ p \notin R => Cardinality(R \cup {p}) = Cardinality(R) + 1
         /\ p \in R => Cardinality(R \ {p}) = Cardinality(R) - 1
  BY FS_Subset, FS_CardinalityType, FS_AddElement, FS_RemoveElement, QueueAssumption

(* The shutdown invariant is inductive.                                     *)
LEMMA DrainedStep ==
  ASSUME IInv, Drained, [Next]_vars
  PROVE  Drained'
<1>0. TypeOK /\ CallsCounted
  BY DEF IInv
<1>1. ASSUME NEW p \in Producers, CallPush(p) \/ PushWaits(p) \/ PushRefused(p)
      PROVE  Drained'
  BY <1>0, <1>1
     DEF Drained, TypeOK, CallPush, PushWaits, PushRefused, queueVars, Threads
<1>2. ASSUME NEW p \in Producers, PushAccepted(p)
      PROVE  Drained'
  BY <1>0, <1>2, SignalTypes DEF Drained, PushAccepted, Threads
<1>3. ASSUME NEW c \in Consumers, CallPop(c) \/ PopWaits(c) \/ PopFails(c)
      PROVE  Drained'
  BY <1>0, <1>3 DEF Drained, TypeOK, CallPop, PopWaits, PopFails, queueVars, Threads
<1>4. ASSUME NEW c \in Consumers, PopReturns(c)
      PROVE  Drained'
  <2>1. count # 0
    BY <1>4, <1>0, QueueAssumption DEF PopReturns, TypeOK
  <2>2. \A d \in Consumers : pc'[d] # "quit"
    BY <1>0, <1>4, <2>1, SignalTypes DEF Drained, PopReturns, Threads
  <2> QED
    BY <2>2 DEF Drained
<1>5. CASE CloseQueue
  BY <1>0, <1>5 DEF Drained, TypeOK, CloseQueue, Threads
<1>6. ASSUME NEW t \in Threads, SpuriousWakeup(t)
      PROVE  Drained'
  BY <1>0, <1>6 DEF Drained, TypeOK, SpuriousWakeup, queueVars, Threads
<1>7. CASE UNCHANGED vars
  BY <1>7 DEF Drained, vars, queueVars
<1> QED
  BY <1>1, <1>2, <1>3, <1>4, <1>5, <1>6, <1>7 DEF Next, Push, Pop

(* A consumer leaves only when everything accepted has been handed out.     *)
THEOREM Draining == Spec => []DrainsBeforeQuitting
<1>1. Init => Drained
  BY DEF Init, Drained, Threads
<1>2. IInv /\ Drained /\ [Next]_vars => Drained'
  BY DrainedStep
<1>3. IInv /\ Drained => DrainsBeforeQuitting
  <2> SUFFICES ASSUME IInv, closed /\ count = 0 PROVE delivered = accepted
    BY DEF Drained, DrainsBeforeQuitting
  <2>1. /\ accepted \in Seq(Item) /\ delivered \in Seq(Item)
        /\ Len(accepted) = Len(delivered)
        /\ \A i \in 1 .. Len(delivered) : delivered[i] = accepted[i]
    BY DEF IInv, TypeOK, NothingLostOrReordered
  <2> QED
    BY <2>1, SeqEqual
<1> QED
  BY <1>1, <1>2, <1>3, Invariance, PTL DEF Spec

(* A push or a pop that stores or takes an item keeps every wakeup due.     *)
LEMMA PushAcceptedWakes ==
  ASSUME IInv, WakeInv, NEW p \in Producers, PushAccepted(p)
  PROVE  WakeInv'
<1> USE QueueAssumption
<1>1. /\ count \in Nat /\ Capacity \in Nat /\ count' = count + 1 /\ ~ closed /\ closed' = closed
      /\ pc \in [Threads -> {"out", "in", "asleep", "quit"}] /\ pc[p] = "in"
      /\ SignalFrom(Consumers, p, "out")
  BY DEF IInv, TypeOK, PushAccepted
<1>2. WaitingFor(Consumers)' # Consumers
  BY <1>1 DEF SignalFrom, WaitingFor, Threads
<1>3. Running' = Running \ {p} /\ p \in Running
  BY <1>1 DEF SignalFrom, WaitingFor, Threads, Running
<1>4. WaitingFor(Producers)' = WaitingFor(Producers)
  BY <1>1 DEF SignalFrom, WaitingFor, Threads
<1>5. RoomIsClaimed'
  <2>1. Cardinality(Running') = Cardinality(Running) - 1 /\ Cardinality(Running) \in Nat
    BY <1>3, RunningCounts DEF Running
  <2> QED
    BY <1>1, <1>4, <2>1 DEF WakeInv, RoomIsClaimed
<1> QED
  BY <1>1, <1>2, <1>5 DEF WakeInv

(* A pop wakes a producer for the room it makes, if one sleeps.             *)
LEMMA PopReturnsWakes ==
  ASSUME IInv, WakeInv, NEW c \in Consumers, PopReturns(c)
  PROVE  WakeInv'
<1> USE QueueAssumption
<1>1. /\ count \in Nat /\ Capacity \in Nat /\ count' = count - 1 /\ count > 0 /\ closed' = closed
      /\ pc \in [Threads -> {"out", "in", "asleep", "quit"}] /\ pc[c] = "in"
      /\ SignalFrom(Producers, c, "out")
  BY DEF IInv, TypeOK, PopReturns
<1>2. WaitingFor(Consumers)' # Consumers
  BY <1>1 DEF SignalFrom, WaitingFor, Threads
<1>3. CASE WaitingFor(Producers) = {}
  <2>1. pc' = [pc EXCEPT ![c] = "out"]
    BY <1>1, <1>3 DEF SignalFrom
  <2>2. WaitingFor(Producers)' = {}
    BY <1>1, <1>3, <2>1 DEF WaitingFor, Threads
  <2>3. WaitingFor(Threads)' \subseteq WaitingFor(Threads)
    BY <1>1, <2>1 DEF WaitingFor, Threads
  <2> QED
    BY <1>1, <1>2, <2>2, <2>3 DEF WakeInv, RoomIsClaimed
<1>4. ASSUME NEW t \in WaitingFor(Producers), pc' = [pc EXCEPT ![c] = "out", ![t] = "in"]
      PROVE  WakeInv'
  <2>1. Running' = Running \cup {t} /\ t \notin Running
    BY <1>1, <1>4 DEF WaitingFor, Threads, Running
  <2>2. Cardinality(Running') = Cardinality(Running) + 1 /\ Cardinality(Running) \in Nat
    BY <2>1, RunningCounts DEF Running
  <2>3. RoomIsClaimed'
    BY <1>1, <1>4, <2>2 DEF WakeInv, RoomIsClaimed
  <2>4. WaitingFor(Threads)' \subseteq WaitingFor(Threads)
    BY <1>1, <1>4 DEF WaitingFor, Threads
  <2> QED
    BY <1>1, <1>2, <2>3, <2>4 DEF WakeInv
<1> QED
  BY <1>1, <1>3, <1>4 DEF SignalFrom

(* Every other step of a producer.                                          *)
LEMMA ProducerWaits ==
  ASSUME IInv, WakeInv, NEW p \in Producers, CallPush(p) \/ PushWaits(p) \/ PushRefused(p)
  PROVE  WakeInv'
<1> USE QueueAssumption
<1>1. /\ count \in Nat /\ Capacity \in Nat /\ count <= Capacity
      /\ count' = count /\ closed' = closed
      /\ pc \in [Threads -> {"out", "in", "asleep", "quit"}]
  BY DEF IInv, TypeOK, CallPush, PushWaits, PushRefused, queueVars
<1>2. WaitingFor(Consumers)' = WaitingFor(Consumers)
  BY <1>1 DEF CallPush, PushWaits, PushRefused, WaitingFor, Threads
<1>3. CASE CallPush(p)
  <2>1. Running' = Running \cup {p} /\ p \notin Running
    BY <1>1, <1>3 DEF CallPush, Running, Threads
  <2>2. Cardinality(Running') = Cardinality(Running) + 1 /\ Cardinality(Running) \in Nat
    BY <2>1, RunningCounts DEF Running
  <2>3. WaitingFor(Producers)' = WaitingFor(Producers) /\ WaitingFor(Threads)' = WaitingFor(Threads)
    BY <1>1, <1>3 DEF CallPush, WaitingFor, Threads
  <2> QED
    BY <1>1, <1>2, <2>2, <2>3 DEF WakeInv, RoomIsClaimed
<1>4. CASE PushWaits(p)
  <2>1. count = Capacity /\ ~ closed
    BY <1>4 DEF PushWaits, Full
  <2>2. Cardinality(Running') \in Nat
    BY RunningCounts DEF Running
  <2> QED
    BY <1>1, <1>2, <2>1, <2>2 DEF WakeInv, RoomIsClaimed
<1>5. CASE PushRefused(p)
  <2>1. closed \/ count = Capacity
    BY <1>5 DEF PushRefused, Full
  <2>2. Cardinality(Running') \in Nat
    BY RunningCounts DEF Running
  <2>3. /\ WaitingFor(Producers)' \subseteq WaitingFor(Threads)
        /\ WaitingFor(Threads)' \subseteq WaitingFor(Threads)
    BY <1>1, <1>5 DEF PushRefused, WaitingFor, Threads
  <2>4. RoomIsClaimed'
    BY <1>1, <2>1, <2>2, <2>3 DEF WakeInv, RoomIsClaimed
  <2> QED
    BY <1>1, <1>2, <2>3, <2>4 DEF WakeInv
<1> QED
  BY <1>3, <1>4, <1>5

(* Every other step of a consumer, the shutdown and spurious wakeups.       *)
LEMMA OthersWait ==
  ASSUME IInv, WakeInv,
         \/ \E c \in Consumers : CallPop(c) \/ PopWaits(c) \/ PopFails(c)
         \/ CloseQueue
         \/ \E t \in Threads : SpuriousWakeup(t)
         \/ UNCHANGED vars
  PROVE  WakeInv'
<1> USE QueueAssumption
<1>0. /\ count \in Nat /\ Capacity \in Nat
      /\ pc \in [Threads -> {"out", "in", "asleep", "quit"}]
  BY DEF IInv, TypeOK
<1>1. ASSUME NEW c \in Consumers, CallPop(c) \/ PopWaits(c) \/ PopFails(c)
      PROVE  WakeInv'
  <2>1. count' = count /\ closed' = closed /\ Running' = Running
    BY <1>0, <1>1 DEF CallPop, PopWaits, PopFails, queueVars, Running, Threads
  <2>2. WaitingFor(Producers)' = WaitingFor(Producers)
    BY <1>0, <1>1 DEF CallPop, PopWaits, PopFails, WaitingFor, Threads
  <2>3. count > 0 => WaitingFor(Consumers)' # Consumers
    BY <1>0, <1>1 DEF CallPop, PopWaits, PopFails, WaitingFor, Threads
  <2>4. closed => WaitingFor(Threads)' = {}
    BY <1>0, <1>1 DEF WakeInv, CallPop, PopWaits, PopFails, WaitingFor, Threads
  <2> QED
    BY <2>1, <2>2, <2>3, <2>4 DEF WakeInv, RoomIsClaimed
<1>2. CASE CloseQueue
  <2>1. \A t \in Threads : pc'[t] # "asleep"
    BY <1>0, <1>2 DEF CloseQueue
  <2>2. /\ WaitingFor(Threads)' = {} /\ WaitingFor(Producers)' = {}
        /\ WaitingFor(Consumers)' = {}
    BY <2>1 DEF WaitingFor, Threads
  <2> QED
    BY <2>2 DEF WakeInv, RoomIsClaimed
<1>3. ASSUME NEW t \in Threads, SpuriousWakeup(t)
      PROVE  WakeInv'
  <2>1. count' = count /\ closed' = closed
    BY <1>3 DEF SpuriousWakeup, queueVars
  <2>2. /\ WaitingFor(Threads)' \subseteq WaitingFor(Threads)
        /\ WaitingFor(Producers)' \subseteq WaitingFor(Producers)
        /\ WaitingFor(Consumers)' \subseteq WaitingFor(Consumers)
        /\ WaitingFor(Consumers) \subseteq Consumers
    BY <1>0, <1>3 DEF SpuriousWakeup, WaitingFor, Threads
  <2>3. Cardinality(Running') >= Cardinality(Running) /\ Cardinality(Running) \in Nat
           /\ Cardinality(Running') \in Nat
    <3>1. \/ Running' = Running
          \/ t \notin Running /\ Running' = Running \cup {t}
      BY <1>0, <1>3 DEF SpuriousWakeup, Running, Threads
    <3>2. Cardinality(Running) \in Nat
      BY RunningCounts DEF Running
    <3>3. CASE t \notin Running /\ Running' = Running \cup {t}
      <4>1. Cardinality(Running \cup {t}) = Cardinality(Running) + 1
        BY <3>3, RunningCounts DEF Running
      <4> QED
        BY <3>2, <3>3, <4>1
    <3> QED
      BY <3>1, <3>2, <3>3
  <2>4. RoomIsClaimed'
    BY <1>0, <2>1, <2>2, <2>3 DEF WakeInv, RoomIsClaimed
  <2> QED
    BY <2>1, <2>2, <2>4 DEF WakeInv
<1>4. CASE UNCHANGED vars
  BY <1>4 DEF vars, queueVars, WakeInv, RoomIsClaimed, WaitingFor, Running
<1> QED
  BY <1>1, <1>2, <1>3, <1>4

(* No wakeup is lost, whatever the number of producers and consumers: the   *)
(* signals of push and pop are enough, although each wakes one thread only. *)
THEOREM Wakeups == Spec => []NoLostWakeup
<1>1. Init => WakeInv
  BY QueueAssumption DEF Init, WakeInv, RoomIsClaimed, WaitingFor, Threads
<1>2. IInv /\ WakeInv /\ [Next]_vars => WakeInv'
  BY PushAcceptedWakes, PopReturnsWakes, ProducerWaits, OthersWait DEF Next, Push, Pop
<1>3. IInv /\ WakeInv => NoLostWakeup
  <2> SUFFICES ASSUME IInv, WakeInv, ~ Full, WaitingFor(Producers) # {}
               PROVE  \E p \in Producers : pc[p] = "in"
    BY DEF WakeInv, NoLostWakeup
  <2>1. count < Capacity /\ count \in Nat /\ Capacity \in Nat
    BY QueueAssumption DEF IInv, TypeOK, Full
  <2>2. Cardinality(Running) # 0
    BY <2>1 DEF WakeInv, RoomIsClaimed
  <2>3. Running # {}
    BY <2>2, FS_EmptySet
  <2> QED
    BY <2>3 DEF Running
<1> QED
  BY <1>1, <1>2, <1>3, Invariance, PTL DEF Spec

-----------------------------------------------------------------------------
(* The archive.                                                             *)

(* The directories of the card, and where the code may be.                 *)
Directory ==
  [made : BOOLEAN, file : [EventFiles -> {"none", "part", "whole"}],
   data : SUBSET EventFiles, entries : SUBSET EventFiles, rooted : BOOLEAN,
   from : SUBSET (1 .. MaxFailures)]

Places == {"idle", "root", "open", "video", "meta", "sync", "sync root", "done",
           "video gone", "meta gone"}

(* The types of the archive's variables.                                    *)
ArchiveTypes ==
  /\ failure \in 0 .. MaxFailures
  /\ hand \in [at : Places, dir : Names \cup {NoName}, created : BOOLEAN, saved_video : BOOLEAN]
  /\ local \in [1 .. MaxFailures -> SUBSET EventFiles]
  /\ card \in [Names -> Directory]

(* From the directory's making to the end of the archive step.              *)
InDirectory == hand.at \in {"open", "video", "meta", "sync", "sync root"}
Archiving == InDirectory \/ (hand.at = "done" /\ hand.created)

(* Whose the directories are: nobody's before they are made, one event's    *)
(* after that, and the event in hand has none but the one in hand.          *)
DirectoriesOwned ==
  \A n \in Names :
       /\ ~ card[n].made => card[n].from = {} /\ \A f \in EventFiles : card[n].file[f] = "none"
       /\ \A e, g \in card[n].from : e = g
       /\ \A e \in card[n].from : e <= failure
       /\ hand.at # "idle" /\ failure \in card[n].from => hand.created /\ n = hand.dir

(* What the code knows of the directory in hand.                            *)
HandHolds ==
  /\ hand.at # "idle" => failure >= 1
  /\ hand.at = "root" => ~ hand.created /\ ~ hand.saved_video
  /\ hand.at \in {"open", "video"} => ~ hand.saved_video
  /\ ~ hand.created => ~ hand.saved_video
  /\ InDirectory => hand.created
  /\ hand.at = "open" => \A f \in EventFiles : card[hand.dir].file[f] = "none"
  /\ Archiving =>
       /\ hand.dir \in Names /\ card[hand.dir].made
       /\ \A e \in card[hand.dir].from : e = failure

Owned == DirectoriesOwned /\ HandHolds

(* How far the copies of the event in hand are, unless a call has failed.   *)
Has(f) == card[hand.dir].file[f] = "whole" /\ f \in card[hand.dir].data
Mine == card[hand.dir].from = {failure}
Progress ==
  /\ \A e \in 1 .. MaxFailures : e > failure => local[e] = EventFiles
  /\ hand.at \in {"root", "open", "video", "meta", "sync", "sync root", "done"} =>
       local[failure] = EventFiles
  /\ failure \notin failing /\ hand.at # "idle" =>
       /\ hand.at \in EventFiles /\ card[hand.dir].file[hand.at] # "none" => Mine
       /\ hand.at = "meta" => Has("video") /\ Mine
       /\ hand.at \in {"sync", "sync root"} => Has("video") /\ Has("meta") /\ Mine
       /\ hand.at = "sync root" => card[hand.dir].entries = EventFiles
       /\ hand.at \in {"meta", "sync", "sync root", "done"} => hand.created /\ hand.saved_video
       /\ hand.at \in {"done", "video gone", "meta gone"} =>
            \A f \in EventFiles : OnCard(failure, f)

(* What a tidy archive keeps of the copies.                                 *)
Tidy ==
  failure \notin torn =>
    /\ hand.at \in {"meta", "sync", "sync root", "done"} /\ hand.saved_video =>
         card[hand.dir].file["video"] = "whole"
    /\ hand.at \in {"sync", "sync root", "done"} /\ hand.saved_video =>
         card[hand.dir].file["meta"] # "part"

ArchiveInv == ArchiveTypes /\ Owned /\ Progress /\ Tidy /\ NothingIsLost /\ ArchivedWhole

(* What the archive's calls do to the directory in hand.                    *)
(* All but the file the code is copying, and what that stands for.          *)
CopiesOnly ==
  /\ card' \in [Names -> Directory]
  /\ \A n \in Names \ {hand.dir} : card'[n] = card[n]
  /\ card'[hand.dir].made = card[hand.dir].made
  /\ \A f \in EventFiles \ {hand.at} :
       /\ card'[hand.dir].file[f] = card[hand.dir].file[f]
       /\ f \in card'[hand.dir].data <=> f \in card[hand.dir].data

LEMMA CopyCalls ==
  ASSUME ArchiveTypes, hand.dir \in Names, failure \in 1 .. MaxFailures, hand.at \in EventFiles
  PROVE  /\ CreateCopy => /\ CopiesOnly
                          /\ card'[hand.dir].from = card[hand.dir].from \cup {failure}
         /\ FinishCopy => /\ CopiesOnly
                          /\ card'[hand.dir].from = card[hand.dir].from
                          /\ card'[hand.dir].file[hand.at] = "whole"
                          /\ hand.at \in card'[hand.dir].data
         /\ CopyFails => /\ CopiesOnly
                         /\ card'[hand.dir].from = card[hand.dir].from
                         /\ card'[hand.dir].file[hand.at] = "none" \/ failure \in torn'
<1> DEFINE d == card[hand.dir]
<1>1. card \in [Names -> Directory] /\ d \in Directory
  BY DEF ArchiveTypes
<1>0. ASSUME NEW c \in Directory, card' = [card EXCEPT ![hand.dir] = c], c.made = d.made,
             \A f \in EventFiles \ {hand.at} : c.file[f] = d.file[f] /\ (f \in c.data <=> f \in d.data)
      PROVE  CopiesOnly /\ card'[hand.dir] = c
  BY <1>0, <1>1 DEF CopiesOnly
<1>2. ASSUME CreateCopy
      PROVE  CopiesOnly /\ card'[hand.dir].from = card[hand.dir].from \cup {failure}
  <2> DEFINE c == [d EXCEPT !.file[hand.at] = "part", !.from = @ \cup {failure}]
  <2>1. card' = [card EXCEPT ![hand.dir] = c]
    BY <1>2 DEF CreateCopy
  <2>2. /\ c \in Directory /\ c.made = d.made /\ c.data = d.data
        /\ c.from = d.from \cup {failure}
        /\ \A f \in EventFiles \ {hand.at} : c.file[f] = d.file[f]
    BY <1>1 DEF Directory
  <2>. HIDE DEF c
  <2>. QED  BY <1>0, <2>1, <2>2
<1>3. ASSUME FinishCopy
      PROVE  /\ CopiesOnly /\ card'[hand.dir].from = card[hand.dir].from
             /\ card'[hand.dir].file[hand.at] = "whole" /\ hand.at \in card'[hand.dir].data
  <2> DEFINE c == [d EXCEPT !.file[hand.at] = "whole", !.data = @ \cup {hand.at}]
  <2>1. card' = [card EXCEPT ![hand.dir] = c]
    BY <1>3 DEF FinishCopy
  <2>2. /\ c \in Directory /\ c.made = d.made /\ c.from = d.from
        /\ c.data = d.data \cup {hand.at} /\ c.file[hand.at] = "whole"
        /\ \A f \in EventFiles \ {hand.at} : c.file[f] = d.file[f]
    BY <1>1 DEF Directory
  <2>. HIDE DEF c
  <2>. QED  BY <1>0, <2>1, <2>2
<1>4. ASSUME CopyFails
      PROVE  /\ CopiesOnly /\ card'[hand.dir].from = card[hand.dir].from
             /\ card'[hand.dir].file[hand.at] = "none" \/ failure \in torn'
  <2>1. CASE UNCHANGED card /\ torn' = torn \cup {failure}
    BY <1>1, <2>1 DEF CopiesOnly
  <2>2. CASE card' = [card EXCEPT ![hand.dir].file[hand.at] = "none"]
    <3> DEFINE c == [d EXCEPT !.file[hand.at] = "none"]
    <3>1. card' = [card EXCEPT ![hand.dir] = c]
      BY <2>2
    <3>2. /\ c \in Directory /\ c.made = d.made /\ c.from = d.from
          /\ c.data = d.data /\ c.file[hand.at] = "none"
          /\ \A f \in EventFiles \ {hand.at} : c.file[f] = d.file[f]
      BY <1>1 DEF Directory
    <3>. HIDE DEF c
    <3>. QED  BY <1>0, <3>1, <3>2
  <2>. QED  BY <1>4, <2>1, <2>2 DEF CopyFails
<1>. QED  BY <1>2, <1>3, <1>4

LEMMA SyncCalls ==
  ASSUME ArchiveTypes, hand.dir \in Names
  PROVE  /\ SyncDirectory \/ SyncRoot =>
              /\ card' \in [Names -> Directory]
              /\ \A n \in Names \ {hand.dir} : card'[n] = card[n]
              /\ card'[hand.dir].made = card[hand.dir].made
              /\ card'[hand.dir].from = card[hand.dir].from
              /\ card'[hand.dir].file = card[hand.dir].file
              /\ card'[hand.dir].data = card[hand.dir].data
         /\ SyncDirectory =>
              card'[hand.dir].entries = {f \in EventFiles : card[hand.dir].file[f] # "none"}
         /\ SyncRoot => /\ card'[hand.dir].rooted
                        /\ card'[hand.dir].entries = card[hand.dir].entries
<1> DEFINE d == card[hand.dir]
<1>1. card \in [Names -> Directory] /\ d \in Directory
  BY DEF ArchiveTypes
<1>2. CASE SyncDirectory
  <2> DEFINE c == [d EXCEPT !.entries = {f \in EventFiles : card[hand.dir].file[f] # "none"}]
  <2>1. card' = [card EXCEPT ![hand.dir] = c]
    BY <1>2 DEF SyncDirectory
  <2>2. /\ c \in Directory /\ c.made = d.made /\ c.from = d.from /\ c.file = d.file
        /\ c.data = d.data /\ c.entries = {f \in EventFiles : card[hand.dir].file[f] # "none"}
    BY <1>1 DEF Directory
  <2>. HIDE DEF c
  <2>3. card'[hand.dir] = c /\ card' \in [Names -> Directory]
        /\ \A n \in Names \ {hand.dir} : card'[n] = card[n]
    BY <1>1, <2>1, <2>2
  <2>. QED  BY <1>2, <2>2, <2>3 DEF SyncDirectory, SyncRoot
<1>3. CASE SyncRoot
  <2> DEFINE c == [d EXCEPT !.rooted = TRUE]
  <2>1. card' = [card EXCEPT ![hand.dir] = c]
    BY <1>3 DEF SyncRoot
  <2>2. /\ c \in Directory /\ c.made = d.made /\ c.from = d.from /\ c.file = d.file
        /\ c.data = d.data /\ c.entries = d.entries /\ c.rooted
    BY <1>1 DEF Directory
  <2>. HIDE DEF c
  <2>3. card'[hand.dir] = c /\ card' \in [Names -> Directory]
        /\ \A n \in Names \ {hand.dir} : card'[n] = card[n]
    BY <1>1, <2>1, <2>2
  <2>. QED  BY <1>3, <2>2, <2>3 DEF SyncDirectory, SyncRoot
<1>. QED  BY <1>2, <1>3

LEMMA NoDirectoryIs ==
  /\ NoDirectory \in Directory /\ NoDirectory.made = FALSE /\ NoDirectory.from = {}
  /\ NoDirectory.rooted = FALSE /\ \A f \in EventFiles : NoDirectory.file[f] = "none"
BY DEF NoDirectory, Directory, EventFiles

(* A power loss leaves alone what has been synced all the way.              *)
LEMMA AfterLossIs ==
  ASSUME NEW d \in Directory, NEW c \in AfterLoss(d)
  PROVE  /\ c \in Directory
         /\ c.made => d.made
         /\ c = NoDirectory \/ (c.made = d.made /\ c.from = d.from)
         /\ \A f \in EventFiles : d.file[f] = "none" => c.file[f] = "none"
         /\ \A f \in EventFiles :
              d.rooted /\ d.file[f] = "whole" /\ f \in d.data \cap d.entries =>
                /\ c.rooted /\ c.from = d.from
                /\ c.file[f] = "whole" /\ f \in c.data \cap c.entries
<1>1. CASE ~ d.rooted /\ c = NoDirectory
  BY <1>1, NoDirectoryIs
<1>2. ASSUME NEW v \in FileAfterLoss(d, "video"), NEW m \in FileAfterLoss(d, "meta"),
             c = [d EXCEPT !.file = [f \in EventFiles |-> IF f = "video" THEN v ELSE m]]
      PROVE  /\ c \in Directory /\ c.made = d.made /\ c.from = d.from /\ c.rooted = d.rooted
             /\ c.data = d.data /\ c.entries = d.entries
             /\ c.file["video"] = v /\ c.file["meta"] = m
  <2>1. /\ v \in {"none", "part", "whole"} /\ m \in {"none", "part", "whole"}
    BY DEF FileAfterLoss, Directory, EventFiles
  <2>2. PICK g : g = [f \in EventFiles |-> IF f = "video" THEN v ELSE m]
    OBVIOUS
  <2>3. g \in [EventFiles -> {"none", "part", "whole"}] /\ g["video"] = v /\ g["meta"] = m
    BY <2>1, <2>2 DEF EventFiles
  <2>4. c = [d EXCEPT !.file = g]
    BY <1>2, <2>2
  <2>. QED  BY <2>3, <2>4 DEF Directory
<1>3. ASSUME NEW f \in EventFiles, d.file[f] = "whole", f \in d.data \cap d.entries
      PROVE  FileAfterLoss(d, f) = {"whole"}
  BY <1>3 DEF FileAfterLoss
<1>4. CASE \E v \in FileAfterLoss(d, "video"), m \in FileAfterLoss(d, "meta") :
             c = [d EXCEPT !.file = [f \in EventFiles |-> IF f = "video" THEN v ELSE m]]
  <2>1. PICK v \in FileAfterLoss(d, "video"), m \in FileAfterLoss(d, "meta") :
             c = [d EXCEPT !.file = [f \in EventFiles |-> IF f = "video" THEN v ELSE m]]
    BY <1>4
  <2>2. /\ c \in Directory /\ c.made = d.made /\ c.from = d.from /\ c.rooted = d.rooted
        /\ c.data = d.data /\ c.entries = d.entries
        /\ c.file["video"] = v /\ c.file["meta"] = m
    BY <1>2, <2>1
  <2>3. ASSUME NEW f \in EventFiles, d.file[f] = "whole", f \in d.data \cap d.entries
        PROVE  c.file[f] = "whole"
    BY <1>3, <2>2, <2>3 DEF EventFiles
  <2>4. ASSUME NEW f \in EventFiles, d.file[f] = "none" PROVE c.file[f] = "none"
    <3>1. FileAfterLoss(d, f) = {"none"}
      BY <2>4 DEF FileAfterLoss
    <3>. QED  BY <2>2, <3>1 DEF EventFiles
  <2>. QED  BY <2>2, <2>3, <2>4
<1>. QED  BY <1>1, <1>4 DEF AfterLoss

LEMMA LosePowerIs ==
  ASSUME ArchiveTypes, LosePower
  PROVE  card' \in [Names -> Directory] /\ \A n \in Names : card'[n] \in AfterLoss(card[n])
<1>1. /\ card' \in [Names -> UNION {AfterLoss(card[n]) : n \in Names}]
      /\ \A n \in Names : card'[n] \in AfterLoss(card[n])
  BY DEF LosePower
<1>2. \A n \in Names : card'[n] \in Directory
  BY <1>1, AfterLossIs DEF ArchiveTypes
<1>. QED  BY <1>1, <1>2

LEMMA HandGoes ==
  ASSUME ArchiveTypes, NEW p \in Places, HandTo(p)
  PROVE  /\ hand' \in [at : Places, dir : Names \cup {NoName}, created : BOOLEAN, saved_video : BOOLEAN]
         /\ hand'.at = p /\ hand'.dir = hand.dir /\ hand'.created = hand.created
         /\ hand'.saved_video = hand.saved_video
BY DEF ArchiveTypes, HandTo

(* What is on the card stays there while only the directory of the event in *)
(* hand changes.                                                            *)
LEMMA OthersStayOnCard ==
  ASSUME ArchiveTypes, Owned, Archiving,
         \A n \in Names \ {hand.dir} : card'[n] = card[n],
         NEW e, e # failure, NEW f, OnCard(e, f)
  PROVE  OnCard(e, f)'
<1>1. PICK n \in Names : /\ card[n].from = {e} /\ card[n].rooted /\ card[n].file[f] = "whole"
                         /\ f \in card[n].data \cap card[n].entries
  BY DEF OnCard
<1>2. n # hand.dir
  BY <1>1 DEF Owned, DirectoriesOwned, HandHolds
<1>. QED  BY <1>1, <1>2 DEF OnCard

LEMMA HandIs ==
  ASSUME ArchiveTypes, Owned
  PROVE  /\ hand.at # "idle" => failure \in 1 .. MaxFailures
         /\ InDirectory => hand.dir \in Names /\ Archiving /\ hand.created
<1>1. HandHolds /\ failure \in 0 .. MaxFailures
  BY DEF Owned, DirectoriesOwned, HandHolds, ArchiveTypes
<1>2. hand.at # "idle" => failure \in 1 .. MaxFailures
  <2>1. hand.at # "idle" => failure >= 1
    BY <1>1 DEF HandHolds
  <2>. QED  BY <1>1, <2>1, ArchiveAssumption
<1>3. InDirectory => hand.dir \in Names /\ Archiving /\ hand.created
  BY <1>1 DEF HandHolds, Archiving
<1>. QED  BY <1>2, <1>3

(* The directories stay who they belong to while none changes hands.        *)
LEMMA OwnedStays ==
  ASSUME DirectoriesOwned, UNCHANGED failure, hand.at # "idle",
         hand'.dir = hand.dir, hand'.created = hand.created,
         \A n \in Names : /\ card'[n].made = card[n].made /\ card'[n].from = card[n].from
                         /\ card'[n].file = card[n].file
  PROVE  DirectoriesOwned'
BY DEF DirectoriesOwned

(* Steps that only move the hand on.                                        *)
LEMMA HandOnly ==
  ASSUME ArchiveInv, GotoError \/ OpenDirectory PROVE ArchiveInv'
<1>1. ArchiveTypes /\ Owned /\ Progress /\ Tidy /\ NothingIsLost /\ ArchivedWhole
  BY DEF ArchiveInv
<1>2. PICK p \in {"done", "video"} : HandTo(p) /\ (p = "done" <=> GotoError) /\ (p = "video" <=> OpenDirectory)
  <2>1. GotoError => ~ OpenDirectory
    BY <1>1, HandGoes DEF GotoError, OpenDirectory, Places
  <2>. QED  BY <2>1 DEF GotoError, OpenDirectory
<1>3. /\ hand' \in [at : Places, dir : Names \cup {NoName}, created : BOOLEAN, saved_video : BOOLEAN]
      /\ hand'.at = p /\ hand'.dir = hand.dir /\ hand'.created = hand.created
      /\ hand'.saved_video = hand.saved_video
  BY <1>1, <1>2, HandGoes DEF Places
<1>4. /\ UNCHANGED <<failure, usedNames, local, card, torn>>
      /\ p = "done" => hand.at \in {"root", "open", "sync", "sync root"} /\ failing' = failing \cup {failure}
      /\ p = "video" => hand.at = "open" /\ failing' = failing
  BY <1>2 DEF GotoError, OpenDirectory, CallFails
<1>5. ArchiveTypes'
  BY <1>1, <1>3, <1>4 DEF ArchiveTypes
<1>6. Owned'
  <2>1. hand.at # "idle"
    BY <1>2, <1>4
  <2>2. DirectoriesOwned'
    BY <1>1, <1>3, <1>4, <2>1, OwnedStays DEF Owned
  <2>3. HandHolds'
    BY <1>1, <1>2, <1>3, <1>4 DEF Owned, HandHolds, InDirectory, Archiving
  <2>. QED  BY <2>2, <2>3 DEF Owned
<1>7. Progress'
  <2>1. CASE p = "done"
    BY <1>1, <1>3, <1>4, <2>1 DEF Progress
  <2>2. CASE p = "video"
    <3>1. card[hand.dir].file["video"] = "none"
      BY <1>1, <1>4, <2>2 DEF Owned, DirectoriesOwned, HandHolds, EventFiles
    <3>2. local[failure] = EventFiles /\ \A e \in 1 .. MaxFailures : e > failure => local[e] = EventFiles
      BY <1>1, <1>4, <2>2 DEF Progress
    <3>. QED  BY <1>3, <1>4, <2>2, <3>1, <3>2 DEF Progress
  <2>. QED  BY <1>2, <2>1, <2>2
<1>8. Tidy'
  BY <1>1, <1>2, <1>3, <1>4 DEF Tidy, Owned, HandHolds
<1>9. NothingIsLost' /\ ArchivedWhole'
  BY <1>1, <1>2, <1>3, <1>4 DEF NothingIsLost, OnCard, ArchivedWhole
<1>. QED  BY <1>5, <1>6, <1>7, <1>8, <1>9 DEF ArchiveInv

LEMMA GiveUpKeeps == ASSUME ArchiveInv, GiveUp PROVE ArchiveInv'
<1>1. ArchiveTypes /\ Owned /\ Progress /\ Tidy /\ NothingIsLost /\ ArchivedWhole
  BY DEF ArchiveInv
<1>2. /\ hand.at = "idle" /\ failure < MaxFailures /\ failure' = failure + 1
      /\ hand' = [at |-> "root", dir |-> NoName, created |-> FALSE, saved_video |-> FALSE]
      /\ UNCHANGED <<usedNames, local, card, failing, torn>>
  BY DEF GiveUp
<1>3. /\ hand' \in [at : Places, dir : Names \cup {NoName}, created : BOOLEAN, saved_video : BOOLEAN]
      /\ hand'.at = "root" /\ hand'.created = FALSE /\ hand'.saved_video = FALSE
  BY <1>2 DEF Places
<1>4. failure' \in 1 .. MaxFailures /\ failure \in 0 .. MaxFailures /\ failure' = failure + 1
  BY <1>1, <1>2, ArchiveAssumption DEF ArchiveTypes
<1>5. ArchiveTypes'
  BY <1>1, <1>2, <1>3, <1>4 DEF ArchiveTypes
<1>6. Owned'
  <2>1. ASSUME NEW n \in Names
        PROVE  /\ \A e \in card[n].from : e <= failure' /\ e # failure'
    BY <1>1, <1>4 DEF Owned, DirectoriesOwned, HandHolds, ArchiveTypes, Directory
  <2>. QED  BY <1>1, <1>2, <1>3, <1>4, <2>1 DEF Owned, DirectoriesOwned, HandHolds, InDirectory, Archiving
<1>7. Progress'
  BY <1>1, <1>2, <1>3, <1>4 DEF Progress, EventFiles
<1>8. Tidy' /\ ArchivedWhole'
  BY <1>3 DEF Tidy, ArchivedWhole
<1>9. NothingIsLost'
  <2>1. ASSUME NEW e \in 1 .. failure', NEW f \in EventFiles
        PROVE  e \in failing \/ f \in local[e] \/ OnCard(e, f)
    <3>1. CASE e \in 1 .. failure
      BY <1>1, <3>1 DEF NothingIsLost
    <3>2. CASE e = failure'
      <4>1. e > failure /\ e \in 1 .. MaxFailures
        BY <1>4, <3>2
      <4>. QED  BY <1>1, <4>1 DEF Progress
    <3>. QED  BY <1>4, <3>1, <3>2
  <2>. QED  BY <1>2, <2>1 DEF NothingIsLost, OnCard
<1>. QED  BY <1>5, <1>6, <1>7, <1>8, <1>9 DEF ArchiveInv

LEMMA MakeDirectoryKeeps ==
  ASSUME ArchiveInv, NEW n \in Names, MakeDirectory(n) PROVE ArchiveInv'
<1>1. ArchiveTypes /\ Owned /\ Progress /\ Tidy /\ NothingIsLost /\ ArchivedWhole
  BY DEF ArchiveInv
<1>2. /\ hand.at = "root" /\ ~ card[n].made /\ card' = [card EXCEPT ![n].made = TRUE]
      /\ hand' = [hand EXCEPT !.at = "open", !.dir = n, !.created = TRUE]
      /\ UNCHANGED <<failure, local, failing, torn>>
  BY DEF MakeDirectory
<1>3. /\ hand' \in [at : Places, dir : Names \cup {NoName}, created : BOOLEAN, saved_video : BOOLEAN]
      /\ hand'.at = "open" /\ hand'.dir = n /\ hand'.created = TRUE
      /\ hand'.saved_video = hand.saved_video
  BY <1>1, <1>2 DEF ArchiveTypes, Places
<1>4. /\ card' \in [Names -> Directory]
      /\ \A k \in Names \ {n} : card'[k] = card[k]
      /\ card'[n].made /\ card'[n].from = {} /\ card[n].from = {}
      /\ \A f \in EventFiles : card'[n].file[f] = "none"
  <2>1. /\ card[n] \in Directory /\ card[n].from = {} /\ card \in [Names -> Directory]
        /\ \A f \in EventFiles : card[n].file[f] = "none"
    BY <1>1, <1>2 DEF ArchiveTypes, Owned, DirectoriesOwned
  <2>2. PICK c : c = [card[n] EXCEPT !.made = TRUE]
    OBVIOUS
  <2>3. c \in Directory /\ c.made /\ c.from = {} /\ \A f \in EventFiles : c.file[f] = "none"
    BY <2>1, <2>2 DEF Directory
  <2>4. card' = [card EXCEPT ![n] = c]
    BY <1>2, <2>2
  <2>. QED  BY <2>1, <2>3, <2>4
<1>5. ArchiveTypes'
  BY <1>1, <1>2, <1>3, <1>4 DEF ArchiveTypes
<1>6. Owned'
  BY <1>1, <1>2, <1>3, <1>4 DEF Owned, DirectoriesOwned, HandHolds, InDirectory, Archiving
<1>7. Progress'
  BY <1>1, <1>2, <1>3 DEF Progress, EventFiles
<1>8. Tidy' /\ ArchivedWhole'
  BY <1>3 DEF Tidy, ArchivedWhole
<1>9. NothingIsLost'
  <2>1. ASSUME NEW e, NEW f, OnCard(e, f) PROVE OnCard(e, f)'
    BY <1>4, <2>1 DEF OnCard
  <2>. QED  BY <1>1, <1>2, <2>1 DEF NothingIsLost
<1>. QED  BY <1>5, <1>6, <1>7, <1>8, <1>9 DEF ArchiveInv

LEMMA CopyKeeps ==
  ASSUME ArchiveInv, CreateCopy \/ FinishCopy \/ CopyFails PROVE ArchiveInv'
<1>1. ArchiveTypes /\ Owned /\ Progress /\ Tidy /\ NothingIsLost /\ ArchivedWhole
  BY DEF ArchiveInv
<1>2. /\ hand.at \in EventFiles /\ hand.at \in {"video", "meta"} /\ failure \in 1 .. MaxFailures
      /\ UNCHANGED <<failure, usedNames, local>>
  <2>1. hand.at \in EventFiles /\ UNCHANGED <<failure, usedNames, local>>
    BY DEF CreateCopy, FinishCopy, CopyFails
  <2>. QED  BY <1>1, <2>1, HandIs DEF EventFiles
<1>3. hand.dir \in Names /\ Archiving /\ hand.created
  BY <1>1, <1>2 DEF Owned, DirectoriesOwned, HandHolds, Archiving, InDirectory
<1>4. CopiesOnly
  BY <1>1, <1>2, <1>3, CopyCalls
<1>5. \/ UNCHANGED hand /\ CreateCopy
      \/ /\ hand' \in [at : Places, dir : Names \cup {NoName}, created : BOOLEAN, saved_video : BOOLEAN]
         /\ hand'.dir = hand.dir /\ hand'.created = hand.created
         /\ \/ /\ FinishCopy /\ hand'.at = IF hand.at = "video" THEN "meta" ELSE "sync"
               /\ hand'.saved_video = IF hand.at = "video" THEN TRUE ELSE hand.saved_video
            \/ /\ CopyFails /\ hand'.at = "sync"
               /\ hand'.saved_video = IF hand.at = "video" THEN FALSE ELSE hand.saved_video
  <2>1. CASE CreateCopy
    BY <2>1 DEF CreateCopy
  <2>2. CASE FinishCopy
    <3>1. hand' = [hand EXCEPT !.at = IF hand.at = "video" THEN "meta" ELSE "sync",
                               !.saved_video = IF hand.at = "video" THEN TRUE ELSE @]
      BY <2>2 DEF FinishCopy, AfterCopy
    <3>. QED  BY <1>1, <2>2, <3>1 DEF ArchiveTypes, Places
  <2>3. CASE CopyFails
    <3>1. hand' = [hand EXCEPT !.at = "sync",
                               !.saved_video = IF hand.at = "video" THEN FALSE ELSE @]
      BY <2>3 DEF CopyFails, AfterCopy
    <3>. QED  BY <1>1, <2>3, <3>1 DEF ArchiveTypes, Places
  <2>. QED  BY <2>1, <2>2, <2>3
<1>6. ArchiveTypes'
  BY <1>1, <1>2, <1>4, <1>5 DEF ArchiveTypes, CopiesOnly
<1>7. Owned'
  <2>1. card'[hand.dir].from \in {card[hand.dir].from, card[hand.dir].from \cup {failure}}
    BY <1>1, <1>2, <1>3, CopyCalls
  <2>2. hand'.at \in {"video", "meta", "sync"} /\ hand'.dir = hand.dir /\ hand'.created
    BY <1>2, <1>3, <1>5
  <2>3. hand'.at \in {"open", "video"} => ~ hand'.saved_video
    BY <1>1, <1>2, <1>5 DEF Owned, DirectoriesOwned, HandHolds
  <2>4. ASSUME NEW n \in Names
        PROVE  /\ ~ card'[n].made =>
                    card'[n].from = {} /\ \A f \in EventFiles : card'[n].file[f] = "none"
               /\ \A e, g \in card'[n].from : e = g
               /\ \A e \in card'[n].from : e <= failure
               /\ failure \in card'[n].from => n = hand.dir
    <3>1. CASE n = hand.dir
      <4>1. card[n].made /\ \A e \in card'[n].from : e = failure
        BY <1>1, <1>3, <2>1, <3>1 DEF Owned, DirectoriesOwned, HandHolds
      <4>2. card'[n].made
        BY <1>4, <3>1, <4>1 DEF CopiesOnly
      <4>3. failure \in Nat
        BY <1>2
      <4>. QED  BY <3>1, <4>1, <4>2, <4>3
    <3>2. CASE n # hand.dir
      <4>1. card'[n] = card[n]
        BY <1>4, <3>2 DEF CopiesOnly
      <4>. QED  BY <1>1, <1>2, <3>2, <4>1 DEF Owned, DirectoriesOwned, HandHolds
    <3>. QED  BY <3>1, <3>2
  <2>5. \A e \in card'[hand.dir].from : e = failure
    BY <1>1, <1>3, <2>1 DEF Owned, DirectoriesOwned, HandHolds
  <2>6. card'[hand.dir].made
    BY <1>1, <1>3, <1>4 DEF Owned, DirectoriesOwned, HandHolds, CopiesOnly
  <2>. QED  BY <1>1, <1>2, <1>3, <2>2, <2>3, <2>4, <2>5, <2>6 DEF Owned, DirectoriesOwned, HandHolds, InDirectory, Archiving
<1>8. Progress'
  <2>1. /\ local[failure] = EventFiles /\ \A e \in 1 .. MaxFailures : e > failure => local[e] = EventFiles
    BY <1>1, <1>2 DEF Progress
  <2>2. CASE CopyFails
    <3>1. failure' \in failing' /\ hand'.at = "sync"
      BY <1>5, <2>2, <1>2 DEF CopyFails, CallFails, CreateCopy, AfterCopy
    <3>. QED  BY <1>2, <2>1, <3>1 DEF Progress
  <2>3. CASE CreateCopy
    <3>1. UNCHANGED <<hand, failing>>
      BY <2>3 DEF CreateCopy
    <3>2. card'[hand.dir].from = {failure}
      <4>1. card'[hand.dir].from = card[hand.dir].from \cup {failure}
        BY <1>1, <1>2, <1>3, <2>3, CopyCalls
      <4>. QED  BY <1>1, <1>3, <4>1 DEF Owned, DirectoriesOwned, HandHolds
    <3>3. hand.at = "meta" /\ failure \notin failing =>
            card'[hand.dir].file["video"] = "whole" /\ "video" \in card'[hand.dir].data
      BY <1>1, <1>2, <1>4 DEF Progress, Has, CopiesOnly, EventFiles
    <3>4. hand.at = "meta" /\ failure \notin failing => hand.created /\ hand.saved_video
      BY <1>1 DEF Progress
    <3>. QED  BY <1>2, <2>1, <3>1, <3>2, <3>3, <3>4 DEF Progress, Mine, Has
  <2>4. CASE FinishCopy
    <3>1. UNCHANGED failing /\ card[hand.dir].file[hand.at] # "none"
      BY <2>4 DEF FinishCopy, Copy
    <3>2. /\ card'[hand.dir].from = card[hand.dir].from
          /\ card'[hand.dir].file[hand.at] = "whole" /\ hand.at \in card'[hand.dir].data
      BY <1>1, <1>2, <1>3, <2>4, CopyCalls
    <3>3. failure \notin failing => Mine
      BY <1>1, <1>2, <3>1 DEF Progress
    <3>4. hand.at = "meta" /\ failure \notin failing =>
            card'[hand.dir].file["video"] = "whole" /\ "video" \in card'[hand.dir].data
      BY <1>1, <1>2, <1>4 DEF Progress, Has, CopiesOnly, EventFiles
    <3>5. hand'.dir = hand.dir /\ (\/ hand.at = "video" /\ hand'.at = "meta"
                                   \/ hand.at = "meta" /\ hand'.at = "sync")
      BY <1>2, <2>4 DEF FinishCopy, AfterCopy, ArchiveInv, ArchiveTypes
    <3>6. hand.at = "meta" /\ failure \notin failing => hand.saved_video
      BY <1>1 DEF Progress
    <3>7. failure \notin failing => hand'.created /\ hand'.saved_video
      <4>1. /\ hand'.created = hand.created
            /\ hand'.saved_video = IF hand.at = "video" THEN TRUE ELSE hand.saved_video
        BY <1>1, <1>2, <2>4 DEF FinishCopy, AfterCopy, ArchiveTypes
      <4>. QED  BY <1>2, <1>3, <3>6, <4>1
    <3>. QED
      BY <1>2, <2>1, <3>1, <3>2, <3>3, <3>4, <3>5, <3>7 DEF Progress, Mine, Has, EventFiles
  <2>. QED  BY <2>2, <2>3, <2>4
<1>9. Tidy'
  <2>1. failure \in torn => failure \in torn'
    BY DEF CreateCopy, FinishCopy, CopyFails
  <2>2. hand.at = "meta" => card'[hand.dir].file["video"] = card[hand.dir].file["video"]
    BY <1>2, <1>4 DEF CopiesOnly, EventFiles
  <2>3. FinishCopy => card'[hand.dir].file[hand.at] = "whole"
    BY <1>1, <1>2, <1>3, CopyCalls
  <2>4. CopyFails => card'[hand.dir].file[hand.at] = "none" \/ failure \in torn'
    BY <1>1, <1>2, <1>3, CopyCalls
  <2>. QED  BY <1>1, <1>2, <1>5, <2>1, <2>2, <2>3, <2>4 DEF Tidy
<1>10. NothingIsLost'
  <2>1. ASSUME NEW e \in 1 .. failure, NEW f \in EventFiles
        PROVE  e \in failing' \/ f \in local[e] \/ OnCard(e, f)'
    <3>1. CASE e = failure
      BY <1>1, <1>2, <3>1 DEF Progress
    <3>2. CASE e # failure
      <4>1. e \in failing => e \in failing'
        BY DEF CreateCopy, FinishCopy, CopyFails, CallFails
      <4>2. OnCard(e, f) => OnCard(e, f)'
        BY <1>1, <1>3, <1>4, <3>2, OthersStayOnCard DEF CopiesOnly
      <4>. QED  BY <1>1, <4>1, <4>2 DEF NothingIsLost
    <3>. QED  BY <3>1, <3>2
  <2>. QED  BY <1>2, <2>1 DEF NothingIsLost
<1>11. ArchivedWhole'
  BY <1>2, <1>5 DEF ArchivedWhole
<1>. QED  BY <1>6, <1>7, <1>8, <1>9, <1>10, <1>11 DEF ArchiveInv

LEMMA SyncDirectoryKeeps == ASSUME ArchiveInv, SyncDirectory PROVE ArchiveInv'
<1>1. ArchiveTypes /\ Owned /\ Progress /\ Tidy /\ NothingIsLost /\ ArchivedWhole
  BY DEF ArchiveInv
<1>2. /\ hand.at = "sync" /\ HandTo("sync root")
      /\ UNCHANGED <<failure, usedNames, local, failing, torn>>
  BY DEF SyncDirectory
<1>3. hand.dir \in Names /\ Archiving /\ failure \in 1 .. MaxFailures /\ hand.created
  BY <1>1, <1>2, HandIs DEF InDirectory
<1>4. /\ hand' \in [at : Places, dir : Names \cup {NoName}, created : BOOLEAN, saved_video : BOOLEAN]
      /\ hand'.at = "sync root" /\ hand'.dir = hand.dir /\ hand'.created = hand.created
      /\ hand'.saved_video = hand.saved_video
  BY <1>1, <1>2, HandGoes DEF Places
<1>5. /\ card' \in [Names -> Directory]
      /\ \A n \in Names \ {hand.dir} : card'[n] = card[n]
      /\ card'[hand.dir].made = card[hand.dir].made
      /\ card'[hand.dir].from = card[hand.dir].from
      /\ card'[hand.dir].file = card[hand.dir].file
      /\ card'[hand.dir].data = card[hand.dir].data
      /\ card'[hand.dir].entries = {f \in EventFiles : card[hand.dir].file[f] # "none"}
  BY <1>1, <1>3, SyncCalls
<1>6. ArchiveTypes'
  BY <1>1, <1>2, <1>4, <1>5 DEF ArchiveTypes
<1>7. Owned'
  <2>1. \A n \in Names : /\ card'[n].made = card[n].made /\ card'[n].from = card[n].from
                         /\ card'[n].file = card[n].file
    BY <1>5
  <2>2. DirectoriesOwned'
    BY <1>1, <1>2, <1>4, <2>1, OwnedStays DEF Owned
  <2>3. HandHolds'
    BY <1>1, <1>2, <1>3, <1>4, <2>1 DEF Owned, HandHolds, InDirectory, Archiving
  <2>. QED  BY <2>2, <2>3 DEF Owned
<1>8. Progress'
  <2>1. failure \notin failing =>
          /\ Has("video") /\ Has("meta") /\ Mine
          /\ card'[hand.dir].entries = EventFiles
    BY <1>1, <1>2, <1>5 DEF Progress, Has, EventFiles
  <2>2. /\ local[failure] = EventFiles
        /\ \A e \in 1 .. MaxFailures : e > failure => local[e] = EventFiles
    BY <1>1, <1>2 DEF Progress
  <2>3. failure \notin failing => hand.created /\ hand.saved_video
    <3>1. Progress /\ hand.at = "sync"
      BY <1>1, <1>2
    <3>. QED  BY <3>1 DEF Progress
  <2>4. failure \notin failing => Has("video")' /\ Has("meta")' /\ Mine'
    BY <1>2, <1>4, <1>5, <2>1 DEF Has, Mine
  <2>5. failure \notin failing => card'[hand.dir].entries = EventFiles
    BY <1>5, <2>1
  <2>. QED  BY <1>2, <1>4, <2>2, <2>3, <2>4, <2>5 DEF Progress, EventFiles
<1>9. Tidy'
  BY <1>1, <1>2, <1>4, <1>5 DEF Tidy
<1>10. NothingIsLost'
  <2>1. ASSUME NEW e \in 1 .. failure, NEW f \in EventFiles
        PROVE  e \in failing \/ f \in local[e] \/ OnCard(e, f)'
    <3>1. CASE e = failure
      BY <1>1, <1>2, <3>1 DEF Progress
    <3>2. CASE e # failure
      BY <1>1, <1>3, <1>5, <3>2, OthersStayOnCard DEF NothingIsLost
    <3>. QED  BY <3>1, <3>2
  <2>. QED  BY <1>2, <2>1 DEF NothingIsLost
<1>11. ArchivedWhole'
  BY <1>4 DEF ArchivedWhole
<1>. QED  BY <1>6, <1>7, <1>8, <1>9, <1>10, <1>11 DEF ArchiveInv

LEMMA SyncRootKeeps == ASSUME ArchiveInv, SyncRoot PROVE ArchiveInv'
<1>1. ArchiveTypes /\ Owned /\ Progress /\ Tidy /\ NothingIsLost /\ ArchivedWhole
  BY DEF ArchiveInv
<1>2. /\ hand.at = "sync root" /\ HandTo("done")
      /\ UNCHANGED <<failure, usedNames, local, failing, torn>>
  BY DEF SyncRoot
<1>3. hand.dir \in Names /\ Archiving /\ failure \in 1 .. MaxFailures /\ hand.created
  BY <1>1, <1>2, HandIs DEF InDirectory
<1>4. /\ hand' \in [at : Places, dir : Names \cup {NoName}, created : BOOLEAN, saved_video : BOOLEAN]
      /\ hand'.at = "done" /\ hand'.dir = hand.dir /\ hand'.created = hand.created
      /\ hand'.saved_video = hand.saved_video
  BY <1>1, <1>2, HandGoes DEF Places
<1>5. /\ card' \in [Names -> Directory]
      /\ \A n \in Names \ {hand.dir} : card'[n] = card[n]
      /\ card'[hand.dir].made = card[hand.dir].made
      /\ card'[hand.dir].from = card[hand.dir].from
      /\ card'[hand.dir].file = card[hand.dir].file
      /\ card'[hand.dir].data = card[hand.dir].data
      /\ card'[hand.dir].entries = card[hand.dir].entries
      /\ card'[hand.dir].rooted
  BY <1>1, <1>3, SyncCalls
<1>6. ArchiveTypes'
  BY <1>1, <1>2, <1>4, <1>5 DEF ArchiveTypes
<1>7. Owned'
  <2>1. \A n \in Names : /\ card'[n].made = card[n].made /\ card'[n].from = card[n].from
                         /\ card'[n].file = card[n].file
    BY <1>5
  <2>2. DirectoriesOwned'
    BY <1>1, <1>2, <1>4, <2>1, OwnedStays DEF Owned
  <2>3. HandHolds'
    BY <1>1, <1>2, <1>3, <1>4, <2>1 DEF Owned, HandHolds, InDirectory, Archiving
  <2>. QED  BY <2>2, <2>3 DEF Owned
<1>8. Progress'
  <2>1. failure \notin failing =>
          /\ Has("video") /\ Has("meta") /\ Mine
          /\ card[hand.dir].entries = EventFiles
    <3>1. Progress /\ hand.at = "sync root"
      BY <1>1, <1>2
    <3>. QED  BY <3>1 DEF Progress
  <2>2. /\ local[failure] = EventFiles
        /\ \A e \in 1 .. MaxFailures : e > failure => local[e] = EventFiles
    <3>1. Progress /\ hand.at = "sync root"
      BY <1>1, <1>2
    <3>. QED  BY <3>1 DEF Progress
  <2>3. failure \notin failing => \A f \in EventFiles : OnCard(failure, f)'
    BY <1>2, <1>3, <1>5, <2>1 DEF OnCard, Has, Mine, EventFiles
  <2>4. failure \notin failing => hand.saved_video
    <3>1. Progress /\ hand.at = "sync root"
      BY <1>1, <1>2
    <3>. QED  BY <3>1 DEF Progress
  <2>. QED  BY <1>2, <1>3, <1>4, <2>2, <2>3, <2>4 DEF Progress, EventFiles
<1>9. Tidy'
  BY <1>1, <1>2, <1>4, <1>5 DEF Tidy
<1>10. NothingIsLost'
  <2>1. ASSUME NEW e \in 1 .. failure, NEW f \in EventFiles
        PROVE  e \in failing \/ f \in local[e] \/ OnCard(e, f)'
    <3>1. CASE e = failure
      BY <1>1, <1>2, <3>1 DEF Progress
    <3>2. CASE e # failure
      BY <1>1, <1>3, <1>5, <3>2, OthersStayOnCard DEF NothingIsLost
    <3>. QED  BY <3>1, <3>2
  <2>. QED  BY <1>2, <2>1 DEF NothingIsLost
<1>11. ArchivedWhole'
  BY <1>4 DEF ArchivedWhole
<1>. QED  BY <1>6, <1>7, <1>8, <1>9, <1>10, <1>11 DEF ArchiveInv

LEMMA TidyUpKeeps == ASSUME ArchiveInv, TidyUp PROVE ArchiveInv'
<1>1. ArchiveTypes /\ Owned /\ Progress /\ Tidy /\ NothingIsLost /\ ArchivedWhole
  BY DEF ArchiveInv
<1>2. /\ hand.at = "done" /\ HandTo("video gone")
      /\ UNCHANGED <<failure, usedNames, local, failing>>
      /\ failure \in torn => failure \in torn'
  BY DEF TidyUp
<1>3. \/ UNCHANGED card /\ (hand.created /\ ~ hand.saved_video => failure \in torn')
      \/ hand.created /\ ~ hand.saved_video /\ card' = [card EXCEPT ![hand.dir] = NoDirectory]
  BY DEF TidyUp
<1>4. /\ hand' \in [at : Places, dir : Names \cup {NoName}, created : BOOLEAN, saved_video : BOOLEAN]
      /\ hand'.at = "video gone" /\ hand'.dir = hand.dir /\ hand'.created = hand.created
      /\ hand'.saved_video = hand.saved_video
  BY <1>1, <1>2, HandGoes DEF Places
<1>5. /\ card' \in [Names -> Directory]
      /\ \A n \in Names : card'[n] = card[n] \/ (n = hand.dir /\ card'[n] = NoDirectory)
  BY <1>1, <1>3, NoDirectoryIs DEF ArchiveTypes
<1>6. ArchiveTypes'
  BY <1>1, <1>2, <1>4, <1>5 DEF ArchiveTypes
<1>7. Owned'
  <2>1. ASSUME NEW n \in Names
        PROVE  /\ ~ card'[n].made =>
                    card'[n].from = {} /\ \A f \in EventFiles : card'[n].file[f] = "none"
               /\ \A e, g \in card'[n].from : e = g
               /\ \A e \in card'[n].from : e <= failure
               /\ failure \in card'[n].from => hand.created /\ n = hand.dir
    <3>1. DirectoriesOwned /\ hand.at = "done"
      BY <1>1, <1>2 DEF Owned
    <3>2. CASE card'[n] = card[n]
      BY <3>1, <3>2 DEF DirectoriesOwned
    <3>3. CASE card'[n] = NoDirectory
      BY <3>3, NoDirectoryIs
    <3>. QED  BY <1>5, <3>2, <3>3
  <2>2. DirectoriesOwned'
    BY <1>2, <1>4, <2>1 DEF DirectoriesOwned
  <2>3. HandHolds'
    BY <1>1, <1>2, <1>4 DEF Owned, HandHolds, InDirectory, Archiving
  <2>. QED  BY <2>2, <2>3 DEF Owned
<1>8. failure \notin failing => UNCHANGED card
  BY <1>1, <1>2, <1>3 DEF Progress
<1>9. Progress'
  <2>1. failure \notin failing => \A f \in EventFiles : OnCard(failure, f)
    BY <1>1, <1>2 DEF Progress
  <2>2. failure \notin failing => \A f \in EventFiles : OnCard(failure, f)'
    BY <1>2, <1>8, <2>1 DEF OnCard
  <2>3. \A e \in 1 .. MaxFailures : e > failure => local[e] = EventFiles
    BY <1>1 DEF Progress
  <2>. QED  BY <1>2, <1>4, <2>2, <2>3 DEF Progress, EventFiles
<1>10. Tidy'
  BY <1>4 DEF Tidy
<1>11. NothingIsLost'
  <2>1. ASSUME NEW e \in 1 .. failure, NEW f \in EventFiles
        PROVE  e \in failing \/ f \in local[e] \/ OnCard(e, f)'
    <3>1. CASE e = failure
      BY <1>1, <1>2, <3>1 DEF Progress
    <3>2. CASE e # failure
      <4>1. CASE UNCHANGED card
        BY <1>1, <4>1 DEF NothingIsLost, OnCard
      <4>2. CASE hand.created
        BY <1>1, <1>2, <1>5, <3>2, <4>2, OthersStayOnCard DEF NothingIsLost, Archiving
      <4>. QED  BY <1>3, <4>1, <4>2
    <3>. QED  BY <3>1, <3>2
  <2>. QED  BY <1>2, <2>1 DEF NothingIsLost
<1>12. ArchivedWhole'
  <2>1. ASSUME failure \notin torn', NEW n \in Names, failure \in card'[n].from
        PROVE  card'[n].file["video"] = "whole" /\ card'[n].file["meta"] # "part"
    <3>1. card'[n] = card[n]
      BY <1>5, <2>1, NoDirectoryIs
    <3>2. hand.created /\ n = hand.dir
      BY <1>1, <1>2, <2>1, <3>1 DEF Owned, DirectoriesOwned, HandHolds
    <3>3. hand.saved_video
      <4>1. SUFFICES ASSUME ~ hand.saved_video PROVE FALSE
        OBVIOUS
      <4>2. card'[n] = NoDirectory
        BY <1>1, <1>3, <2>1, <3>2, <4>1 DEF ArchiveTypes
      <4>. QED  BY <2>1, <4>2, NoDirectoryIs
    <3>. QED  BY <1>1, <1>2, <2>1, <3>1, <3>2, <3>3 DEF Tidy
  <2>. QED  BY <1>2, <2>1 DEF ArchivedWhole
<1>. QED  BY <1>6, <1>7, <1>9, <1>10, <1>11, <1>12 DEF ArchiveInv

LEMMA RemoveLocalKeeps == ASSUME ArchiveInv, RemoveLocal PROVE ArchiveInv'
<1>1. ArchiveTypes /\ Owned /\ Progress /\ Tidy /\ NothingIsLost /\ ArchivedWhole
  BY DEF ArchiveInv
<1>2. UNCHANGED <<failure, usedNames, card, failing, torn>>
  BY DEF RemoveLocal
<1>3. PICK g \in EventFiles :
        /\ hand.at = IF g = "video" THEN "video gone" ELSE "meta gone"
        /\ HandTo(IF g = "video" THEN "meta gone" ELSE "idle")
        /\ local' \in {local, [local EXCEPT ![failure] = @ \ {g}]}
  BY DEF RemoveLocal
<1>4. /\ hand' \in [at : Places, dir : Names \cup {NoName}, created : BOOLEAN, saved_video : BOOLEAN]
      /\ hand'.at \in {"meta gone", "idle"} /\ hand'.dir = hand.dir
      /\ hand'.created = hand.created /\ hand'.saved_video = hand.saved_video
  BY <1>1, <1>3, HandGoes DEF Places
<1>5. failure \in 1 .. MaxFailures /\ hand.at \in {"video gone", "meta gone"}
  BY <1>1, <1>3, HandIs
<1>0. failure \in Nat /\ MaxFailures \in Nat /\ failure <= MaxFailures
  <2>1. failure \in 1 .. MaxFailures
    BY <1>5
  <2>. QED  BY <2>1, ArchiveAssumption
<1>6. /\ local' \in [1 .. MaxFailures -> SUBSET EventFiles]
      /\ \A e \in 1 .. MaxFailures : e # failure => local'[e] = local[e]
  <2>1. local \in [1 .. MaxFailures -> SUBSET EventFiles]
    BY <1>1 DEF ArchiveTypes
  <2>. QED  BY <1>3, <1>5, <2>1
<1>7. ArchiveTypes'
  BY <1>1, <1>2, <1>4, <1>6 DEF ArchiveTypes
<1>8. Owned'
  <2>1. hand.at # "idle"
    BY <1>5
  <2>2. DirectoriesOwned'
    BY <1>1, <1>2, <1>4, <2>1, OwnedStays DEF Owned
  <2>3. HandHolds'
    BY <1>1, <1>2, <1>4, <1>5 DEF Owned, HandHolds, InDirectory, Archiving
  <2>. QED  BY <2>2, <2>3 DEF Owned
<1>9. failure \notin failing => \A f \in EventFiles : OnCard(failure, f)
  BY <1>1, <1>5 DEF Progress
<1>10. Progress'
  <2>1. \A e \in 1 .. MaxFailures : e > failure => local'[e] = EventFiles
    <3>1. \A e \in 1 .. MaxFailures : e > failure => local[e] = EventFiles
      BY <1>1 DEF Progress
    <3>2. \A e \in 1 .. MaxFailures : e > failure => e # failure
      BY <1>0
    <3>. QED  BY <1>6, <3>1, <3>2
  <2>2. failure \notin failing => \A f \in EventFiles : OnCard(failure, f)'
    BY <1>2, <1>9 DEF OnCard
  <2>. QED  BY <1>2, <1>4, <2>1, <2>2 DEF Progress, EventFiles
<1>11. Tidy'
  BY <1>4 DEF Tidy
<1>12. NothingIsLost'
  <2>1. ASSUME NEW e \in 1 .. failure, NEW f \in EventFiles
        PROVE  e \in failing \/ f \in local'[e] \/ OnCard(e, f)
    <3>1. CASE e = failure
      BY <1>9, <3>1
    <3>2. CASE e # failure
      <4>1. e \in 1 .. MaxFailures
        BY <1>0
      <4>2. local'[e] = local[e]
        BY <1>6, <3>2, <4>1
      <4>. QED  BY <1>1, <4>2 DEF NothingIsLost
    <3>. QED  BY <3>1, <3>2
  <2>. QED  BY <1>2, <2>1 DEF NothingIsLost, OnCard
<1>13. ArchivedWhole'
  BY <1>1, <1>2, <1>5 DEF ArchivedWhole
<1>. QED  BY <1>7, <1>8, <1>10, <1>11, <1>12, <1>13 DEF ArchiveInv

LEMMA LosePowerKeeps == ASSUME ArchiveInv, LosePower PROVE ArchiveInv'
<1>1. ArchiveTypes /\ Owned /\ Progress /\ Tidy /\ NothingIsLost /\ ArchivedWhole
  BY DEF ArchiveInv
<1>2. HandTo("idle") /\ UNCHANGED <<failure, local, failing>>
  BY DEF LosePower
<1>3. /\ hand' \in [at : Places, dir : Names \cup {NoName}, created : BOOLEAN, saved_video : BOOLEAN]
      /\ hand'.at = "idle" /\ hand'.created = hand.created
      /\ hand'.saved_video = hand.saved_video
  BY <1>1, <1>2, HandGoes DEF Places
<1>4. card' \in [Names -> Directory]
  BY <1>1, LosePowerIs
<1>5. \A n \in Names : card[n] \in Directory /\ card'[n] \in AfterLoss(card[n])
  BY <1>1, LosePowerIs DEF ArchiveTypes
<1>6. ArchiveTypes'
  BY <1>1, <1>2, <1>3, <1>4 DEF ArchiveTypes
<1>7. Owned'
  <2>1. ASSUME NEW n \in Names
        PROVE  /\ ~ card'[n].made =>
                    card'[n].from = {} /\ \A f \in EventFiles : card'[n].file[f] = "none"
               /\ \A e, g \in card'[n].from : e = g
               /\ \A e \in card'[n].from : e <= failure
    <3>1. CASE card'[n] = NoDirectory
      BY <3>1, NoDirectoryIs
    <3>2. CASE card'[n].made = card[n].made /\ card'[n].from = card[n].from
      <4>1. \A f \in EventFiles : card[n].file[f] = "none" => card'[n].file[f] = "none"
        BY <1>5, AfterLossIs
      <4>. QED  BY <1>1, <3>2, <4>1 DEF Owned, DirectoriesOwned, HandHolds
    <3>. QED  BY <1>5, <3>1, <3>2, AfterLossIs
  <2>. QED  BY <1>1, <1>2, <1>3, <2>1 DEF Owned, DirectoriesOwned, HandHolds, InDirectory, Archiving
<1>8. Progress' /\ Tidy' /\ ArchivedWhole'
  BY <1>1, <1>2, <1>3 DEF Progress, Tidy, ArchivedWhole
<1>9. NothingIsLost'
  <2>1. ASSUME NEW e, NEW f \in EventFiles, OnCard(e, f) PROVE OnCard(e, f)'
    <3>1. PICK n \in Names : /\ card[n].from = {e} /\ card[n].rooted /\ card[n].file[f] = "whole"
                             /\ f \in card[n].data \cap card[n].entries
      BY <2>1 DEF OnCard
    <3>2. /\ card'[n].rooted /\ card'[n].from = card[n].from /\ card'[n].file[f] = "whole"
          /\ f \in card'[n].data \cap card'[n].entries
      BY <1>5, <3>1, AfterLossIs
    <3>. QED  BY <3>1, <3>2 DEF OnCard
  <2>. QED  BY <1>1, <1>2, <2>1 DEF NothingIsLost
<1>. QED  BY <1>6, <1>7, <1>8, <1>9 DEF ArchiveInv

LEMMA ArchiveInitInv == ArchiveInit => ArchiveInv
<1>. SUFFICES ASSUME ArchiveInit PROVE ArchiveInv
  OBVIOUS
<1>1. /\ failure = 0 /\ torn = {}
      /\ hand = [at |-> "idle", dir |-> NoName, created |-> FALSE, saved_video |-> FALSE]
      /\ local = [e \in 1 .. MaxFailures |-> EventFiles]
      /\ card = [n \in Names |-> NoDirectory]
  BY DEF ArchiveInit
<1>2. hand.at = "idle" /\ hand.created = FALSE /\ hand.saved_video = FALSE
  BY <1>1
<1>3. ArchiveTypes
  BY <1>1, NoDirectoryIs, ArchiveAssumption DEF ArchiveTypes, Places
<1>4. Owned
  BY <1>1, <1>2, NoDirectoryIs DEF Owned, DirectoriesOwned, HandHolds, InDirectory, Archiving
<1>5. Progress /\ Tidy /\ NothingIsLost /\ ArchivedWhole
  BY <1>1, <1>2 DEF Progress, Tidy, NothingIsLost, ArchivedWhole, EventFiles
<1>. QED  BY <1>3, <1>4, <1>5 DEF ArchiveInv

LEMMA ArchiveNextInv == ArchiveInv /\ [ArchiveNext]_archiveVars => ArchiveInv'
<1>. SUFFICES ASSUME ArchiveInv, [ArchiveNext]_archiveVars PROVE ArchiveInv'
  OBVIOUS
<1>1. CASE UNCHANGED archiveVars
  <2>1. UNCHANGED <<failure, hand, usedNames, local, card, failing, torn>>
    BY <1>1 DEF archiveVars
  <2>2. ArchiveTypes' /\ Owned'
    <3>1. ArchiveTypes'
      BY <2>1 DEF ArchiveInv, ArchiveTypes
    <3>2. DirectoriesOwned'
      BY <2>1 DEF ArchiveInv, Owned, DirectoriesOwned
    <3>3. HandHolds'
      BY <2>1 DEF ArchiveInv, Owned, HandHolds, InDirectory, Archiving
    <3>. QED  BY <3>1, <3>2, <3>3 DEF Owned
  <2>3. Progress' /\ Tidy'
    BY <2>1 DEF ArchiveInv, Progress, Tidy, OnCard, Has, Mine
  <2>4. NothingIsLost' /\ ArchivedWhole'
    BY <2>1 DEF ArchiveInv, NothingIsLost, ArchivedWhole, OnCard
  <2>. QED  BY <2>2, <2>3, <2>4 DEF ArchiveInv
<1>. QED
  BY <1>1, HandOnly, GiveUpKeeps, MakeDirectoryKeeps, CopyKeeps, SyncDirectoryKeeps, SyncRootKeeps,
     TidyUpKeeps, RemoveLocalKeeps, LosePowerKeeps DEF ArchiveNext

(* Whatever happens to power and card, an event whose upload failed is on   *)
(* the device or on the card for good unless a call has failed; no          *)
(* directory of the card holds files of two events; and what the archive    *)
(* leaves is whole: failed_archive.h, for any number of events and names.   *)
THEOREM ArchiveIsSoundHolds == ArchiveSpec => []ArchiveIsSound
<1>1. ArchiveSpec => []ArchiveInv
  BY ArchiveInitInv, ArchiveNextInv, PTL DEF ArchiveSpec
<1>2. ArchiveInv => ArchiveIsSound
  <2>1. SUFFICES ASSUME ArchiveInv PROVE DirectoriesAreExclusive
    BY DEF ArchiveInv, ArchiveIsSound
  <2>2. ASSUME NEW n \in Names PROVE Cardinality(card[n].from) <= 1
    <3>1. \A e, g \in card[n].from : e = g
      BY <2>1 DEF ArchiveInv, Owned, DirectoriesOwned
    <3>2. card[n].from = {} \/ \E e : card[n].from = {e}
      BY <3>1
    <3>3. Cardinality({}) = 0 /\ \A e : Cardinality({e}) = 1
      BY FS_EmptySet, FS_Singleton
    <3>4. CASE card[n].from = {}
      BY <3>3, <3>4
    <3>5. ASSUME NEW e, card[n].from = {e} PROVE Cardinality(card[n].from) <= 1
      <4>1. Cardinality({e}) = 1
        BY <3>3
      <4>2. Cardinality(card[n].from) = 1
        BY <3>5, <4>1
      <4>. QED  BY <4>2
    <3>. QED  BY <3>2, <3>4, <3>5
  <2>. QED  BY <2>2 DEF DirectoriesAreExclusive
<1>. QED  BY <1>1, <1>2, PTL

=============================================================================
