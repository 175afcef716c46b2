-------------------------- MODULE PacketRingProofs --------------------------
(***************************************************************************)
(* Proofs about PacketRing, for every capacity, byte limit, window of time *)
(* and set of packets, and any number of pushes and clock ticks: the ring  *)
(* and its snapshots are sound, it evicts no more than it must, a snapshot *)
(* misses nothing, and the saved parameter sets are the newest of their    *)
(* kind.                                                                   *)
(***************************************************************************)
EXTENDS PacketRing, TLAPS, SequenceTheorems

(* Slot arithmetic: an index that has gone around at most once.             *)
LEMMA SlotArithmetic ==
  ASSUME NEW h \in Slots, NEW i \in 0 .. Capacity
  PROVE  /\ (h + i) % Capacity = IF h + i < Capacity THEN h + i ELSE h + i - Capacity
         /\ (h + i) % Capacity \in Slots
<1>1. Capacity \in Nat \ {0} /\ h \in 0 .. Capacity - 1
  BY RingAssumption DEF Slots
<1> QED
  BY <1>1 DEF Slots

-----------------------------------------------------------------------------
(* The inductive invariant, in named parts.                                 *)

(* The window holds the newest packets of the log.                          *)
SlotsMatch == \A i \in 0 .. count - 1 : pkts[SlotOf(i)] = log[Evicted + i + 1].p

(* Every other slot is empty.                                               *)
FreeSlots == \A i \in count .. Capacity - 1 : pkts[SlotOf(i)] = Empty

(* The history "upto" is the running sum of the sizes, so it never falls.   *)
Sums ==
  /\ \A i \in 1 .. Len(log) : BytesUpTo(i) = BytesUpTo(i - 1) + log[i].p.size
  /\ \A i, j \in 0 .. Len(log) : i <= j => BytesUpTo(i) <= BytesUpTo(j)

(* The ring and the history agree.                                          *)
Ring ==
  /\ Evicted + count = Len(log)
  /\ SlotsMatch
  /\ FreeSlots
  /\ Sums
  /\ ByteAccounting

(* Once the count limit made room, the packet in hand fits.                 *)
RoomMade ==
  pc["rtsp"] = "store" => count < Capacity /\ payload_bytes + pkt.size <= MaxBytes

IInv == TypeOK /\ Ring /\ RoomMade

-----------------------------------------------------------------------------
(* Initially the ring and the log are empty.                                *)
LEMMA InitIInv == Init => IInv
<1> SUFFICES ASSUME Init PROVE IInv
  OBVIOUS
<1> USE RingAssumption DEF Init
<1>1. TypeOK
  <2>1. /\ 0 \in Slots /\ 0 \in 0 .. Capacity /\ pkt \in PacketType
        /\ Free \in Threads \cup {Free}
    BY DEF Slots
  <2>2. << >> \in Seq(Stored) /\ << >> \in Seq([p : Stored, upto : Nat])
    OBVIOUS
  <2>3. pkts \in [Slots -> Stored \cup {Empty}] /\ params \in [ParamKinds -> Nat]
    OBVIOUS
  <2>4. /\ pc \in [Threads -> {"idle", "locking", "prune", "evict", "store", "using"}]
        /\ now \in [Threads -> Nat]
    OBVIOUS
  <2>5. stats \in [{"time", "bytes", "count", "oversize", "alloc_failures"} -> Nat]
    OBVIOUS
  <2> QED
    BY <2>1, <2>2, <2>3, <2>4, <2>5 DEF TypeOK
<1>2. Evicted = 0 /\ count = 0 /\ Len(log) = 0
  BY DEF Evicted
<1>3. Ring
  <2>1. SlotsMatch
    BY <1>2 DEF SlotsMatch
  <2>2. FreeSlots
    <3> SUFFICES ASSUME NEW i \in 0 .. Capacity - 1 PROVE pkts[SlotOf(i)] = Empty
      BY <1>2 DEF FreeSlots
    <3>1. head \in Slots
      BY <1>1 DEF TypeOK
    <3> QED
      BY <3>1, SlotArithmetic DEF SlotOf
  <2>3. Sums
    BY <1>2 DEF Sums, BytesUpTo
  <2>4. ByteAccounting
    BY <1>2 DEF ByteAccounting, BytesUpTo
  <2> QED
    BY <1>2, <2>1, <2>2, <2>3, <2>4 DEF Ring
<1>4. RoomMade
  BY DEF RoomMade, Threads
<1> QED
  BY <1>1, <1>3, <1>4 DEF IInv

(* A step that leaves the ring and its history alone.                       *)
LEMMA QuietRing ==
  ASSUME Ring, UNCHANGED <<pkts, head, count, payload_bytes, log>>, Evicted' = Evicted
  PROVE  Ring'
  BY DEF Ring, SlotsMatch, FreeSlots, Sums, ByteAccounting, SlotOf, BytesUpTo

(* The running sums are numbers, and so is every entry of the log.          *)
LEMMA LogTypes ==
  ASSUME TypeOK, NEW n \in 0 .. Len(log)
  PROVE  /\ BytesUpTo(n) \in Nat
         /\ n # 0 => log[n] \in [p : Stored, upto : Nat] /\ log[n].p \in Stored
                     /\ log[n].p.size \in Nat \ {0} /\ log[n].p.stored_mono_ms \in Nat
<1>1. log \in Seq([p : Stored, upto : Nat])
  BY DEF TypeOK
<1>2. n # 0 => log[n] \in [p : Stored, upto : Nat]
  <2>1. n # 0 => n \in 1 .. Len(log)
    BY <1>1, LenProperties
  <2> QED
    BY <1>1, <2>1, ElementOfSeq
<1>3. BytesUpTo(n) \in Nat
  BY <1>2 DEF BytesUpTo
<1>4. n # 0 => log[n].p \in Stored
  BY <1>2
<1> QED
  BY <1>2, <1>3, <1>4 DEF Stored

(* What the invariant says of the packet at the head.                       *)
LEMMA OldestPacket ==
  ASSUME TypeOK, Ring, count > 0
  PROVE  /\ Evicted \in Nat /\ Evicted + 1 \in 1 .. Len(log)
         /\ Oldest = log[Evicted + 1].p /\ Oldest \in Stored
         /\ Oldest.size <= payload_bytes
         /\ BytesUpTo(Evicted + 1) = BytesUpTo(Evicted) + Oldest.size
<1>1. /\ Capacity \in Nat \ {0} /\ head \in Slots /\ head \in 0 .. Capacity - 1
      /\ count \in Nat /\ payload_bytes \in Nat /\ Len(log) \in Nat /\ Evicted \in Nat
      /\ log \in Seq([p : Stored, upto : Nat])
  BY RingAssumption DEF TypeOK, Slots, Evicted
<1>2. Evicted + count = Len(log) /\ Evicted + 1 \in 1 .. Len(log)
  BY <1>1 DEF Ring
<1>3. SlotOf(0) = head
  BY <1>1 DEF SlotOf
<1>4. Oldest = log[Evicted + 1].p
  <2>1. pkts[SlotOf(0)] = log[Evicted + 0 + 1].p
    BY <1>1 DEF Ring, SlotsMatch
  <2> QED
    BY <1>1, <1>3, <2>1 DEF Oldest
<1>5. Oldest \in Stored
  BY <1>1, <1>2, <1>4, LogTypes
<1>6. BytesUpTo(Evicted + 1) = BytesUpTo(Evicted) + Oldest.size
  <2> DEFINE n == Evicted + 1
  <2>1. n \in 1 .. Len(log) /\ n - 1 = Evicted
    BY <1>1, <1>2
  <2> HIDE DEF n
  <2>2. BytesUpTo(n) = BytesUpTo(n - 1) + log[n].p.size
    BY <2>1 DEF Ring, Sums
  <2> QED
    BY <1>4, <2>1, <2>2 DEF n
<1>7. Oldest.size <= payload_bytes
  <2>1. BytesUpTo(Evicted + 1) <= BytesUpTo(Len(log))
    BY <1>1, <1>2 DEF Ring, Sums
  <2>2. payload_bytes + BytesUpTo(Evicted) = BytesUpTo(Len(log))
    BY DEF Ring, ByteAccounting
  <2>3. /\ BytesUpTo(Evicted) \in Nat /\ BytesUpTo(Len(log)) \in Nat
        /\ BytesUpTo(Evicted + 1) \in Nat /\ Oldest.size \in Nat
    <3>1. Evicted \in 0 .. Len(log) /\ Len(log) \in 0 .. Len(log) /\ Evicted + 1 \in 0 .. Len(log)
      BY <1>1, <1>2
    <3> QED
      BY <1>5, <3>1, LogTypes DEF Stored
  <2> QED
    BY <1>1, <1>6, <2>1, <2>2, <2>3
<1> QED
  BY <1>1, <1>2, <1>4, <1>5, <1>6, <1>7

(* The variables evict_oldest touches keep their types.                     *)
LEMMA EvictTypes ==
  ASSUME TypeOK, Ring, count > 0, NEW reason \in {"time", "bytes", "count"},
         EvictOldest(reason)
  PROVE  /\ pkts' \in [Slots -> Stored \cup {Empty}]
         /\ head' \in Slots /\ count' \in 0 .. Capacity /\ payload_bytes' \in Nat
         /\ stats' \in [{"time", "bytes", "count", "oversize", "alloc_failures"} -> Nat]
         /\ params' = params
         /\ count' = count - 1 /\ Evicted' = Evicted + 1
         /\ stats'.alloc_failures = stats.alloc_failures
         /\ payload_bytes' = payload_bytes - Oldest.size
<1>1. /\ Capacity \in Nat \ {0} /\ head \in 0 .. Capacity - 1 /\ count \in 0 .. Capacity
      /\ payload_bytes \in Nat
      /\ pkts \in [Slots -> Stored \cup {Empty}]
      /\ stats \in [{"time", "bytes", "count", "oversize", "alloc_failures"} -> Nat]
  BY RingAssumption DEF TypeOK, Slots
<1>2. /\ payload_bytes' = payload_bytes - Oldest.size
      /\ pkts' = [pkts EXCEPT ![head] = Empty]
      /\ head' = (head + 1) % Capacity
      /\ count' = count - 1
      /\ stats' = [stats EXCEPT ![reason] = @ + 1]
      /\ params' = params
  BY DEF EvictOldest
<1>3. head' \in Slots
  BY <1>1, <1>2 DEF Slots
<1>4. payload_bytes' \in Nat
  <2>1. Oldest.size \in Nat /\ Oldest.size <= payload_bytes
    BY OldestPacket DEF Stored
  <2> QED
    BY <1>1, <1>2, <2>1
<1>5. Evicted' = Evicted + 1 /\ stats'.alloc_failures = stats.alloc_failures
  BY <1>1, <1>2 DEF Evicted
<1>6. stats' \in [{"time", "bytes", "count", "oversize", "alloc_failures"} -> Nat]
  BY <1>1, <1>2
<1>7. pkts' \in [Slots -> Stored \cup {Empty}]
  BY <1>1, <1>2
<1>8. count' \in 0 .. Capacity
  BY <1>1, <1>2
<1> QED
  BY <1>2, <1>3, <1>4, <1>5, <1>6, <1>7, <1>8

(* Evicting the oldest packet takes it out of the window, the sum and its   *)
(* slot alike.                                                              *)
LEMMA EvictRing ==
  ASSUME TypeOK, Ring, count > 0, NEW reason \in {"time", "bytes", "count"},
         EvictOldest(reason), log' = log
  PROVE  Ring'
<1>1. /\ Capacity \in Nat \ {0} /\ head \in 0 .. Capacity - 1 /\ count \in 0 .. Capacity
      /\ payload_bytes \in Nat /\ Evicted \in Nat /\ Len(log) \in Nat
      /\ pkts \in [Slots -> Stored \cup {Empty}] /\ head \in Slots
      /\ log \in Seq([p : Stored, upto : Nat])
  BY RingAssumption DEF TypeOK, Slots, Evicted
<1>a. Capacity \in Nat \ {0} /\ head \in 0 .. Capacity - 1
  BY <1>1
<1>2. /\ pkts' = [pkts EXCEPT ![head] = Empty]
      /\ head' = (head + 1) % Capacity
  BY DEF EvictOldest
<1>3. /\ count' = count - 1 /\ Evicted' = Evicted + 1
      /\ payload_bytes' = payload_bytes - Oldest.size /\ payload_bytes' \in Nat
  BY EvictTypes
<1>4. Evicted + count = Len(log)
  BY DEF Ring
<1>5. \A i \in 0 .. Capacity - 2 : SlotOf(i)' = SlotOf(i + 1) /\ SlotOf(i)' # head
  <2> SUFFICES ASSUME NEW i \in 0 .. Capacity - 2
               PROVE  SlotOf(i)' = SlotOf(i + 1) /\ SlotOf(i)' # head
    OBVIOUS
  <2>1. head' = IF head + 1 < Capacity THEN head + 1 ELSE 0
    BY <1>a, <1>2
  <2>2. SlotOf(i)' = IF head' + i < Capacity THEN head' + i ELSE head' + i - Capacity
    BY <1>a, <2>1 DEF SlotOf
  <2>3. SlotOf(i + 1) = IF head + i + 1 < Capacity THEN head + i + 1 ELSE head + i + 1 - Capacity
    BY <1>a DEF SlotOf
  <2> QED
    BY <1>a, <2>1, <2>2, <2>3
<1>6. SlotOf(Capacity - 1)' = head
  <2>1. head' = IF head + 1 < Capacity THEN head + 1 ELSE 0
    BY <1>a, <1>2
  <2>2. SlotOf(Capacity - 1)' = IF head' = 0 THEN Capacity - 1 ELSE head' - 1
    BY <1>a, <2>1 DEF SlotOf
  <2> QED
    BY <1>a, <2>1, <2>2
<1>7. \A i \in 0 .. Capacity - 2 : SlotOf(i + 1) \in Slots
  BY <1>1 DEF SlotOf, Slots
<1>8. \A i \in 0 .. Capacity - 2 : pkts'[SlotOf(i)'] = pkts[SlotOf(i + 1)]
  BY <1>1, <1>2, <1>5, <1>7
<1>9. SlotsMatch'
  <2> SUFFICES ASSUME NEW i \in 0 .. count - 2
               PROVE  pkts'[SlotOf(i)'] = log[Evicted + 1 + i + 1].p
    BY <1>1, <1>3 DEF SlotsMatch
  <2>1. i \in 0 .. Capacity - 2 /\ i + 1 \in 0 .. count - 1
    BY <1>1
  <2>2. pkts[SlotOf(i + 1)] = log[Evicted + (i + 1) + 1].p
    BY <2>1 DEF Ring, SlotsMatch
  <2>3. Evicted + (i + 1) + 1 = Evicted + 1 + i + 1
    BY <1>1
  <2> QED
    BY <1>8, <2>1, <2>2, <2>3
<1>10. FreeSlots'
  <2> SUFFICES ASSUME NEW i \in count - 1 .. Capacity - 1
               PROVE  pkts'[SlotOf(i)'] = Empty
    BY <1>1, <1>3 DEF FreeSlots
  <2>1. CASE i = Capacity - 1
    BY <1>1, <1>2, <1>6, <2>1
  <2>2. CASE i \in 0 .. Capacity - 2
    <3>1. i + 1 \in count .. Capacity - 1
      BY <1>1, <2>2
    <3> QED
      BY <1>8, <2>2, <3>1 DEF Ring, FreeSlots
  <2> QED
    BY <1>1, <2>1, <2>2
<1>11. Sums'
  BY DEF Ring, Sums, BytesUpTo
<1>12. ByteAccounting'
  <2>1. BytesUpTo(Evicted') = BytesUpTo(Evicted) + Oldest.size /\ Oldest.size \in Nat
    BY <1>3, OldestPacket DEF Stored
  <2>2. /\ payload_bytes + BytesUpTo(Evicted) = BytesUpTo(Len(log))
        /\ payload_bytes <= MaxBytes
    BY DEF Ring, ByteAccounting
  <2>3. BytesUpTo(Evicted) \in Nat
    BY <1>1, <1>4, LogTypes
  <2>4. BytesUpTo(Evicted)' = BytesUpTo(Evicted') /\ BytesUpTo(Len(log))' = BytesUpTo(Len(log))
    BY DEF BytesUpTo
  <2>5. payload_bytes' \in Nat /\ payload_bytes' + Oldest.size = payload_bytes
    <3>1. payload_bytes \in Nat /\ Oldest.size \in Nat
      BY <1>1, <2>1
    <3>2. payload_bytes' \in Nat /\ payload_bytes' = payload_bytes - Oldest.size
      BY <1>3
    <3> QED
      BY ONLY <3>1, <3>2
  <2>6. payload_bytes' + BytesUpTo(Evicted') = BytesUpTo(Len(log))
    BY <1>1, <2>1, <2>2, <2>3, <2>5
  <2>7. payload_bytes' <= MaxBytes
    BY <1>1, <2>1, <2>2, <2>5, RingAssumption
  <2> QED
    BY <2>4, <2>6, <2>7 DEF ByteAccounting
<1> QED
  BY <1>1, <1>3, <1>4, <1>9, <1>10, <1>11, <1>12 DEF Ring

(* Storing a packet extends the window, the sum and the log alike.          *)
LEMMA StoreRing ==
  ASSUME TypeOK, Ring, count < Capacity, NEW p \in Stored,
         payload_bytes + p.size <= MaxBytes, Store(p),
         log' = Append(log, [p |-> p, upto |-> BytesUpTo(Len(log)) + p.size])
  PROVE  /\ Ring'
         /\ pkts' \in [Slots -> Stored \cup {Empty}]
         /\ count' \in 0 .. Capacity /\ payload_bytes' \in Nat
         /\ head' = head /\ stats' = stats
         /\ log' \in Seq([p : Stored, upto : Nat])
<1> DEFINE e == [p |-> p, upto |-> BytesUpTo(Len(log)) + p.size]
<1>1. /\ count \in 0 .. Capacity /\ payload_bytes \in Nat /\ Evicted \in Nat
      /\ Len(log) \in Nat /\ head \in Slots
      /\ pkts \in [Slots -> Stored \cup {Empty}]
      /\ log \in Seq([p : Stored, upto : Nat])
  BY DEF TypeOK, Evicted
<1>a. Capacity \in Nat \ {0} /\ head \in 0 .. Capacity - 1 /\ count \in 0 .. Capacity - 1
  BY <1>1, RingAssumption DEF Slots
<1>2. /\ pkts' = [pkts EXCEPT ![SlotOf(count)] = p]
      /\ count' = count + 1
      /\ payload_bytes' = payload_bytes + p.size
      /\ head' = head /\ stats' = stats
  BY DEF Store
<1>3. p.size \in Nat \ {0} /\ e \in [p : Stored, upto : Nat]
  <2>1. p.size \in Nat \ {0}
    BY DEF Stored
  <2>2. BytesUpTo(Len(log)) \in Nat
    BY <1>1, LogTypes
  <2> QED
    BY <2>1, <2>2
<1>4. /\ log' \in Seq([p : Stored, upto : Nat]) /\ Len(log') = Len(log) + 1
      /\ \A i \in 1 .. Len(log) : log'[i] = log[i]
      /\ log'[Len(log) + 1] = e
  BY <1>1, <1>3
<1>5. Evicted' = Evicted /\ Evicted + count = Len(log)
  BY <1>2 DEF Evicted, Ring
<1>6. \A i \in 0 .. Capacity - 1 : SlotOf(i)' = SlotOf(i) /\ SlotOf(i) \in Slots
  <2> SUFFICES ASSUME NEW i \in 0 .. Capacity - 1
               PROVE  SlotOf(i)' = SlotOf(i) /\ SlotOf(i) \in Slots
    OBVIOUS
  <2>1. i \in 0 .. Capacity
    BY <1>a
  <2> QED
    BY <1>1, <1>2, <2>1, SlotArithmetic DEF SlotOf
<1>7. \A i \in 0 .. Capacity - 1 : i # count => SlotOf(i) # SlotOf(count)
  <2> SUFFICES ASSUME NEW i \in 0 .. Capacity - 1, i # count
               PROVE  SlotOf(i) # SlotOf(count)
    OBVIOUS
  <2>1. SlotOf(i) = IF head + i < Capacity THEN head + i ELSE head + i - Capacity
    BY <1>a DEF SlotOf
  <2>2. SlotOf(count) = IF head + count < Capacity THEN head + count ELSE head + count - Capacity
    BY <1>a DEF SlotOf
  <2> QED
    BY <1>a, <2>1, <2>2
<1>8. /\ pkts'[SlotOf(count)] = p
      /\ \A i \in 0 .. Capacity - 1 : i # count => pkts'[SlotOf(i)'] = pkts[SlotOf(i)]
  BY <1>a, <1>1, <1>2, <1>6, <1>7
<1>9. SlotsMatch'
  <2> SUFFICES ASSUME NEW i \in 0 .. count
               PROVE  pkts'[SlotOf(i)'] = log'[Evicted + i + 1].p
    <3>1. count' - 1 = count
      BY <1>a, <1>2
    <3> QED
      BY <1>5, <3>1 DEF SlotsMatch
  <2>1. CASE i = count
    <3>1. log'[Evicted + i + 1] = e
      BY <1>4, <1>5, <2>1
    <3>2. SlotOf(i)' = SlotOf(count)
      BY <1>a, <1>6, <2>1
    <3>3. pkts'[SlotOf(i)'] = p
      BY <1>8, <3>2
    <3>4. e.p = p
      OBVIOUS
    <3> HIDE DEF e
    <3> QED
      BY <3>1, <3>3, <3>4
  <2>2. CASE i \in 0 .. count - 1
    <3>1. pkts[SlotOf(i)] = log[Evicted + i + 1].p
      BY <2>2 DEF Ring, SlotsMatch
    <3>2. Evicted + i + 1 \in 1 .. Len(log)
      BY <1>a, <1>1, <1>5, <2>2
    <3>3. log'[Evicted + i + 1] = log[Evicted + i + 1]
      BY <1>4, <3>2
    <3>4. pkts'[SlotOf(i)'] = pkts[SlotOf(i)]
      BY <1>a, <1>8, <2>2
    <3> QED
      BY <3>1, <3>3, <3>4
  <2>3. i = count \/ i \in 0 .. count - 1
    BY <1>a
  <2> QED
    BY <2>1, <2>2, <2>3
<1>10. FreeSlots'
  <2> SUFFICES ASSUME NEW i \in count + 1 .. Capacity - 1
               PROVE  pkts'[SlotOf(i)'] = Empty
    BY <1>a, <1>2 DEF FreeSlots
  <2>1. i \in 0 .. Capacity - 1 /\ i # count /\ i \in count .. Capacity - 1
    BY <1>a
  <2> QED
    BY <1>8, <2>1 DEF Ring, FreeSlots
<1>11. /\ \A i \in 0 .. Len(log) : BytesUpTo(i)' = BytesUpTo(i)
       /\ \A i : i = Len(log) + 1 => BytesUpTo(i)' = BytesUpTo(Len(log)) + p.size
  <2>1. ASSUME NEW i \in 0 .. Len(log) PROVE BytesUpTo(i)' = BytesUpTo(i)
    <3>1. i = 0 \/ i \in 1 .. Len(log)
      BY <1>1
    <3> QED
      BY <1>4, <3>1 DEF BytesUpTo
  <2>2. ASSUME NEW i, i = Len(log) + 1 PROVE BytesUpTo(i)' = BytesUpTo(Len(log)) + p.size
    <3>1. i # 0 /\ log'[i] = e
      BY <1>1, <1>4, <2>2
    <3>2. BytesUpTo(i)' = log'[i].upto
      BY <3>1 DEF BytesUpTo
    <3> QED
      BY <3>1, <3>2
  <2> QED
    BY <2>1, <2>2
<1>12. \A i \in 0 .. Len(log) : BytesUpTo(i) \in Nat
  BY LogTypes
<1>13. Sums'
  <2>1. ASSUME NEW i \in 1 .. Len(log) + 1
        PROVE  BytesUpTo(i)' = BytesUpTo(i - 1)' + log'[i].p.size
    <3>1. CASE i = Len(log) + 1
      <4>1. BytesUpTo(i - 1)' = BytesUpTo(Len(log))
        BY <1>1, <1>11, <3>1
      <4> QED
        BY <1>4, <1>11, <3>1, <4>1
    <3>2. CASE i \in 1 .. Len(log)
      <4>1. BytesUpTo(i) = BytesUpTo(i - 1) + log[i].p.size
        BY <3>2 DEF Ring, Sums
      <4>2. i \in 0 .. Len(log) /\ i - 1 \in 0 .. Len(log)
        BY <1>1, <3>2
      <4> QED
        BY <1>4, <1>11, <3>2, <4>1, <4>2
    <3> QED
      BY <1>1, <3>1, <3>2
  <2>2. ASSUME NEW i \in 0 .. Len(log) + 1, NEW j \in 0 .. Len(log) + 1, i <= j
        PROVE  BytesUpTo(i)' <= BytesUpTo(j)'
    <3>1. CASE j \in 0 .. Len(log)
      <4>1. i \in 0 .. Len(log)
        BY <1>1, <2>2, <3>1
      <4>2. BytesUpTo(i) <= BytesUpTo(j)
        BY <2>2, <3>1, <4>1 DEF Ring, Sums
      <4> QED
        BY <1>11, <3>1, <4>1, <4>2
    <3>2. CASE j = Len(log) + 1 /\ i \in 0 .. Len(log)
      <4>1. BytesUpTo(i) <= BytesUpTo(Len(log))
        BY <1>1, <3>2 DEF Ring, Sums
      <4>2. BytesUpTo(i) \in Nat /\ BytesUpTo(Len(log)) \in Nat
        BY <1>1, <1>12, <3>2
      <4>3. BytesUpTo(i)' = BytesUpTo(i) /\ BytesUpTo(j)' = BytesUpTo(Len(log)) + p.size
        BY <1>11, <3>2
      <4> QED
        BY <1>3, <4>1, <4>2, <4>3
    <3>3. CASE i = Len(log) + 1 /\ j = Len(log) + 1
      <4>1. BytesUpTo(Len(log)) \in Nat
        BY <1>1, <1>12
      <4>2. BytesUpTo(i)' = BytesUpTo(Len(log)) + p.size /\ BytesUpTo(j)' = BytesUpTo(i)'
        BY <1>11, <3>3
      <4> QED
        BY <1>3, <4>1, <4>2
    <3> QED
      BY <1>1, <2>2, <3>1, <3>2, <3>3
  <2> QED
    BY <1>4, <2>1, <2>2 DEF Sums
<1>14. ByteAccounting'
  <2>1. /\ payload_bytes + BytesUpTo(Evicted) = BytesUpTo(Len(log))
        /\ payload_bytes <= MaxBytes
    BY DEF Ring, ByteAccounting
  <2>2. Evicted \in 0 .. Len(log)
    BY <1>a, <1>1, <1>5
  <2>3. BytesUpTo(Evicted)' = BytesUpTo(Evicted) /\ BytesUpTo(Evicted) \in Nat
    <3> DEFINE n == Evicted
    <3>1. n' = n /\ n \in 0 .. Len(log)
      BY <1>5, <2>2
    <3>2. BytesUpTo(n)' = IF n = 0 THEN 0 ELSE log'[n].upto
      BY <3>1 DEF BytesUpTo
    <3>3. n = 0 \/ n \in 1 .. Len(log)
      BY <1>1, <3>1
    <3>4. BytesUpTo(n)' = BytesUpTo(n)
      BY <1>4, <3>2, <3>3 DEF BytesUpTo
    <3> QED
      BY <1>12, <3>1, <3>4
  <2>4. BytesUpTo(Len(log))' = BytesUpTo(Len(log)) + p.size /\ BytesUpTo(Len(log)) \in Nat
    <3>1. BytesUpTo(Len(log))' = log'[Len(log')].upto
      BY <1>1, <1>4 DEF BytesUpTo
    <3> QED
      BY <1>1, <1>4, <1>12, <3>1
  <2> QED
    BY <1>1, <1>2, <1>3, <2>1, <2>3, <2>4 DEF ByteAccounting
<1>15. Ring'
  <2>1. Evicted' + count' = Len(log')
    BY <1>a, <1>1, <1>2, <1>4, <1>5
  <2> QED
    BY <1>9, <1>10, <1>13, <1>14, <2>1 DEF Ring
<1>16. /\ pkts' \in [Slots -> Stored \cup {Empty}]
       /\ count' \in 0 .. Capacity /\ payload_bytes' \in Nat
  <2>1. SlotOf(count) \in Slots
    BY <1>a, <1>6
  <2>2. pkts' \in [Slots -> Stored \cup {Empty}]
    BY <1>1, <1>2, <2>1
  <2> QED
    BY <1>a, <1>1, <1>2, <1>3, <2>2
<1> QED
  BY <1>2, <1>4, <1>15, <1>16

-----------------------------------------------------------------------------
(* The steps of the program.                                                *)

(* What the counters are, for the leaves that only do arithmetic on them.   *)
LEMMA Counters ==
  ASSUME TypeOK, Ring
  PROVE  /\ count \in Nat /\ Evicted \in Nat /\ Len(log) \in Nat
         /\ Evicted + count = Len(log)
         /\ payload_bytes \in Nat /\ mono \in Nat /\ pkt.size \in Nat
         /\ Capacity \in Nat /\ MaxBytes \in Nat /\ RingMs \in Nat
         /\ \A t \in Threads : now[t] \in Nat
<1>1. Capacity \in Nat /\ MaxBytes \in Nat /\ RingMs \in Nat
  BY RingAssumption
<1>2. count \in Nat /\ payload_bytes \in Nat /\ mono \in Nat /\ Len(log) \in Nat
  BY <1>1 DEF TypeOK
<1>3. \A t \in Threads : now[t] \in Nat
  BY DEF TypeOK
<1>4. pkt.size \in Nat
  BY DEF TypeOK, PacketType
<1>5. Evicted \in Nat
  BY DEF TypeOK, Evicted
<1>6. Evicted + count = Len(log)
  BY DEF Ring
<1> QED
  BY <1>1, <1>2, <1>3, <1>4, <1>5, <1>6

(* The window is the tail of the log.                                       *)
LEMMA WindowIsTail ==
  ASSUME TypeOK, Ring
  PROVE  /\ Window \in Seq(Stored) /\ Len(Window) = count
         /\ \A i \in 1 .. count : Window[i] = log[Evicted + i].p
                                  /\ Evicted + i \in 1 .. Len(log)
<1>1. /\ count \in Nat /\ Evicted \in Nat /\ Len(log) \in Nat /\ Evicted + count = Len(log)
  BY Counters
<1>2. ASSUME NEW i \in 1 .. count
      PROVE  Window[i] = log[Evicted + i].p /\ Evicted + i \in 1 .. Len(log)
  <2>1. i - 1 \in 0 .. count - 1 /\ Evicted + (i - 1) + 1 = Evicted + i
        /\ Evicted + i \in 1 .. Len(log)
    BY <1>1
  <2>2. Window[i] = pkts[SlotOf(i - 1)]
    BY DEF Window
  <2>3. pkts[SlotOf(i - 1)] = log[Evicted + (i - 1) + 1].p
    BY <2>1 DEF Ring, SlotsMatch
  <2> QED
    BY <2>1, <2>2, <2>3
<1>3. \A i \in 1 .. count : Window[i] \in Stored
  <2> SUFFICES ASSUME NEW i \in 1 .. count PROVE Window[i] \in Stored
    OBVIOUS
  <2> DEFINE n == Evicted + i
  <2>1. n \in 1 .. Len(log) /\ Window[i] = log[n].p
    BY <1>2
  <2>2. n \in 0 .. Len(log) /\ n # 0
    BY <1>1, <2>1
  <2> HIDE DEF n
  <2> QED
    BY <2>1, <2>2, LogTypes
<1>4. Window = [i \in 1 .. count |-> Window[i]]
  BY DEF Window
<1>5. Window \in [1 .. count -> Stored]
  BY <1>3, <1>4
<1> QED
  BY <1>1, <1>2, <1>5

(* Steps that touch neither the ring nor the log.                           *)
LEMMA QuietSteps ==
  ASSUME IInv,
         \/ Tick \/ PushReadClock \/ PushLock \/ PushOversize \/ PushAllocFails
         \/ (\E t \in {"main", "clip"} : LockAndReadClock(t))
         \/ PruneReturn \/ SnapshotCopy \/ SnapshotFree
  PROVE  IInv'
<1> USE RingAssumption DEF IInv
<1>0. TypeOK /\ Ring /\ RoomMade
  OBVIOUS
<1>1. CASE Tick
  <2>1. TypeOK'
    BY <1>0, <1>1 DEF TypeOK, Tick, ringVars
  <2> QED
    BY <1>0, <1>1, <2>1, QuietRing DEF Tick, ringVars, RoomMade, Evicted
<1>2. CASE PushReadClock
  <2>1. TypeOK'
    BY <1>0, <1>2 DEF TypeOK, PushReadClock, ringVars, Goto
  <2>2. RoomMade'
    BY <1>0, <1>2 DEF TypeOK, PushReadClock, RoomMade, Goto, Threads
  <2> QED
    BY <1>0, <1>2, <2>1, <2>2, QuietRing DEF PushReadClock, ringVars, Evicted
<1>3. CASE PushLock
  <2>1. TypeOK'
    BY <1>0, <1>3 DEF TypeOK, PushLock, ringVars, Goto, Threads
  <2>2. RoomMade'
    BY <1>0, <1>3 DEF TypeOK, PushLock, RoomMade, Goto, Threads
  <2> QED
    BY <1>0, <1>3, <2>1, <2>2, QuietRing DEF PushLock, ringVars, Evicted
<1>4. CASE PushOversize
  <2>1. TypeOK'
    <3>1. stats' \in [{"time", "bytes", "count", "oversize", "alloc_failures"} -> Nat]
      <4>1. stats' = [stats EXCEPT !.oversize = @ + 1]
        BY <1>4 DEF PushOversize
      <4>2. stats \in [{"time", "bytes", "count", "oversize", "alloc_failures"} -> Nat]
        BY <1>0 DEF TypeOK
      <4> QED
        BY ONLY <4>1, <4>2
    <3>2. /\ holder' \in Threads \cup {Free} /\ now' \in [Threads -> Nat]
          /\ pc' \in [Threads -> {"idle", "locking", "prune", "evict", "store", "using"}]
      BY <1>0, <1>4 DEF TypeOK, PushOversize, Unlock, Goto, Threads
    <3> QED
      BY <1>0, <1>4, <3>1, <3>2 DEF TypeOK, PushOversize
  <2>2. RoomMade'
    BY <1>0, <1>4 DEF TypeOK, PushOversize, RoomMade, Unlock, Goto, Threads
  <2>3. Evicted' = Evicted
    BY <1>0, <1>4 DEF TypeOK, PushOversize, Evicted
  <2> QED
    BY <1>0, <1>4, <2>1, <2>2, <2>3, QuietRing DEF PushOversize
<1>5. CASE PushAllocFails
  <2>1. TypeOK'
    <3>1. stats' \in [{"time", "bytes", "count", "oversize", "alloc_failures"} -> Nat]
      <4>1. stats' = [stats EXCEPT !.alloc_failures = @ + 1]
        BY <1>5 DEF PushAllocFails
      <4>2. stats \in [{"time", "bytes", "count", "oversize", "alloc_failures"} -> Nat]
        BY <1>0 DEF TypeOK
      <4> QED
        BY ONLY <4>1, <4>2
    <3>2. /\ holder' \in Threads \cup {Free} /\ now' \in [Threads -> Nat]
          /\ pc' \in [Threads -> {"idle", "locking", "prune", "evict", "store", "using"}]
      BY <1>0, <1>5 DEF TypeOK, PushAllocFails, Unlock, Goto, Threads
    <3> QED
      BY <1>0, <1>5, <3>1, <3>2 DEF TypeOK, PushAllocFails
  <2>2. RoomMade'
    BY <1>0, <1>5 DEF TypeOK, PushAllocFails, RoomMade, Unlock, Goto, Threads
  <2>3. Evicted' = Evicted
    BY <1>0, <1>5 DEF TypeOK, PushAllocFails, Evicted
  <2> QED
    BY <1>0, <1>5, <2>1, <2>2, <2>3, QuietRing DEF PushAllocFails
<1>6. ASSUME NEW t \in {"main", "clip"}, LockAndReadClock(t)
      PROVE  IInv'
  <2>1. TypeOK'
    BY <1>0, <1>6 DEF TypeOK, LockAndReadClock, ringVars, Goto, Threads
  <2>2. RoomMade'
    BY <1>0, <1>6 DEF TypeOK, LockAndReadClock, RoomMade, ringVars, Goto, Threads
  <2> QED
    BY <1>0, <1>6, <2>1, <2>2, QuietRing DEF LockAndReadClock, ringVars, Evicted
<1>7. CASE PruneReturn
  <2>1. TypeOK'
    BY <1>0, <1>7 DEF TypeOK, PruneReturn, ringVars, Unlock, Goto, Threads
  <2>2. RoomMade'
    BY <1>0, <1>7 DEF TypeOK, PruneReturn, RoomMade, ringVars, Unlock, Goto, Threads
  <2> QED
    BY <1>0, <1>7, <2>1, <2>2, QuietRing DEF PruneReturn, ringVars, Evicted
<1>8. CASE SnapshotCopy
  <2>1. snap' \in Seq(Stored)
    <3>1. Window \in Seq(Stored) /\ << >> \in Seq(Stored)
      BY <1>0, WindowIsTail
    <3>2. snap' \in {Window, << >>}
      BY <1>8 DEF SnapshotCopy
    <3> QED
      BY <3>1, <3>2
  <2>2. TypeOK'
    BY <1>0, <1>8, <2>1 DEF TypeOK, SnapshotCopy, ringVars, Unlock, Goto, Threads
  <2>3. RoomMade'
    BY <1>0, <1>8 DEF TypeOK, SnapshotCopy, RoomMade, ringVars, Unlock, Goto, Threads
  <2> QED
    BY <1>0, <1>8, <2>2, <2>3, QuietRing DEF SnapshotCopy, ringVars, Evicted
<1>9. CASE SnapshotFree
  <2>1. TypeOK'
    BY <1>0, <1>9 DEF TypeOK, SnapshotFree, ringVars, Goto, Threads
  <2>2. RoomMade'
    BY <1>0, <1>9 DEF TypeOK, SnapshotFree, RoomMade, ringVars, Goto, Threads
  <2> QED
    BY <1>0, <1>9, <2>1, <2>2, QuietRing DEF SnapshotFree, ringVars, Evicted
<1> QED
  BY <1>1, <1>2, <1>3, <1>4, <1>5, <1>6, <1>7, <1>8, <1>9

(* Steps that evict one packet.                                             *)
LEMMA EvictSteps ==
  ASSUME IInv,
         \/ \E t \in Threads : PruneOne(t)
         \/ PushEvictBytes
         \/ PushEvictCount
  PROVE  IInv'
<1>0. TypeOK /\ Ring /\ RoomMade
  BY DEF IInv
<1>1. ASSUME NEW t \in Threads, PruneOne(t)
      PROVE  IInv'
  <2>1. count > 0 /\ EvictOldest("time") /\ log' = log /\ pc' = pc /\ pkt' = pkt
    BY <1>1 DEF PruneOne
  <2>2. Ring'
    BY <1>0, <2>1, EvictRing
  <2>3. TypeOK'
    BY <1>0, <1>1, <2>1, EvictTypes DEF TypeOK, PruneOne
  <2>4. RoomMade'
    <3> SUFFICES ASSUME pc["rtsp"] = "store"
                 PROVE  count' < Capacity /\ payload_bytes' + pkt.size <= MaxBytes
      BY <2>1 DEF RoomMade
    <3>1. count < Capacity /\ payload_bytes + pkt.size <= MaxBytes
      BY <1>0 DEF RoomMade
    <3>2. /\ payload_bytes \in Nat /\ pkt.size \in Nat /\ count \in Nat /\ Capacity \in Nat
          /\ MaxBytes \in Nat
      BY <1>0, RingAssumption DEF TypeOK, PacketType
    <3>3. payload_bytes' = payload_bytes - Oldest.size /\ count' = count - 1
      BY <1>0, <2>1, EvictTypes
    <3>4. Oldest.size \in Nat
      BY <1>0, <2>1, OldestPacket DEF Stored
    <3> QED
      BY <3>1, <3>2, <3>3, <3>4
  <2> QED
    BY <2>2, <2>3, <2>4 DEF IInv
<1>2. CASE PushEvictBytes
  <2>1. /\ count > 0 /\ EvictOldest("bytes") /\ log' = log /\ pkt' = pkt
        /\ pc' = [pc EXCEPT !["rtsp"] = "evict"]
    BY <1>2 DEF PushEvictBytes, NoRoom, Goto
  <2>2. Ring'
    BY <1>0, <2>1, EvictRing
  <2>3. TypeOK'
    BY <1>0, <1>2, <2>1, EvictTypes DEF TypeOK, PushEvictBytes, Threads
  <2>4. RoomMade'
    BY <1>0, <2>1 DEF RoomMade, TypeOK, Threads
  <2> QED
    BY <2>2, <2>3, <2>4 DEF IInv
<1>3. CASE PushEvictCount
  <2>1. /\ count = Capacity /\ EvictOldest("count") /\ log' = log /\ pkt' = pkt
        /\ ~ NoRoom
        /\ pc' = [pc EXCEPT !["rtsp"] = "store"]
    BY <1>3 DEF PushEvictCount, Goto
  <2>2. /\ payload_bytes \in Nat /\ pkt.size \in Nat /\ count \in Nat /\ count > 0
        /\ Capacity \in Nat \ {0} /\ MaxBytes \in Nat
    BY <1>0, <2>1, RingAssumption DEF TypeOK, PacketType
  <2>3. Ring'
    BY <1>0, <2>1, <2>2, EvictRing
  <2>4. TypeOK'
    BY <1>0, <1>3, <2>1, <2>2, EvictTypes DEF TypeOK, PushEvictCount, Threads
  <2>5. RoomMade'
    <3>1. payload_bytes' = payload_bytes - Oldest.size /\ count' = count - 1
      BY <1>0, <2>1, <2>2, EvictTypes
    <3>2. Oldest.size \in Nat
      BY <1>0, <2>2, OldestPacket DEF Stored
    <3>3. payload_bytes <= MaxBytes - pkt.size
      BY <2>1, <2>2 DEF NoRoom
    <3>4. count' < Capacity /\ payload_bytes' + pkt.size <= MaxBytes
      BY <2>1, <2>2, <3>1, <3>2, <3>3
    <3> QED
      BY <2>1, <3>4 DEF RoomMade
  <2> QED
    BY <2>3, <2>4, <2>5 DEF IInv
<1> QED
  BY <1>1, <1>2, <1>3

(* When ring_push comes to store, the packet fits.                          *)
LEMMA StoreFits ==
  ASSUME IInv, ReadyToStore
  PROVE  count < Capacity /\ payload_bytes + pkt.size <= MaxBytes
<1>1. /\ payload_bytes \in Nat /\ pkt.size \in Nat /\ count \in 0 .. Capacity
      /\ Capacity \in Nat \ {0} /\ MaxBytes \in Nat
  BY RingAssumption DEF IInv, TypeOK, PacketType
<1>2. CASE pc["rtsp"] = "store"
  BY <1>2 DEF IInv, RoomMade
<1>3. CASE pkt.size <= MaxBytes /\ ~ NoRoom /\ count # Capacity
  <2>1. CASE count = 0
    <3>1. payload_bytes = 0
      <4>1. Evicted \in Nat /\ Len(log) \in Nat /\ Evicted + count = Len(log)
        BY DEF IInv, TypeOK, Ring, Evicted
      <4>2. Evicted = Len(log)
        BY <2>1, <4>1
      <4>3. payload_bytes + BytesUpTo(Evicted) = BytesUpTo(Evicted)
        BY <4>2 DEF IInv, Ring, ByteAccounting
      <4>4. BytesUpTo(Evicted) \in Nat
        BY <4>1, <4>2, LogTypes DEF IInv
      <4> QED
        BY <1>1, <4>3, <4>4
    <3> QED
      BY <1>1, <1>3, <2>1, <3>1
  <2>2. CASE count > 0
    BY <1>1, <1>3, <2>2 DEF NoRoom
  <2> QED
    BY <1>1, <2>1, <2>2
<1> QED
  BY <1>2, <1>3 DEF ReadyToStore

(* The step that stores a packet.                                           *)
LEMMA StoreStep ==
  ASSUME IInv, PushStore
  PROVE  IInv'
<1> DEFINE p == [size |-> pkt.size, codec |-> pkt.codec, nal |-> pkt.nal,
                 stored_mono_ms |-> now["rtsp"]]
<1>0. TypeOK /\ Ring
  BY DEF IInv
<1>1. p \in Stored /\ p.size = pkt.size
  BY <1>0 DEF TypeOK, PacketType, Stored, Threads
<1>2. count < Capacity /\ payload_bytes + p.size <= MaxBytes
  BY <1>1, StoreFits DEF PushStore
<1>3. /\ Store(p)
      /\ log' = Append(log, [p |-> p, upto |-> BytesUpTo(Len(log)) + p.size])
  BY DEF PushStore
<1>4. /\ Ring'
      /\ pkts' \in [Slots -> Stored \cup {Empty}]
      /\ count' \in 0 .. Capacity /\ payload_bytes' \in Nat
      /\ head' = head /\ stats' = stats
      /\ log' \in Seq([p : Stored, upto : Nat])
  BY <1>0, <1>1, <1>2, <1>3, StoreRing
<1> HIDE DEF p
<1>5. params' \in [ParamKinds -> Nat] /\ lostParam' \subseteq ParamKinds
  <2>1. SaveParam(pkt, Len(log) + 1)
    BY DEF PushStore
  <2>2. Len(log) + 1 \in Nat /\ params \in [ParamKinds -> Nat] /\ lostParam \subseteq ParamKinds
    BY <1>0 DEF TypeOK
  <2> QED
    BY <2>1, <2>2 DEF SaveParam, IsParamSet
<1>6. TypeOK'
  BY <1>0, <1>4, <1>5 DEF TypeOK, PushStore, Unlock, Goto, Threads
<1>7. RoomMade'
  BY <1>0 DEF TypeOK, PushStore, RoomMade, Unlock, Goto, Threads
<1> QED
  BY <1>4, <1>6, <1>7 DEF IInv

(* Every step preserves the invariant.                                      *)
LEMMA NextIInv == IInv /\ [Next]_vars => IInv'
<1> SUFFICES ASSUME IInv, [Next]_vars PROVE IInv'
  OBVIOUS
<1>1. CASE Next
  BY <1>1, QuietSteps, EvictSteps, StoreStep DEF Next, Push, Prune, Snapshot, Threads
<1>2. CASE UNCHANGED vars
  <2>1. TypeOK'
    BY <1>2 DEF IInv, TypeOK, vars, ringVars
  <2> QED
    BY <1>2, <2>1, QuietRing DEF IInv, RoomMade, vars, ringVars, Evicted
<1> QED
  BY <1>1, <1>2

(* The strengthened invariant holds throughout.                             *)
THEOREM Invariance == Spec => []IInv
  BY InitIInv, NextIInv, PTL DEF Spec

(* The type invariant of the ring and its three threads.                    *)
THEOREM TypeCorrect == Spec => []TypeOK
<1>1. IInv => TypeOK
  BY DEF IInv
<1> QED
  BY <1>1, Invariance, PTL

(* The ring holds exactly the newest packets it accepted, in order: the     *)
(* slot arithmetic loses, duplicates and reorders nothing, for ever.        *)
THEOREM HoldsSuffix == Spec => []RingIsSuffix
<1>1. IInv => RingIsSuffix
  BY WindowIsTail DEF IInv, Ring, RingIsSuffix
<1> QED
  BY <1>1, Invariance, PTL

(* payload_bytes is what the ring weighs and stays within max_bytes, so the *)
(* unsigned subtraction of evict_oldest never wraps around.                 *)
THEOREM BytesAccounted == Spec => []ByteAccounting
<1>1. IInv => ByteAccounting
  BY DEF IInv, Ring
<1> QED
  BY <1>1, Invariance, PTL

(* A slot owns a payload exactly when it is in the window, so storing in    *)
(* the next slot never drops, and leaks, one.                               *)
THEOREM NoSlotLeaks == Spec => []FreeSlotsOwnNothing
<1>1. ASSUME IInv, NEW s \in Slots
      PROVE  pkts[s] = Empty <=> \A i \in 1 .. count : SlotOf(i - 1) # s
  <2> DEFINE k == IF s >= head THEN s - head ELSE s - head + Capacity
  <2>1. /\ Capacity \in Nat \ {0} /\ head \in 0 .. Capacity - 1 /\ s \in 0 .. Capacity - 1
        /\ count \in 0 .. Capacity
    BY <1>1, RingAssumption DEF IInv, TypeOK, Slots
  <2>2. k \in 0 .. Capacity - 1
    BY <2>1
  <2>3. SlotOf(k) = s
    <3>1. SlotOf(k) = IF head + k < Capacity THEN head + k ELSE head + k - Capacity
      <4> HIDE DEF k
      <4> QED
        BY <2>1, <2>2 DEF SlotOf
    <3> QED
      BY <2>1, <3>1
  <2>4. ASSUME NEW i \in 0 .. Capacity - 1, SlotOf(i) = s
        PROVE  i = k
    <3>1. SlotOf(i) = IF head + i < Capacity THEN head + i ELSE head + i - Capacity
      BY <2>1 DEF SlotOf
    <3> QED
      BY <2>1, <2>4, <3>1
  <2> HIDE DEF k
  <2>5. CASE k < count
    <3>1. pkts[s] # Empty
      <4>1. k \in 0 .. count - 1 /\ k + 1 \in 1 .. count
        BY <2>1, <2>2, <2>5
      <4>2. Window[k + 1] \in Stored
        BY <1>1, <4>1, WindowIsTail DEF IInv
      <4>3. Window[k + 1] = pkts[s]
        BY <2>2, <2>3, <4>1 DEF Window
      <4> QED
        BY <4>2, <4>3 DEF Stored, Empty
    <3>2. PICK i \in 1 .. count : i - 1 = k
      BY <2>1, <2>2, <2>5
    <3>3. SlotOf(i - 1) = s
      BY <2>3, <3>2
    <3> QED
      BY <3>1, <3>3
  <2>6. CASE k >= count
    <3>1. k \in count .. Capacity - 1
      BY <2>1, <2>2, <2>6
    <3>2. pkts[s] = Empty
      BY <1>1, <2>3, <3>1 DEF IInv, Ring, FreeSlots
    <3>3. \A i \in 1 .. count : SlotOf(i - 1) # s
      BY <2>1, <2>2, <2>4, <2>6
    <3> QED
      BY <3>2, <3>3
  <2> QED
    BY <2>1, <2>2, <2>5, <2>6
<1>2. IInv => FreeSlotsOwnNothing
  BY <1>1 DEF FreeSlotsOwnNothing
<1> QED
  BY <1>2, Invariance, PTL

-----------------------------------------------------------------------------
(* The mutex and the clock.                                                 *)

(* Whoever is inside an operation holds the mutex, and only ring_push has   *)
(* more than one stage under it.                                            *)
Locked ==
  /\ \A t \in Threads : pc[t] \in {"prune", "evict", "store"} => holder = t
  /\ \A t \in {"main", "clip"} : pc[t] \notin {"locking", "evict", "store"}

(* The log is ordered by stored_mono_ms: ring_push reads the clock before   *)
(* it takes the mutex, but it is the only thread that stores.               *)
Ordered ==
  /\ \A t \in Threads : now[t] <= mono
  /\ \A i \in 1 .. Len(log) :
       /\ log[i].p.stored_mono_ms <= mono
       /\ pc["rtsp"] # "idle" => log[i].p.stored_mono_ms <= now["rtsp"]
  /\ \A i, j \in 1 .. Len(log) :
       i <= j => log[i].p.stored_mono_ms <= log[j].p.stored_mono_ms

TInv == Locked /\ Ordered

(* Initially nobody is inside and nothing is logged.                        *)
LEMMA InitTInv == Init => TInv
  BY DEF Init, TInv, Locked, Ordered, Threads

(* The mutex excludes.                                                      *)
LEMMA LockedStep ==
  ASSUME IInv, Locked, [Next]_vars
  PROVE  Locked'
<1>0. /\ pc \in [Threads -> {"idle", "locking", "prune", "evict", "store", "using"}]
      /\ holder \in Threads \cup {Free} /\ Free \notin Threads
  BY DEF IInv, TypeOK, Free, Threads
<1>1. CASE Tick \/ SnapshotFree \/ PushReadClock \/ UNCHANGED vars
  BY <1>0, <1>1 DEF Locked, Tick, SnapshotFree, PushReadClock, Goto, vars, Threads
<1>2. CASE PushLock
  BY <1>0, <1>2 DEF Locked, PushLock, Goto, Threads, Free
<1>3. CASE PushOversize \/ PushAllocFails \/ PushStore
  BY <1>0, <1>3 DEF Locked, PushOversize, PushAllocFails, PushStore, PruneDone, ReadyToStore,
                    Unlock, Goto, Threads, Free
<1>4. CASE PushEvictBytes \/ PushEvictCount
  BY <1>0, <1>4 DEF Locked, PushEvictBytes, PushEvictCount, PruneDone, Goto, Threads
<1>5. ASSUME NEW t \in Threads, PruneOne(t)
      PROVE  Locked'
  BY <1>5 DEF Locked, PruneOne
<1>6. ASSUME NEW t \in {"main", "clip"}, LockAndReadClock(t)
      PROVE  Locked'
  BY <1>0, <1>6 DEF Locked, LockAndReadClock, Goto, Threads, Free
<1>7. CASE PruneReturn \/ SnapshotCopy
  BY <1>0, <1>7 DEF Locked, PruneReturn, SnapshotCopy, PruneDone, Unlock, Goto, Threads, Free
<1> QED
  BY <1>1, <1>2, <1>3, <1>4, <1>5, <1>6, <1>7 DEF Next, Push, Prune, Snapshot, Threads

(* The log stays ordered.                                                   *)
LEMMA OrderedStep ==
  ASSUME IInv, TInv, [Next]_vars
  PROVE  Ordered'
<1>0. /\ pc \in [Threads -> {"idle", "locking", "prune", "evict", "store", "using"}]
      /\ now \in [Threads -> Nat] /\ mono \in Nat
      /\ log \in Seq([p : Stored, upto : Nat]) /\ Len(log) \in Nat
  BY DEF IInv, TypeOK
<1>a. \A i \in 1 .. Len(log) : log[i].p.stored_mono_ms \in Nat
  BY LogTypes DEF IInv
<1>b. Ordered
  BY DEF TInv
<1>1. CASE Tick
  <2>1. mono' = mono + 1 /\ now' = now /\ log' = log /\ pc' = pc
    BY <1>1 DEF Tick
  <2>2. \A u \in Threads : now'[u] <= mono'
    BY <1>0, <1>b, <2>1 DEF Ordered
  <2>3. \A i \in 1 .. Len(log) : log[i].p.stored_mono_ms <= mono'
    BY <1>0, <1>a, <1>b, <2>1 DEF Ordered
  <2> QED
    BY <1>b, <2>1, <2>2, <2>3 DEF Ordered
<1>2. CASE PushReadClock
  <2>1. now'["rtsp"] = mono /\ log' = log /\ mono' = mono
    BY <1>0, <1>2 DEF PushReadClock, Threads
  <2>2. \A u \in Threads : now'[u] <= mono
    BY <1>0, <1>b, <1>2 DEF Ordered, PushReadClock, Threads
  <2> QED
    BY <1>b, <2>1, <2>2 DEF Ordered
<1>3. CASE PushLock \/ PushEvictBytes \/ PushEvictCount
  <2>1. /\ log' = log /\ now' = now /\ mono' = mono /\ pc["rtsp"] # "idle"
    BY <1>3 DEF PushLock, PushEvictBytes, PushEvictCount, PruneDone
  <2> QED
    BY <1>b, <2>1 DEF Ordered
<1>4. CASE PushOversize \/ PushAllocFails
  <2>1. /\ log' = log /\ mono' = mono /\ now' = [now EXCEPT !["rtsp"] = 0]
        /\ pc' = [pc EXCEPT !["rtsp"] = "idle"]
    BY <1>4 DEF PushOversize, PushAllocFails, Unlock, Goto
  <2> QED
    BY <1>0, <1>b, <2>1 DEF Ordered, Threads
<1>5. CASE PushStore
  <2> DEFINE p == [size |-> pkt.size, codec |-> pkt.codec, nal |-> pkt.nal,
                   stored_mono_ms |-> now["rtsp"]]
             e == [p |-> p, upto |-> BytesUpTo(Len(log)) + p.size]
  <2>1. /\ mono' = mono /\ now' = [now EXCEPT !["rtsp"] = 0]
        /\ pc' = [pc EXCEPT !["rtsp"] = "idle"] /\ pc["rtsp"] # "idle"
        /\ log' = Append(log, e)
    BY <1>5 DEF PushStore, Unlock, Goto, ReadyToStore, PruneDone
  <2>2. /\ Len(log') = Len(log) + 1 /\ \A i \in 1 .. Len(log) : log'[i] = log[i]
        /\ log'[Len(log) + 1] = e
    BY <1>0, <2>1
  <2>3. e.p.stored_mono_ms = now["rtsp"] /\ now["rtsp"] \in Nat /\ now["rtsp"] <= mono
    BY <1>0, <1>b DEF Ordered, Threads
  <2> HIDE DEF e
  <2>4. \A t \in Threads : now'[t] <= mono'
    BY <1>0, <1>b, <2>1 DEF Ordered
  <2>5. ASSUME NEW i \in 1 .. Len(log')
        PROVE  log'[i].p.stored_mono_ms <= now["rtsp"] /\ log'[i].p.stored_mono_ms <= mono
    <3>1. CASE i = Len(log) + 1
      BY <1>0, <2>2, <2>3, <3>1
    <3>2. CASE i \in 1 .. Len(log)
      BY <1>b, <2>1, <2>2, <3>2 DEF Ordered
    <3> QED
      BY <1>0, <2>2, <3>1, <3>2
  <2>6. ASSUME NEW i \in 1 .. Len(log'), NEW j \in 1 .. Len(log'), i <= j
        PROVE  log'[i].p.stored_mono_ms <= log'[j].p.stored_mono_ms
    <3>1. CASE j = Len(log) + 1
      BY <2>2, <2>3, <2>5, <3>1
    <3>2. CASE j \in 1 .. Len(log)
      <4>1. i \in 1 .. Len(log)
        BY <1>0, <2>2, <2>6, <3>2
      <4> QED
        BY <1>b, <2>2, <2>6, <3>2, <4>1 DEF Ordered
    <3> QED
      BY <1>0, <2>2, <3>1, <3>2
  <2>7. \A i \in 1 .. Len(log') :
          log'[i].p.stored_mono_ms <= mono' /\ pc'["rtsp"] = "idle"
    BY <1>0, <2>1, <2>5 DEF Threads
  <2> QED
    BY <2>4, <2>6, <2>7 DEF Ordered
<1>6. ASSUME NEW t \in Threads, PruneOne(t)
      PROVE  Ordered'
  BY <1>b, <1>6 DEF Ordered, PruneOne
<1>7. ASSUME NEW t \in {"main", "clip"}, LockAndReadClock(t)
      PROVE  Ordered'
  <2>1. /\ now'["rtsp"] = now["rtsp"] /\ pc'["rtsp"] = pc["rtsp"]
        /\ log' = log /\ mono' = mono
    BY <1>0, <1>7 DEF LockAndReadClock, Goto, Threads
  <2>2. \A u \in Threads : now'[u] <= mono
    BY <1>0, <1>b, <1>7 DEF Ordered, LockAndReadClock, Threads
  <2> QED
    BY <1>b, <2>1, <2>2 DEF Ordered
<1>8. CASE PruneReturn \/ SnapshotCopy
  <2>1. PICK t \in {"main", "clip"} : Unlock(t) /\ log' = log /\ mono' = mono
    BY <1>8 DEF PruneReturn, SnapshotCopy
  <2>2. /\ now'["rtsp"] = now["rtsp"] /\ pc'["rtsp"] = pc["rtsp"]
        /\ \A u \in Threads : now'[u] <= mono
    BY <1>0, <1>b, <2>1 DEF Ordered, Unlock, Goto, Threads
  <2> QED
    BY <1>b, <2>1, <2>2 DEF Ordered
<1>9. CASE SnapshotFree \/ UNCHANGED vars
  <2>1. /\ now' = now /\ pc'["rtsp"] = pc["rtsp"] /\ log' = log /\ mono' = mono
    BY <1>0, <1>9 DEF SnapshotFree, Goto, vars, Threads
  <2> QED
    BY <1>b, <2>1 DEF Ordered
<1> QED
  BY <1>1, <1>2, <1>3, <1>4, <1>5, <1>6, <1>7, <1>8, <1>9
     DEF Next, Push, Prune, Snapshot, Threads

(* The mutex and the order of the log, throughout.                          *)
THEOREM TimeInvariance == Spec => []TInv
<1>1. IInv /\ TInv /\ [Next]_vars => TInv'
  BY LockedStep, OrderedStep DEF TInv
<1> QED
  BY <1>1, InitTInv, Invariance, PTL DEF Spec

(* With an ordered log nothing behind an unexpired head has expired.        *)
LEMMA HeadIsOldest ==
  ASSUME IInv, TInv, NEW t \in Threads, PruneDone(t)
  PROVE  \A i \in 1 .. count : ~ Expired(Window[i], now[t])
<1> SUFFICES ASSUME NEW i \in 1 .. count PROVE ~ Expired(Window[i], now[t])
  OBVIOUS
<1> DEFINE a == Evicted + 1
           b == Evicted + i
<1>1. /\ count \in Nat /\ count > 0 /\ Evicted \in Nat /\ now[t] \in Nat /\ RingMs \in Nat
  <2>1. TypeOK /\ Ring
    BY DEF IInv
  <2>2. count \in Nat /\ Evicted \in Nat /\ now[t] \in Nat /\ RingMs \in Nat
    BY <2>1, Counters
  <2>3. count # 0
    BY <2>2
  <2> QED
    BY ONLY <2>2, <2>3
<1>2. Oldest = log[a].p /\ a \in 1 .. Len(log)
  BY <1>1, OldestPacket DEF IInv
<1>3. Window[i] = log[b].p /\ b \in 1 .. Len(log)
  BY WindowIsTail DEF IInv
<1>4. a <= b
  BY <1>1
<1> HIDE DEF a, b
<1>5. log[a].p.stored_mono_ms <= log[b].p.stored_mono_ms
  BY <1>2, <1>3, <1>4 DEF TInv, Ordered
<1>6. log[a].p.stored_mono_ms \in Nat /\ log[b].p.stored_mono_ms \in Nat
  BY <1>2, <1>3, LogTypes DEF IInv
<1>7. ~ Expired(Oldest, now[t])
  BY <1>1 DEF PruneDone
<1>8. ~ Expired(log[a].p, now[t])
  BY <1>2, <1>7
<1>9. ~ Expired(log[b].p, now[t])
  BY ONLY <1>1, <1>5, <1>6, <1>8 DEF Expired
<1> QED
  BY ONLY <1>3, <1>9

(* Pruning that stops at the head leaves nothing expired behind it.         *)
THEOREM PruningIsComplete == Spec => []PruneLeavesNothingExpired
<1>1. IInv /\ TInv => PruneLeavesNothingExpired
  BY HeadIsOldest DEF PruneLeavesNothingExpired
<1> QED
  BY <1>1, Invariance, TimeInvariance, PTL

-----------------------------------------------------------------------------
(* What the ring keeps over time.                                          *)

(* What storing a packet does to the history: the log grows by it, the      *)
(* eviction counters and the clock stay.                                    *)
LEMMA StoreHistory ==
  ASSUME IInv, PushStore
  PROVE  /\ Len(log') = Len(log) + 1 /\ Evicted' = Evicted /\ stats' = stats
         /\ \A i \in 1 .. Len(log) : log'[i] = log[i]
         /\ log'[Len(log) + 1].p.nal = pkt.nal /\ log'[Len(log) + 1].p.codec = pkt.codec
         /\ log'[Len(log) + 1].upto = BytesUpTo(Len(log)) + pkt.size
         /\ mono' = mono /\ pkt' = pkt /\ snap' = snap
         /\ SaveParam(pkt, Len(log) + 1)
<1> DEFINE p == [size |-> pkt.size, codec |-> pkt.codec, nal |-> pkt.nal,
                 stored_mono_ms |-> now["rtsp"]]
           e == [p |-> p, upto |-> BytesUpTo(Len(log)) + p.size]
<1>1. /\ log' = Append(log, e) /\ Store(p) /\ mono' = mono /\ pkt' = pkt /\ snap' = snap
      /\ SaveParam(pkt, Len(log) + 1)
  BY DEF PushStore
<1>2. log \in Seq([p : Stored, upto : Nat]) /\ Len(log) \in Nat
  BY DEF IInv, TypeOK
<1>3. e.p.nal = pkt.nal /\ e.p.codec = pkt.codec /\ e.upto = BytesUpTo(Len(log)) + pkt.size
  OBVIOUS
<1>4. stats' = stats /\ Evicted' = Evicted
  BY <1>1 DEF Store, Evicted
<1> HIDE DEF e
<1>5. Len(log') = Len(log) + 1 /\ \A i \in 1 .. Len(log) : log'[i] = log[i]
  BY <1>1, <1>2
<1>6. log'[Len(log) + 1] = e
  BY <1>1, <1>2
<1> QED
  BY <1>1, <1>3, <1>4, <1>5, <1>6

-----------------------------------------------------------------------------
(* Nothing is evicted too early.                                            *)

(* The packet evicted last, numbered n, and everything behind it, together  *)
(* with a packet of the given size that is about to be stored.              *)
TooMuch(n, size, more) ==
  \/ BytesUpTo(Len(log)) - BytesUpTo(n - 1) + size > MaxBytes
  \/ Len(log) - n + 1 + more > Capacity

(* The packet given up last had expired, or would not fit; while ring_push  *)
(* is making room it would not fit once the packet in hand is stored.       *)
Justified(n) ==
  \/ Expired(log[n].p, mono)
  \/ TooMuch(n, 0, 0)
  \/ pc["rtsp"] \in {"evict", "store"} /\ TooMuch(n, pkt.size, 1)

EvictionJustified == stats.alloc_failures = 0 /\ Evicted > 0 => Justified(Evicted)

(* A step that neither stores nor evicts.                                   *)
LEMMA KeepQuiet ==
  ASSUME IInv, EvictionJustified,
         log' = log, Evicted' = Evicted, mono' >= mono, mono' \in Nat,
         stats'.alloc_failures = stats.alloc_failures,
         pc["rtsp"] \in {"evict", "store"} => pc'["rtsp"] = pc["rtsp"] /\ pkt' = pkt
  PROVE  EvictionJustified'
<1> SUFFICES ASSUME stats.alloc_failures = 0, Evicted > 0
             PROVE  Justified(Evicted)'
  BY DEF EvictionJustified
<1> DEFINE n == Evicted
<1>0. TypeOK /\ Ring
  BY DEF IInv
<1>1. n \in 1 .. Len(log) /\ n' = n
  BY <1>0, Counters
<1>2. Justified(n)
  BY DEF EvictionJustified
<1>3. log[n].p.stored_mono_ms \in Nat /\ mono \in Nat /\ RingMs \in Nat
  <2>1. n \in 0 .. Len(log) /\ n # 0
    BY <1>1
  <2> QED
    BY <1>0, <2>1, LogTypes, Counters
<1>4. BytesUpTo(Len(log))' = BytesUpTo(Len(log)) /\ BytesUpTo(n - 1)' = BytesUpTo(n - 1)
  BY <1>1 DEF BytesUpTo
<1> HIDE DEF n
<1>5. Expired(log[n].p, mono) => Expired(log[n].p, mono')
  BY <1>3 DEF Expired
<1>6. TooMuch(n, 0, 0) => TooMuch(n, 0, 0)'
  BY <1>1, <1>4 DEF TooMuch
<1>7. pc["rtsp"] \in {"evict", "store"} /\ TooMuch(n, pkt.size, 1)
        => pc'["rtsp"] \in {"evict", "store"} /\ TooMuch(n, pkt.size, 1)'
  BY <1>1, <1>4 DEF TooMuch
<1>8. Justified(n)'
  BY <1>1, <1>2, <1>5, <1>6, <1>7 DEF Justified
<1> QED
  BY <1>8 DEF n

(* Evicting one packet is justified by the reason it is counted under.      *)
LEMMA KeepEvict ==
  ASSUME IInv, TInv,
         \/ \E t \in Threads : PruneOne(t)
         \/ PushEvictBytes
         \/ PushEvictCount
  PROVE  EvictionJustified'
<1> DEFINE n == Evicted + 1
<1>0. TypeOK /\ Ring
  BY DEF IInv
<1>1. /\ count > 0 /\ log' = log /\ mono' = mono /\ pkt' = pkt
      /\ \E reason \in {"time", "bytes", "count"} : EvictOldest(reason)
  BY <1>0, RingAssumption DEF PruneOne, PushEvictBytes, PushEvictCount, NoRoom, TypeOK
<1>2. Evicted' = n
  BY <1>0, <1>1, EvictTypes
<1>3. /\ Evicted \in Nat /\ n \in 1 .. Len(log) /\ n - 1 = Evicted
      /\ Oldest = log[n].p
      /\ count \in Nat /\ Evicted + count = Len(log) /\ Len(log) \in Nat
      /\ payload_bytes + BytesUpTo(Evicted) = BytesUpTo(Len(log)) /\ payload_bytes \in Nat
      /\ pkt.size \in Nat /\ mono \in Nat /\ Capacity \in Nat /\ MaxBytes \in Nat /\ RingMs \in Nat
  <2>1. n \in 1 .. Len(log) /\ Oldest = log[n].p
    BY <1>0, <1>1, OldestPacket
  <2>2. payload_bytes + BytesUpTo(Evicted) = BytesUpTo(Len(log))
    BY <1>0 DEF Ring, ByteAccounting
  <2>3. n - 1 = Evicted
    BY <1>0, Counters
  <2> QED
    BY <1>0, <2>1, <2>2, <2>3, Counters
<1>4. BytesUpTo(Evicted) \in Nat /\ BytesUpTo(Len(log)) \in Nat
  <2>1. Evicted \in 0 .. Len(log) /\ Len(log) \in 0 .. Len(log)
    BY <1>3
  <2> QED
    BY <1>0, <2>1, LogTypes
<1> SUFFICES Justified(Evicted)'
  BY DEF EvictionJustified
<1> HIDE DEF n
<1>5. ASSUME NEW t \in Threads, PruneOne(t)
      PROVE  Expired(log[n].p, mono)
  <2>1. Expired(log[n].p, now[t])
    BY <1>3, <1>5 DEF PruneOne
  <2>2. now[t] <= mono /\ now[t] \in Nat
    BY <1>0 DEF TInv, Ordered, TypeOK
  <2>3. log[n].p.stored_mono_ms \in Nat
    <3>1. n \in 0 .. Len(log) /\ n # 0
      BY <1>3
    <3> QED
      BY <1>0, <3>1, LogTypes
  <2>4. mono \in Nat /\ RingMs \in Nat
    BY <1>3
  <2> QED
    BY ONLY <2>1, <2>2, <2>3, <2>4 DEF Expired
<1>6. CASE PushEvictBytes
  <2>1. pc'["rtsp"] = "evict" /\ payload_bytes > MaxBytes - pkt.size
    BY <1>0, <1>6 DEF PushEvictBytes, NoRoom, Goto, TypeOK, Threads
  <2>2. BytesUpTo(Len(log)) - BytesUpTo(n - 1) + pkt.size > MaxBytes
    BY <1>3, <1>4, <2>1
  <2> QED
    BY <1>1, <1>2, <2>1, <2>2 DEF Justified, TooMuch, BytesUpTo
<1>7. CASE PushEvictCount
  <2>1. pc'["rtsp"] = "store" /\ count = Capacity
    BY <1>0, <1>7 DEF PushEvictCount, Goto, TypeOK, Threads
  <2>2. Len(log) - n + 1 + 1 > Capacity
    BY <1>3, <2>1 DEF n
  <2> QED
    BY <1>1, <1>2, <2>1, <2>2 DEF Justified, TooMuch
<1>8. Expired(log[n].p, mono) => Justified(Evicted)'
  BY <1>1, <1>2 DEF Justified
<1> QED
  BY <1>5, <1>6, <1>7, <1>8

(* Storing turns "would not fit with the packet in hand" into "does not     *)
(* fit".                                                                    *)
LEMMA KeepStore ==
  ASSUME IInv, EvictionJustified, PushStore
  PROVE  EvictionJustified'
<1> DEFINE n == Evicted
           L == Len(log)
<1>0. TypeOK /\ Ring
  BY DEF IInv
<1>1. /\ Len(log') = L + 1 /\ Evicted' = n /\ stats' = stats /\ mono' = mono
      /\ \A i \in 1 .. L : log'[i] = log[i]
      /\ log'[L + 1].upto = BytesUpTo(L) + pkt.size
  BY StoreHistory
<1> SUFFICES ASSUME stats.alloc_failures = 0, Evicted > 0
             PROVE  Justified(Evicted)'
  BY <1>1 DEF EvictionJustified
<1>2. n \in 1 .. L /\ L \in Nat /\ pkt.size \in Nat \ {0}
      /\ Capacity \in Nat /\ MaxBytes \in Nat
  <2>1. pkt.size # 0
    BY <1>0 DEF TypeOK, PacketType
  <2>2. n \in 1 .. L
    BY <1>0, Counters
  <2> QED
    BY <1>0, <2>1, <2>2, Counters
<1>3. BytesUpTo(n - 1) \in Nat /\ BytesUpTo(L) \in Nat
  <2>1. n - 1 \in 0 .. L /\ L \in 0 .. L
    BY <1>2
  <2> QED
    BY <1>0, <2>1, LogTypes
<1>4. /\ BytesUpTo(Len(log))' = BytesUpTo(L) + pkt.size
      /\ BytesUpTo(n - 1)' = BytesUpTo(n - 1)
  <2>1. n - 1 = 0 \/ n - 1 \in 1 .. L
    BY <1>2
  <2>2. BytesUpTo(n - 1)' = BytesUpTo(n - 1)
    BY <1>1, <2>1 DEF BytesUpTo
  <2>3. BytesUpTo(Len(log))' = log'[L + 1].upto
    BY <1>1, <1>2 DEF BytesUpTo
  <2> QED
    BY <1>1, <2>2, <2>3
<1>5. Justified(n)
  BY DEF EvictionJustified
<1>6. Expired(log[n].p, mono) => Expired(log'[n].p, mono')
  BY <1>1, <1>2
<1>7. TooMuch(n, 0, 0) \/ TooMuch(n, pkt.size, 1) => TooMuch(n, 0, 0)'
  <2>1. BytesUpTo(L) - BytesUpTo(n - 1) + 0 > MaxBytes
          => BytesUpTo(Len(log))' - BytesUpTo(n - 1)' + 0 > MaxBytes
    BY <1>2, <1>3, <1>4
  <2>2. BytesUpTo(L) - BytesUpTo(n - 1) + pkt.size > MaxBytes
          => BytesUpTo(Len(log))' - BytesUpTo(n - 1)' + 0 > MaxBytes
    BY <1>2, <1>3, <1>4
  <2>3. L - n + 1 + 0 > Capacity \/ L - n + 1 + 1 > Capacity
          => Len(log') - n + 1 + 0 > Capacity
    BY <1>1, <1>2
  <2> QED
    BY <1>1, <2>1, <2>2, <2>3 DEF TooMuch
<1> QED
  BY <1>1, <1>5, <1>6, <1>7 DEF Justified

(* The eviction invariant is inductive.                                     *)
LEMMA KeepStep ==
  ASSUME IInv, TInv, EvictionJustified, [Next]_vars
  PROVE  EvictionJustified'
<1>0. /\ pc \in [Threads -> {"idle", "locking", "prune", "evict", "store", "using"}]
      /\ stats \in [{"time", "bytes", "count", "oversize", "alloc_failures"} -> Nat]
      /\ mono \in Nat
  BY DEF IInv, TypeOK
<1>1. CASE \/ Tick \/ PushReadClock \/ PushLock \/ PruneReturn \/ SnapshotCopy \/ SnapshotFree
           \/ (\E t \in {"main", "clip"} : LockAndReadClock(t)) \/ UNCHANGED vars
  <2>1. /\ log' = log /\ stats' = stats /\ mono' \in Nat /\ mono' >= mono
        /\ pc["rtsp"] \in {"evict", "store"} => pc'["rtsp"] = pc["rtsp"] /\ pkt' = pkt
    BY <1>0, <1>1 DEF Tick, PushReadClock, PushLock, PruneReturn, SnapshotCopy, SnapshotFree,
                      LockAndReadClock, Unlock, Goto, ringVars, vars, Threads
  <2>2. Evicted' = Evicted
    BY <2>1 DEF Evicted
  <2> QED
    BY <2>1, <2>2, KeepQuiet
<1>2. CASE PushOversize
  <2>1. /\ log' = log /\ mono' = mono /\ pc["rtsp"] = "prune"
        /\ stats' = [stats EXCEPT !.oversize = @ + 1]
    BY <1>2 DEF PushOversize, PruneDone
  <2>2. Evicted' = Evicted /\ stats'.alloc_failures = stats.alloc_failures
    BY <1>0, <2>1 DEF Evicted
  <2> QED
    BY <1>0, <2>1, <2>2, KeepQuiet
<1>3. CASE PushAllocFails
  <2>1. stats'.alloc_failures # 0
    BY <1>0, <1>3 DEF PushAllocFails
  <2> QED
    BY <2>1 DEF EvictionJustified
<1> QED
  BY <1>1, <1>2, <1>3, KeepEvict, KeepStore DEF Next, Push, Prune, Snapshot, Threads

(* The ring throws away no more than it must: what it evicted last had      *)
(* expired or would not fit the byte or the slot limit.                     *)
THEOREM EvictsNoMoreThanNeeded == Spec => []KeepsLongestSuffix
<1>1. Init => EvictionJustified
  BY DEF Init, EvictionJustified, Evicted
<1>2. IInv /\ TInv /\ EvictionJustified /\ [Next]_vars => EvictionJustified'
  BY KeepStep
<1>3. IInv /\ TInv /\ EvictionJustified => KeepsLongestSuffix
  <2> SUFFICES ASSUME IInv, TInv, EvictionJustified,
                      holder = Free, stats.alloc_failures = 0, Evicted > 0
               PROVE  \/ Expired(log[Evicted].p, mono)
                      \/ BytesUpTo(Len(log)) - BytesUpTo(Evicted - 1) > MaxBytes
                      \/ Len(log) - Evicted + 1 > Capacity
    BY DEF KeepsLongestSuffix
  <2> DEFINE n == Evicted
  <2>1. pc["rtsp"] \notin {"evict", "store"}
    BY DEF TInv, Locked, Threads, Free
  <2>2. Expired(log[n].p, mono) \/ TooMuch(n, 0, 0)
    BY <2>1 DEF EvictionJustified, Justified
  <2>3. n \in 1 .. Len(log) /\ Len(log) \in Nat
    BY RingAssumption DEF IInv, TypeOK, Ring, Evicted
  <2>4. BytesUpTo(n - 1) \in Nat /\ BytesUpTo(Len(log)) \in Nat
    <3>1. n - 1 \in 0 .. Len(log) /\ Len(log) \in 0 .. Len(log)
      BY <2>3
    <3> QED
      BY <3>1, LogTypes DEF IInv
  <2> HIDE DEF n
  <2>5. TooMuch(n, 0, 0) => \/ BytesUpTo(Len(log)) - BytesUpTo(n - 1) > MaxBytes
                            \/ Len(log) - n + 1 > Capacity
    BY <2>3, <2>4 DEF TooMuch
  <2> QED
    BY <2>2, <2>5 DEF n
<1> QED
  BY <1>1, <1>2, <1>3, Invariance, TimeInvariance, PTL DEF Spec

-----------------------------------------------------------------------------
(* A snapshot misses nothing.                                               *)

(* As long as the limits pushed nothing out, every packet that left had     *)
(* expired, also by the clock of whoever prunes now: that clock was read    *)
(* with the mutex held.                                                     *)
Gone(n) ==
  /\ Expired(log[n].p, mono)
  /\ \A t \in {"main", "clip"} : pc[t] = "prune" => Expired(log[n].p, now[t])

LeftExpired == stats.bytes + stats.count = 0 => \A n \in 1 .. Evicted : Gone(n)

(* A step that evicts nothing.                                              *)
LEMMA GoneQuiet ==
  ASSUME IInv, LeftExpired,
         stats'.bytes = stats.bytes, stats'.count = stats.count, Evicted' = Evicted,
         \A n \in 1 .. Len(log) : log'[n] = log[n],
         mono' \in Nat, mono' >= mono,
         \A t \in {"main", "clip"} :
           pc'[t] = "prune" => \/ pc[t] = "prune" /\ now'[t] = now[t]
                               \/ now'[t] = mono
  PROVE  LeftExpired'
<1> SUFFICES ASSUME stats.bytes + stats.count = 0, NEW n \in 1 .. Evicted
             PROVE  /\ Expired(log'[n].p, mono')
                    /\ \A t \in {"main", "clip"} :
                         pc'[t] = "prune" => Expired(log'[n].p, now'[t])
  BY DEF LeftExpired, Gone
<1>1. n \in 1 .. Len(log) /\ log'[n] = log[n]
  <2>1. Evicted \in Nat /\ count \in Nat /\ Evicted + count = Len(log) /\ Len(log) \in Nat
    BY RingAssumption DEF IInv, TypeOK, Ring, Evicted
  <2>2. n \in 1 .. Len(log)
    BY <2>1
  <2> QED
    BY <2>2
<1>2. Gone(n)
  BY DEF LeftExpired
<1>3. log[n].p.stored_mono_ms \in Nat /\ mono \in Nat /\ RingMs \in Nat
  BY <1>1, LogTypes, RingAssumption DEF IInv, TypeOK
<1>4. Expired(log[n].p, mono')
  BY <1>2, <1>3 DEF Gone, Expired
<1> QED
  BY <1>1, <1>2, <1>4 DEF Gone

(* Pruning one packet: it had expired by the clock of the pruning thread,   *)
(* and the mutex keeps the others out.                                      *)
LEMMA GonePruned ==
  ASSUME IInv, TInv, LeftExpired, NEW t \in Threads, PruneOne(t)
  PROVE  LeftExpired'
<1>1. /\ count > 0 /\ EvictOldest("time") /\ log' = log /\ mono' = mono /\ now' = now
      /\ pc' = pc /\ pc[t] = "prune" /\ Expired(Oldest, now[t])
  BY DEF PruneOne
<1>2. /\ Evicted' = Evicted + 1 /\ Evicted \in Nat
      /\ stats'.bytes = stats.bytes /\ stats'.count = stats.count
  <2>1. stats' = [stats EXCEPT !["time"] = @ + 1]
    BY <1>1 DEF EvictOldest
  <2>2. stats \in [{"time", "bytes", "count", "oversize", "alloc_failures"} -> Nat]
    BY DEF IInv, TypeOK
  <2>3. stats'.bytes = stats.bytes /\ stats'.count = stats.count
    BY <2>1, <2>2
  <2>4. Evicted \in Nat /\ Evicted' = Evicted + 1
    BY <2>1, <2>2 DEF Evicted
  <2> QED
    BY <2>3, <2>4
<1> DEFINE m == Evicted + 1
<1>3. m \in 1 .. Len(log) /\ Oldest = log[m].p
  BY <1>1, OldestPacket DEF IInv
<1> HIDE DEF m
<1>4. Expired(log[m].p, mono)
  <2>1. now[t] <= mono /\ now[t] \in Nat /\ mono \in Nat /\ RingMs \in Nat
    BY RingAssumption DEF TInv, Ordered, IInv, TypeOK
  <2>2. log[m].p.stored_mono_ms \in Nat
    BY <1>3, LogTypes DEF IInv
  <2> QED
    BY <1>1, <1>3, <2>1, <2>2 DEF Expired
<1>5. \A u \in {"main", "clip"} : pc[u] = "prune" => Expired(log[m].p, now[u])
  <2>1. \A u \in {"main", "clip"} : pc[u] = "prune" => u = t
    BY <1>1 DEF TInv, Locked, Threads
  <2> QED
    BY <1>1, <1>3, <2>1
<1>6. \A n \in 1 .. Evicted + 1 : n = m \/ n \in 1 .. Evicted
  BY <1>2 DEF m
<1> QED
  BY <1>1, <1>2, <1>4, <1>5, <1>6 DEF LeftExpired, Gone

(* The snapshot invariant is inductive.                                     *)
LEMMA GoneStep ==
  ASSUME IInv, TInv, LeftExpired, [Next]_vars
  PROVE  LeftExpired'
<1>0. /\ pc \in [Threads -> {"idle", "locking", "prune", "evict", "store", "using"}]
      /\ stats \in [{"time", "bytes", "count", "oversize", "alloc_failures"} -> Nat]
      /\ mono \in Nat /\ now \in [Threads -> Nat]
  BY DEF IInv, TypeOK
<1>1. CASE \/ Tick \/ PushReadClock \/ PushLock \/ PruneReturn \/ SnapshotCopy \/ SnapshotFree
           \/ UNCHANGED vars
  <2>1. /\ log' = log /\ stats' = stats /\ mono' \in Nat /\ mono' >= mono
        /\ \A t \in {"main", "clip"} :
             pc'[t] = "prune" => pc[t] = "prune" /\ now'[t] = now[t]
    <3>1. log' = log /\ stats' = stats /\ mono' \in Nat /\ mono' >= mono
      BY <1>0, <1>1 DEF Tick, PushReadClock, PushLock, PruneReturn, SnapshotCopy, SnapshotFree,
                        ringVars, vars
    <3>2. ASSUME NEW t \in {"main", "clip"}, pc'[t] = "prune"
          PROVE  pc[t] = "prune" /\ now'[t] = now[t]
      <4>1. CASE Tick \/ PruneReturn \/ SnapshotCopy \/ SnapshotFree \/ UNCHANGED vars
        BY <1>0, <3>2, <4>1 DEF Tick, PruneReturn, SnapshotCopy, SnapshotFree, Unlock, Goto,
                                vars, Threads
      <4>2. CASE PushReadClock \/ PushLock
        BY <1>0, <3>2, <4>2 DEF PushReadClock, PushLock, Goto, Threads
      <4> QED
        BY <1>1, <4>1, <4>2
    <3> QED
      BY <3>1, <3>2
  <2>2. Evicted' = Evicted
    BY <2>1 DEF Evicted
  <2> QED
    BY <2>1, <2>2, GoneQuiet
<1>2. ASSUME NEW t \in {"main", "clip"}, LockAndReadClock(t)
      PROVE  LeftExpired'
  <2>1. /\ log' = log /\ stats' = stats /\ mono' = mono
        /\ \A u \in {"main", "clip"} :
             pc'[u] = "prune" => \/ pc[u] = "prune" /\ now'[u] = now[u]
                                 \/ now'[u] = mono
    BY <1>0, <1>2 DEF LockAndReadClock, Goto, ringVars, Threads
  <2>2. Evicted' = Evicted
    BY <2>1 DEF Evicted
  <2> QED
    BY <1>0, <2>1, <2>2, GoneQuiet
<1>3. CASE PushOversize \/ PushAllocFails
  <2>1. /\ log' = log /\ mono' = mono
        /\ \A t \in {"main", "clip"} :
             pc'[t] = "prune" => pc[t] = "prune" /\ now'[t] = now[t]
    BY <1>0, <1>3 DEF PushOversize, PushAllocFails, Unlock, Goto, Threads
  <2>2. Evicted' = Evicted /\ stats'.bytes = stats.bytes /\ stats'.count = stats.count
    BY <1>0, <1>3 DEF PushOversize, PushAllocFails, Evicted
  <2> QED
    BY <1>0, <2>1, <2>2, GoneQuiet
<1>4. CASE PushStore
  <2>1. /\ mono' = mono /\ stats' = stats /\ Evicted' = Evicted
        /\ \A n \in 1 .. Len(log) : log'[n] = log[n]
    BY <1>4, StoreHistory
  <2>2. \A t \in {"main", "clip"} :
          pc'[t] = "prune" => pc[t] = "prune" /\ now'[t] = now[t]
    BY <1>0, <1>4 DEF PushStore, Unlock, Goto, Threads
  <2> QED
    BY <1>0, <2>1, <2>2, GoneQuiet
<1>5. CASE PushEvictBytes \/ PushEvictCount
  <2>1. EvictOldest("bytes") \/ EvictOldest("count")
    BY <1>5 DEF PushEvictBytes, PushEvictCount
  <2>2. stats'.bytes + stats'.count # 0
    BY <1>0, <2>1 DEF EvictOldest
  <2> QED
    BY <2>2 DEF LeftExpired
<1> QED
  BY <1>1, <1>2, <1>3, <1>4, <1>5, GonePruned DEF Next, Push, Prune, Snapshot, Threads

(* A snapshot hands over every packet accepted in the last ring_seconds     *)
(* that the limits did not push out, and none older.                        *)
THEOREM SnapshotsAreComplete == Spec => SnapshotIsComplete
<1>1. Init => LeftExpired
  BY DEF Init, LeftExpired, Evicted
<1>2. IInv /\ TInv /\ LeftExpired /\ [Next]_vars => LeftExpired'
  BY GoneStep
<1>3. ASSUME IInv, TInv, LeftExpired, [Next]_vars,
             snap' # snap, snap' # << >>, stats.bytes + stats.count = 0
      PROVE  /\ \A i \in DOMAIN snap' : ~ Expired(snap'[i], now["clip"])
             /\ \A j \in DOMAIN log :
                   ~ Expired(log[j].p, now["clip"]) =>
                     /\ j > Len(log) - Len(snap')
                     /\ snap'[j + Len(snap') - Len(log)] = log[j].p
  <2>1. SnapshotCopy
    BY <1>3 DEF Next, Push, Prune, Snapshot, Tick, PushReadClock, PushLock, PruneOne, PushOversize,
                PushEvictBytes, PushEvictCount, PushAllocFails, PushStore, LockAndReadClock,
                PruneReturn, SnapshotFree, vars
  <2>2. snap' = Window /\ PruneDone("clip") /\ pc["clip"] = "prune"
    BY <1>3, <2>1 DEF SnapshotCopy, PruneDone
  <2>3. /\ Len(Window) = count /\ DOMAIN Window = 1 .. count
        /\ \A i \in 1 .. count : Window[i] = log[Evicted + i].p
    BY <1>3, WindowIsTail DEF IInv, Window
  <2>4. /\ Evicted \in Nat /\ count \in Nat /\ Len(log) \in Nat /\ Evicted + count = Len(log)
        /\ DOMAIN log = 1 .. Len(log)
    BY <1>3, RingAssumption DEF IInv, TypeOK, Ring, Evicted
  <2>5. \A i \in DOMAIN snap' : ~ Expired(snap'[i], now["clip"])
    BY <1>3, <2>2, <2>3, HeadIsOldest DEF Threads
  <2>6. ASSUME NEW j \in DOMAIN log, ~ Expired(log[j].p, now["clip"])
        PROVE  /\ j > Len(log) - Len(snap')
               /\ snap'[j + Len(snap') - Len(log)] = log[j].p
    <3>1. j \in 1 .. Len(log)
      BY <2>4, <2>6
    <3>2. j \notin 1 .. Evicted
      BY <1>3, <2>2, <2>6 DEF LeftExpired, Gone
    <3>3. PICK i \in 1 .. count : i = j - Evicted
      BY <2>4, <3>1, <3>2
    <3>4. j = Evicted + i /\ j + count - Len(log) = i /\ j > Len(log) - count
      BY <2>4, <3>1, <3>3
    <3>5. Window[i] = log[j].p
      BY <2>3, <3>4
    <3> QED
      BY <2>2, <2>3, <3>4, <3>5
  <2> QED
    BY <2>5, <2>6
<1>4. IInv /\ TInv /\ LeftExpired /\ [Next]_vars =>
        [ (snap' # snap /\ snap' # << >> /\ stats.bytes + stats.count = 0) =>
            /\ \A i \in DOMAIN snap' : ~ Expired(snap'[i], now["clip"])
            /\ \A j \in DOMAIN log :
                  ~ Expired(log[j].p, now["clip"]) =>
                    /\ j > Len(log) - Len(snap')
                    /\ snap'[j + Len(snap') - Len(log)] = log[j].p ]_vars
  BY <1>3
<1> QED
  BY <1>1, <1>2, <1>4, Invariance, TimeInvariance, PTL DEF Spec, SnapshotIsComplete

-----------------------------------------------------------------------------
(* The saved parameter sets.                                                *)

(* The parameter sets of a kind that the stream has brought.                *)
SetsOf(k) == {i \in DOMAIN log : log[i].p.nal = k /\ IsParamSet(log[i].p)}

(* Storing a packet adds its number to the sets of its kind, if it is one.  *)
LEMMA SetsGrow ==
  ASSUME IInv, PushStore, NEW k \in ParamKinds
  PROVE  SetsOf(k)' = IF pkt.nal = k /\ IsParamSet(pkt)
                      THEN SetsOf(k) \cup {Len(log) + 1}
                      ELSE SetsOf(k)
<1> DEFINE L == Len(log)
<1>1. /\ Len(log') = L + 1 /\ L \in Nat
      /\ DOMAIN log = 1 .. L /\ DOMAIN log' = 1 .. L + 1
  <2>1. log \in Seq([p : Stored, upto : Nat]) /\ log' \in Seq([p : Stored, upto : Nat])
    BY StoreStep DEF IInv, TypeOK
  <2>2. Len(log') = L + 1
    BY StoreHistory
  <2> QED
    BY <2>1, <2>2
<1>2. /\ \A i \in 1 .. L : log'[i] = log[i]
      /\ log'[L + 1].p.nal = pkt.nal /\ log'[L + 1].p.codec = pkt.codec
  BY StoreHistory
<1>3. IsParamSet(log'[L + 1].p) <=> IsParamSet(pkt)
  BY <1>2 DEF IsParamSet
<1>4. SetsOf(k)' = {i \in 1 .. L + 1 : log'[i].p.nal = k /\ IsParamSet(log'[i].p)}
  BY <1>1 DEF SetsOf, IsParamSet
<1>5. SetsOf(k) = {i \in 1 .. L : log[i].p.nal = k /\ IsParamSet(log[i].p)}
  BY <1>1 DEF SetsOf
<1>6. \A i \in 1 .. L + 1 : i = L + 1 \/ i \in 1 .. L
  BY <1>1
<1> HIDE DEF L
<1>7. \A i \in 1 .. L : i # L + 1 /\ i \in 1 .. L + 1
  BY <1>1
<1>8. L + 1 \in 1 .. L + 1
  BY <1>1
<1>9. SetsOf(k)' = IF pkt.nal = k /\ IsParamSet(pkt)
                   THEN SetsOf(k) \cup {L + 1}
                   ELSE SetsOf(k)
  BY <1>2, <1>3, <1>4, <1>5, <1>6, <1>7, <1>8
<1> QED
  BY <1>9 DEF L

(* The newest set of a kind stays saved.                                    *)
LEMMA ParamsStep ==
  ASSUME IInv, ParamSetsAreNewest, [Next]_vars
  PROVE  ParamSetsAreNewest'
<1> DEFINE Newest(k) == /\ params[k] = 0 <=> SetsOf(k) = {}
                        /\ SetsOf(k) # {} => /\ params[k] \in SetsOf(k)
                                             /\ \A i \in SetsOf(k) : i <= params[k]
<1>1. ParamSetsAreNewest <=> \A k \in ParamKinds \ lostParam : Newest(k)
  BY DEF ParamSetsAreNewest, SetsOf
<1>2. ParamSetsAreNewest' <=> \A k \in ParamKinds \ lostParam' : Newest(k)'
  BY DEF ParamSetsAreNewest, SetsOf
<1>3. CASE log' = log /\ params' = params /\ lostParam' = lostParam
  BY <1>3 DEF ParamSetsAreNewest
<1>4. CASE PushStore
  <2> SUFFICES ASSUME NEW k \in ParamKinds \ lostParam' PROVE Newest(k)'
    BY <1>2
  <2> DEFINE L == Len(log)
  <2>1. /\ params \in [ParamKinds -> Nat] /\ L \in Nat /\ \A i \in SetsOf(k) : i \in 1 .. L
    BY DEF IInv, TypeOK, SetsOf
  <2>2. SetsOf(k)' = IF pkt.nal = k /\ IsParamSet(pkt) THEN SetsOf(k) \cup {L + 1} ELSE SetsOf(k)
    BY <1>4, SetsGrow
  <2>3. SaveParam(pkt, L + 1)
    BY <1>4, StoreHistory
  <2> HIDE DEF L
  <2>4. CASE pkt.nal = k /\ IsParamSet(pkt)
    <3>1. params'[k] = L + 1
      BY <2>1, <2>3, <2>4 DEF SaveParam
    <3>2. SetsOf(k)' = SetsOf(k) \cup {L + 1}
      BY <2>2, <2>4
    <3>3. \A i \in SetsOf(k)' : i <= L + 1
      BY <2>1, <3>2
    <3> QED
      BY <2>1, <3>1, <3>2, <3>3
  <2>5. CASE ~ (pkt.nal = k /\ IsParamSet(pkt))
    <3>1. params'[k] = params[k] /\ k \notin lostParam
      BY <2>1, <2>3, <2>5 DEF SaveParam
    <3>2. SetsOf(k)' = SetsOf(k)
      BY <2>2, <2>5
    <3>3. Newest(k)
      BY <1>1, <3>1
    <3> QED
      BY <3>1, <3>2, <3>3
  <2> QED
    BY <2>4, <2>5
<1>5. [Next]_vars => PushStore \/ (log' = log /\ params' = params /\ lostParam' = lostParam)
  BY DEF Next, Push, Prune, Snapshot, Tick, PushReadClock, PushLock, PruneOne, PushOversize,
         PushEvictBytes, PushEvictCount, PushAllocFails, LockAndReadClock, EvictOldest,
         PruneReturn, SnapshotCopy, SnapshotFree, ringVars, vars
<1> QED
  BY <1>3, <1>4, <1>5

(* Each saved parameter set is the newest of its kind, however long ago the *)
(* packet that brought it left the ring.                                    *)
THEOREM ParametersSurvive == Spec => []ParamSetsAreNewest
<1>1. Init => ParamSetsAreNewest
  BY DEF Init, ParamSetsAreNewest
<1>2. IInv /\ ParamSetsAreNewest /\ [Next]_vars => ParamSetsAreNewest'
  BY ParamsStep
<1> QED
  BY <1>1, <1>2, Invariance, PTL DEF Spec

(* The ring is exact: it holds the newest packets that were accepted, the   *)
(* bytes it counts are theirs, and the parameter sets it saved beside them  *)
(* are the newest.                                                          *)
THEOREM RingStaysExact == Spec => []RingIsExact
BY HoldsSuffix, BytesAccounted, ParametersSurvive, PTL DEF RingIsExact

=============================================================================
