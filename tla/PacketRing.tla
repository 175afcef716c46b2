----------------------------- MODULE PacketRing -----------------------------
(***************************************************************************)
(* The encoded-packet ring of src/src/ring_buffer.c: a byte- and           *)
(* time-bounded ring of H.264/H.265 access units kept in memory, from      *)
(* which the clip writer cuts the seconds around an event.                 *)
(*                                                                         *)
(* Three threads share it, under one mutex:                                *)
(*   "rtsp"  pushes packets (ring_push), reading the clock BEFORE it takes *)
(*           the mutex;                                                    *)
(*   "main"  prunes it twice a second (ring_prune);                        *)
(*   "clip"  copies it (ring_snapshot).                                    *)
(* The loops that run under the mutex evict one packet per step, so that   *)
(* the byte accounting is the code's own, slot by slot.                    *)
(*                                                                         *)
(* Left out: the CA_DIAG_RING_DISCARD mode and a failing clock (both make  *)
(* an operation do nothing), pts/recv times and the payload itself.        *)
(***************************************************************************)
EXTENDS Naturals, Sequences

CONSTANTS
  Capacity,  (* number of slots, ring_capacity_from_config() in main.c      *)
  MaxBytes,  (* rb->max_bytes, from ring_max_mb                             *)
  RingMs,    (* rb->ring_seconds * 1000                                     *)
  MaxParam,  (* largest parameter set save_param keeps (65536 in the code)  *)
  Packets,   (* the packets the stream may bring: [size, codec, nal]        *)
  MaxPushes, (* bound of the model: calls of ring_push in a behaviour       *)
  MaxTime    (* bound of the model: ticks of the monotonic clock            *)

Codecs == {"h264", "h265"}
ParamKinds == {"vps", "sps", "pps"}
PacketType == [size : Nat \ {0}, codec : Codecs, nal : ParamKinds \cup {"vcl"}]

ASSUME RingAssumption ==
  /\ Capacity \in Nat \ {0}
  /\ MaxBytes \in Nat \ {0}
  /\ RingMs \in Nat \ {0}
  /\ MaxParam \in Nat
  /\ MaxPushes \in Nat
  /\ MaxTime \in Nat
  /\ Packets \subseteq PacketType

Threads == {"rtsp", "main", "clip"}
Free == "free"                 (* nobody holds rb->mutex                    *)
Empty == [size |-> 0]          (* a slot after packet_free                  *)
Slots == 0 .. Capacity - 1

VARIABLES
  mono,          (* CLOCK_MONOTONIC, in milliseconds                        *)
  holder,        (* the thread that holds rb->mutex, or Free                *)
  pc,            (* where each thread is                                    *)
  now,           (* the clock value each thread last read                   *)
  pkt,           (* the packet the rtsp thread is pushing                   *)
  pkts, head, count, payload_bytes, stats, params,     (* fields of rb      *)
  snap,          (* the array the last ring_snapshot returned               *)
  log,           (* history: every packet p stored so far, in order, with   *)
                 (* upto, the bytes stored up to and including it           *)
  lostParam      (* history: kinds whose last set save_param did not keep   *)

ringVars == <<pkts, head, count, payload_bytes, stats, params>>
vars == <<mono, holder, pc, now, pkt, ringVars, snap, log, lostParam>>

Stored == [size : Nat \ {0}, codec : Codecs, nal : ParamKinds \cup {"vcl"},
           stored_mono_ms : Nat]

-----------------------------------------------------------------------------
(* The ring as the code indexes it.                                         *)

SlotOf(i) == (head + i) % Capacity
Oldest == pkts[head]
Evicted == stats.time + stats.bytes + stats.count
Window == [i \in 1 .. count |-> pkts[SlotOf(i - 1)]]

Expired(p, t) == p.stored_mono_ms + RingMs <= t

(* Variant with a plausible bug, to show that a property notices it: the    *)
(* bytes of the packet stay booked.                                         *)
EvictOldest_KeepsBytes(reason) ==
  /\ pkts' = [pkts EXCEPT ![head] = Empty]
  /\ head' = (head + 1) % Capacity
  /\ count' = count - 1
  /\ stats' = [stats EXCEPT ![reason] = @ + 1]
  /\ UNCHANGED <<payload_bytes, params>>

(* evict_oldest: the oldest packet gives back its bytes and its slot.       *)
EvictOldest(reason) ==
  /\ payload_bytes' = payload_bytes - Oldest.size
  /\ pkts' = [pkts EXCEPT ![head] = Empty]
  /\ head' = (head + 1) % Capacity
  /\ count' = count - 1
  /\ stats' = [stats EXCEPT ![reason] = @ + 1]
  /\ UNCHANGED params

Goto(t, label) == pc' = [pc EXCEPT ![t] = label]

(* Every operation ends by unlocking the mutex; the clock value it read is  *)
(* forgotten.                                                               *)
Unlock(t) ==
  /\ holder' = Free
  /\ Goto(t, IF t = "clip" THEN "using" ELSE "idle")
  /\ now' = [now EXCEPT ![t] = 0]

-----------------------------------------------------------------------------

(* The monotonic clock; nothing in the ring changes.                        *)
Tick ==
  /\ mono < MaxTime
  /\ mono' = mono + 1
  /\ UNCHANGED <<holder, pc, now, pkt, ringVars, snap, log, lostParam>>

(* ring_push reads the clock, then asks for the mutex.                      *)
PushReadClock ==
  /\ pc["rtsp"] = "idle"
  /\ Len(log) + stats.oversize + stats.alloc_failures < MaxPushes
  /\ pkt' \in Packets
  /\ now' = [now EXCEPT !["rtsp"] = mono]
  /\ Goto("rtsp", "locking")
  /\ UNCHANGED <<mono, holder, ringVars, snap, log, lostParam>>

PushLock ==
  /\ pc["rtsp"] = "locking"
  /\ holder = Free
  /\ holder' = "rtsp"
  /\ Goto("rtsp", "prune")
  /\ UNCHANGED <<mono, now, pkt, ringVars, snap, log, lostParam>>

(* ring_prune and ring_snapshot read the clock with the mutex held.         *)
LockAndReadClock(t) ==
  /\ pc[t] = "idle"
  /\ holder = Free
  /\ holder' = t
  /\ now' = [now EXCEPT ![t] = mono]
  /\ Goto(t, "prune")
  /\ UNCHANGED <<mono, pkt, ringVars, snap, log, lostParam>>

(* One round of the loop of prune_locked.                                   *)
PruneOne(t) ==
  /\ pc[t] = "prune"
  /\ count > 0
  /\ Expired(Oldest, now[t])
  /\ EvictOldest("time")
  /\ UNCHANGED <<mono, holder, pc, now, pkt, snap, log, lostParam>>

PruneDone(t) == pc[t] = "prune" /\ ~ (count > 0 /\ Expired(Oldest, now[t]))

(* Variant: ring_prune gives the mutex back without pruning.                *)
PruneReturn_Early ==
  /\ pc["main"] = "prune"
  /\ Unlock("main")
  /\ UNCHANGED <<mono, pkt, ringVars, snap, log, lostParam>>

(* ring_prune has nothing left to do.                                       *)
PruneReturn ==
  /\ PruneDone("main")
  /\ Unlock("main")
  /\ UNCHANGED <<mono, pkt, ringVars, snap, log, lostParam>>

(* Variant: the copy is made without pruning first.                         *)
SnapshotCopy_Unpruned ==
  /\ pc["clip"] = "prune"
  /\ snap' \in {Window, << >>}
  /\ Unlock("clip")
  /\ UNCHANGED <<mono, pkt, ringVars, log, lostParam>>

(* ring_snapshot copies the ring; if an allocation fails it frees what it   *)
(* copied and returns nothing.                                              *)
SnapshotCopy ==
  /\ PruneDone("clip")
  /\ snap' \in {Window, << >>}
  /\ Unlock("clip")
  /\ UNCHANGED <<mono, pkt, ringVars, log, lostParam>>

(* The clip writer frees the array it was given (packet_array_free).        *)
SnapshotFree ==
  /\ pc["clip"] = "using"
  /\ snap' = << >>
  /\ Goto("clip", "idle")
  /\ UNCHANGED <<mono, holder, now, pkt, ringVars, log, lostParam>>

(* A packet larger than the whole ring is counted and refused.              *)
PushOversize ==
  /\ PruneDone("rtsp")
  /\ pkt.size > MaxBytes
  /\ stats' = [stats EXCEPT !.oversize = @ + 1]
  /\ Unlock("rtsp")
  /\ UNCHANGED <<mono, pkt, pkts, head, count, payload_bytes, params,
                 snap, log, lostParam>>

(* Variant: off by one, a packet that just fits evicts another.             *)
NoRoom_OffByOne == count > 0 /\ payload_bytes >= MaxBytes - pkt.size

NoRoom == count > 0 /\ payload_bytes > MaxBytes - pkt.size

PushEvictBytes ==
  /\ PruneDone("rtsp") \/ pc["rtsp"] = "evict"
  /\ pkt.size <= MaxBytes
  /\ NoRoom
  /\ EvictOldest("bytes")
  /\ Goto("rtsp", "evict")
  /\ UNCHANGED <<mono, holder, now, pkt, snap, log, lostParam>>

PushEvictCount ==
  /\ PruneDone("rtsp") \/ pc["rtsp"] = "evict"
  /\ pkt.size <= MaxBytes
  /\ ~ NoRoom
  /\ count = Capacity
  /\ EvictOldest("count")
  /\ Goto("rtsp", "store")
  /\ UNCHANGED <<mono, holder, now, pkt, snap, log, lostParam>>

ReadyToStore ==
  \/ pc["rtsp"] = "store"
  \/ /\ PruneDone("rtsp") \/ pc["rtsp"] = "evict"
     /\ pkt.size <= MaxBytes
     /\ ~ NoRoom
     /\ count # Capacity

(* malloc fails: what was evicted is gone and nothing is stored.            *)
PushAllocFails ==
  /\ ReadyToStore
  /\ stats' = [stats EXCEPT !.alloc_failures = @ + 1]
  /\ Unlock("rtsp")
  /\ UNCHANGED <<mono, pkt, pkts, head, count, payload_bytes, params,
                 snap, log, lostParam>>

(* Which saved parameter set a packet replaces: an H.264 stream has no VPS. *)
IsParamSet(p) == p.nal \in ParamKinds /\ ~ (p.codec = "h264" /\ p.nal = "vps")

(* Variant: the first parameter set of a kind is kept for ever.             *)
SaveParam_OnlyFirst(p, id) ==
  \/ /\ IsParamSet(p) /\ p.size <= MaxParam
     /\ params' = [params EXCEPT ![p.nal] = IF @ = 0 THEN id ELSE @]
     /\ lostParam' = lostParam \ {p.nal}
  \/ /\ IsParamSet(p)
     /\ lostParam' = lostParam \cup {p.nal}
     /\ UNCHANGED params
  \/ ~ IsParamSet(p) /\ UNCHANGED <<params, lostParam>>

(* save_param keeps the old copy when the new one is too large or cannot    *)
(* be allocated.                                                            *)
SaveParam(p, id) ==
  \/ /\ IsParamSet(p) /\ p.size <= MaxParam
     /\ params' = [params EXCEPT ![p.nal] = id]
     /\ lostParam' = lostParam \ {p.nal}
  \/ /\ IsParamSet(p)
     /\ lostParam' = lostParam \cup {p.nal}
     /\ UNCHANGED params
  \/ ~ IsParamSet(p) /\ UNCHANGED <<params, lostParam>>

(* Variant: the slot is computed from the head alone.                       *)
Store_AtHead(p) ==
  /\ pkts' = [pkts EXCEPT ![head] = p]
  /\ count' = count + 1
  /\ payload_bytes' = payload_bytes + p.size
  /\ UNCHANGED <<head, stats>>

Store(p) ==
  /\ pkts' = [pkts EXCEPT ![SlotOf(count)] = p]
  /\ count' = count + 1
  /\ payload_bytes' = payload_bytes + p.size
  /\ UNCHANGED <<head, stats>>

BytesUpTo(n) == IF n = 0 THEN 0 ELSE log[n].upto

PushStore ==
  /\ ReadyToStore
  /\ LET p == [size |-> pkt.size, codec |-> pkt.codec, nal |-> pkt.nal,
               stored_mono_ms |-> now["rtsp"]]
     IN  /\ Store(p)
         /\ log' = Append(log, [p |-> p, upto |-> BytesUpTo(Len(log)) + p.size])
  /\ SaveParam(pkt, Len(log) + 1)
  /\ Unlock("rtsp")
  /\ UNCHANGED <<mono, pkt, snap>>

-----------------------------------------------------------------------------
Init ==
  /\ mono = 0
  /\ holder = Free
  /\ pc = [t \in Threads |-> "idle"]
  /\ now = [t \in Threads |-> 0]
  /\ pkt \in Packets
  /\ pkts = [s \in Slots |-> Empty]
  /\ head = 0 /\ count = 0 /\ payload_bytes = 0
  /\ stats = [time |-> 0, bytes |-> 0, count |-> 0,
              oversize |-> 0, alloc_failures |-> 0]
  /\ params = [k \in ParamKinds |-> 0]
  /\ snap = << >>
  /\ log = << >>
  /\ lostParam = {}

Push == \/ PushReadClock \/ PushLock \/ PruneOne("rtsp") \/ PushOversize
        \/ PushEvictBytes \/ PushEvictCount \/ PushAllocFails \/ PushStore
Prune == LockAndReadClock("main") \/ PruneOne("main") \/ PruneReturn
Snapshot == LockAndReadClock("clip") \/ PruneOne("clip") \/ SnapshotCopy \/ SnapshotFree

Next == Tick \/ Push \/ Prune \/ Snapshot

Spec == Init /\ [][Next]_vars

(* The main thread prunes on every turn of its loop, whatever the stream    *)
(* does, and whoever holds the mutex goes on to release it.                 *)
Fairness ==
  /\ WF_vars(Tick)
  /\ SF_vars(LockAndReadClock("main"))
  /\ WF_vars(holder = "rtsp" /\ Push)
  /\ WF_vars(PruneOne("main") \/ PruneReturn)
  /\ WF_vars(PruneOne("clip") \/ SnapshotCopy)

FairSpec == Spec /\ Fairness

-----------------------------------------------------------------------------
(* What the ring promises.                                                  *)

TypeOK ==
  /\ mono \in Nat
  /\ holder \in Threads \cup {Free}
  /\ pc \in [Threads -> {"idle", "locking", "prune", "evict", "store", "using"}]
  /\ now \in [Threads -> Nat]
  /\ pkt \in PacketType
  /\ pkts \in [Slots -> Stored \cup {Empty}]
  /\ head \in Slots
  /\ count \in 0 .. Capacity
  /\ payload_bytes \in Nat
  /\ stats \in [{"time", "bytes", "count", "oversize", "alloc_failures"} -> Nat]
  /\ params \in [ParamKinds -> Nat]
  /\ snap \in Seq(Stored)
  /\ log \in Seq([p : Stored, upto : Nat])
  /\ lostParam \subseteq ParamKinds

(* The ring holds exactly the newest packets it accepted, in the order they *)
(* came, and its eviction counters account for every other one: no packet   *)
(* is lost, duplicated or reordered by the slot arithmetic of ring_push,    *)
(* evict_oldest and prune_locked, through any number of wraps.              *)
RingIsSuffix ==
  /\ Evicted + count = Len(log)
  /\ \A i \in 1 .. count : Window[i] = log[Evicted + i].p

(* payload_bytes is exactly what the packets in the ring weigh, so the      *)
(* unsigned subtraction of evict_oldest never wraps around, and it stays    *)
(* within max_bytes: "upto" telescopes, so the difference is the sum of the *)
(* sizes of the packets still held.                                         *)
ByteAccounting ==
  /\ payload_bytes + BytesUpTo(Evicted) = BytesUpTo(Len(log))
  /\ payload_bytes <= MaxBytes

(* "Always remove ownership before reusing a slot": a slot outside the      *)
(* window owns no payload, so ring_push never overwrites, and leaks, one.   *)
FreeSlotsOwnNothing ==
  \A s \in Slots :
    pkts[s] = Empty <=> \A i \in 1 .. count : SlotOf(i - 1) # s

(* The ring throws away no more than it must: the newest packet it gave up  *)
(* had outlived ring_seconds, or together with the packets behind it would  *)
(* not fit the byte or the slot limit. (A failed malloc, or a push in       *)
(* progress, leaves the ring short.)                                        *)
KeepsLongestSuffix ==
  (holder = Free /\ stats.alloc_failures = 0 /\ Evicted > 0) =>
    \/ Expired(log[Evicted].p, mono)
    \/ BytesUpTo(Len(log)) - BytesUpTo(Evicted - 1) > MaxBytes
    \/ Len(log) - Evicted + 1 > Capacity

(* prune_locked looks only at the head, so it relies on the ring being      *)
(* ordered by stored_mono_ms, although ring_push reads that clock before it *)
(* takes the mutex: pruning that stops at the head leaves nothing expired   *)
(* behind it.                                                               *)
PruneLeavesNothingExpired ==
  \A t \in Threads :
    PruneDone(t) => \A i \in 1 .. count : ~ Expired(Window[i], now[t])

(* A snapshot that succeeds hands over every packet accepted in the last    *)
(* ring_seconds (as long as the limits pushed none out), and none older.    *)
SnapshotIsComplete ==
  [][ (snap' # snap /\ snap' # << >> /\ stats.bytes + stats.count = 0) =>
        /\ \A i \in DOMAIN snap' : ~ Expired(snap'[i], now["clip"])
        /\ \A j \in DOMAIN log :
              ~ Expired(log[j].p, now["clip"]) =>
                /\ j > Len(log) - Len(snap')
                /\ snap'[j + Len(snap') - Len(log)] = log[j].p
    ]_vars

(* The saved parameter sets outlive the ring: each one is the last set of   *)
(* its kind the stream brought, even when the packet itself was evicted     *)
(* long ago, unless save_param could not keep it.                           *)
ParamSetsAreNewest ==
  \A k \in ParamKinds \ lostParam :
    LET ids == {i \in DOMAIN log : log[i].p.nal = k /\ IsParamSet(log[i].p)}
    IN  /\ params[k] = 0 <=> ids = {}
        /\ ids # {} => params[k] \in ids /\ \A i \in ids : i <= params[k]

(* A packet leaves the ring once it has expired, even when the stream stops *)
(* (main.c: "Also expire data when RTSP stops").                            *)
ExpiredLeaves ==
  \A n \in 1 .. MaxPushes :
    (n <= Len(log) /\ Expired(log[n].p, mono)) ~> Evicted >= n

(* What the ring keeps is what it says it keeps: the newest packets, their  *)
(* size, and the newest parameter sets.                                     *)
RingIsExact == RingIsSuffix /\ ByteAccounting /\ ParamSetsAreNewest

=============================================================================
