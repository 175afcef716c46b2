---------------------------- MODULE DaemonProofs ----------------------------
(***************************************************************************)
(* Proofs about four parts of the program on the device.                   *)
(*                                                                         *)
(* ConfirmWindow, for every M-of-N configuration (the function clamps what *)
(* it is given), any array length and any classes, also that it is the     *)
(* sliding window of SlidingConfirm. StartupCleanup, for any files and any *)
(* number of faults. Lifecycle, for any length of the queues and any       *)
(* number of late alarms.                                                  *)
(*                                                                         *)
(* RtspSession and the RtpDepacketizer inside it, for any number and size  *)
(* of units, any lost fragments, failing allocations, and sessions ended   *)
(* at any point: an intact unit arrives whole, and what arrives is of one  *)
(* session and damaged only when something of its first unit was lost. The *)
(* inductive invariant says what the fragment buffer holds (BufferIs).     *)
(***************************************************************************)
EXTENDS ConfirmWindow, StartupCleanup, Lifecycle, RtspSession, FiniteSetTheorems,
        FunctionTheorems, SequenceTheorems, TLAPS

(* The confirmation.                                                       *)

(* After the clamping 1 <= N <= M <= MaxSamples, whatever is configured.    *)
LEMMA Clamped == /\ M \in Nat /\ 1 <= M /\ M <= MaxSamples
                 /\ N \in Nat /\ 1 <= N /\ N <= M
<1>1. M \in Int /\ 1 <= M /\ M <= MaxSamples
  BY ConfirmAssumption DEF M, Clamp
<1>2. N \in Int /\ 1 <= N /\ N <= M
  BY ConfirmAssumption, <1>1 DEF N, Clamp
<1> QED
  BY <1>1, <1>2, ConfirmAssumption

-----------------------------------------------------------------------------
Hits == HitsIn(samples, fill)

(* The samples that count hold fewer hits than have been seen since the     *)
(* last confirmation: none of them is older than that.                      *)
HitsAreRecent == Cardinality(Hits) <= hitsSince

IInv == ConfirmTypeOK /\ IndicesInStep /\ BelowThreshold /\ HitsAreRecent

(* The indices of hits are a finite set.                                    *)
LEMMA HitsFinite ==
  ASSUME NEW s, NEW n \in Nat
  PROVE  IsFiniteSet(HitsIn(s, n)) /\ Cardinality(HitsIn(s, n)) \in Nat
<1>1. IsFiniteSet(0 .. n - 1)
  BY FS_Interval
<1>2. HitsIn(s, n) \in SUBSET (0 .. n - 1)
  BY DEF HitsIn
<1> QED
  BY <1>1, <1>2, FS_Subset, FS_CardinalityType

(* A set that adds at most one element to another.                          *)
LEMMA AtMostOneMore ==
  ASSUME NEW S, IsFiniteSet(S), NEW x, NEW T, T \subseteq S \cup {x}
  PROVE  /\ Cardinality(T) <= Cardinality(S) + 1
         /\ x \notin T => Cardinality(T) <= Cardinality(S)
<1>1. /\ IsFiniteSet(S \cup {x})
      /\ Cardinality(S \cup {x}) <= Cardinality(S) + 1
      /\ Cardinality(S) \in Nat /\ Cardinality(S \cup {x}) \in Nat
  BY FS_AddElement, FS_CardinalityType
<1>2. Cardinality(T) <= Cardinality(S \cup {x}) /\ Cardinality(T) \in Nat
  BY <1>1, FS_Subset, FS_CardinalityType
<1>3. x \notin T => T \subseteq S
  OBVIOUS
<1>4. T \subseteq S => Cardinality(T) <= Cardinality(S)
  BY FS_Subset
<1> QED
  BY <1>1, <1>2, <1>3, <1>4

(* What one frame does to the hits that count: it replaces at most one      *)
(* sample, so it adds at most one hit, and none if it held no target.       *)
LEMMA OneFrame ==
  ASSUME IInv, NEW f \in Sample, samples' = [samples EXCEPT ![next] = f]
  PROVE  /\ Filled \in 1 .. M
         /\ samples' \in [Indices -> Sample]
         /\ Cardinality(Hits) \in Nat
         /\ Cardinality(HitsIn(samples', Filled)) \in Nat
         /\ Cardinality(HitsIn(samples', Filled)) <= Cardinality(Hits) + 1
         /\ ~ f.detected => Cardinality(HitsIn(samples', Filled)) <= Cardinality(Hits)
<1> DEFINE T == HitsIn(samples', Filled)
<1>1. /\ samples \in [Indices -> Sample] /\ next \in 0 .. M - 1 /\ fill \in 0 .. M
      /\ fill < M => next = fill
  BY DEF IInv, ConfirmTypeOK, IndicesInStep
<1>2. Filled \in 1 .. M /\ next \in Indices
  BY <1>1, Clamped, ConfirmAssumption DEF Filled, Indices
<1>3. samples' \in [Indices -> Sample]
  BY <1>1, <1>2
<1>4. \A i \in Indices : samples'[i] = IF i = next THEN f ELSE samples[i]
  BY <1>1, <1>2
<1>5. \A i \in 0 .. Filled - 1 : i \in Indices /\ (i = next \/ i \in 0 .. fill - 1)
  BY <1>1, <1>2, Clamped, ConfirmAssumption DEF Filled, Indices
<1>6. T \subseteq Hits \cup {next}
  BY <1>4, <1>5 DEF HitsIn, Hits
<1>7. ~ f.detected => next \notin T
  BY <1>2, <1>4 DEF HitsIn
<1>8. IsFiniteSet(Hits) /\ Cardinality(Hits) \in Nat
  BY <1>1, Clamped, HitsFinite DEF Hits
<1>9. Cardinality(T) \in Nat
  BY <1>2, Clamped, HitsFinite
<1>10. /\ Cardinality(T) <= Cardinality(Hits) + 1
       /\ next \notin T => Cardinality(T) <= Cardinality(Hits)
  BY <1>6, <1>8, AtMostOneMore
<1> QED
  BY <1>2, <1>3, <1>7, <1>8, <1>9, <1>10

(* Initially nothing counts.                                                *)
LEMMA InitIInv == ConfirmInit => IInv
<1> SUFFICES ASSUME ConfirmInit PROVE IInv
  OBVIOUS
<1> USE DEF ConfirmInit
<1>1. ConfirmTypeOK
  <2>1. [detected |-> FALSE, class_id |-> 0] \in Sample
    BY ConfirmAssumption DEF Sample
  <2>2. 0 \in 0 .. M - 1 /\ 0 \in 0 .. M /\ 0 \in 0 .. N
    BY Clamped
  <2> QED
    BY <2>1, <2>2 DEF ConfirmTypeOK
<1>2. Cardinality(Hits) = 0
  <2>1. Hits = {}
    BY DEF Hits, HitsIn
  <2> QED
    BY <2>1, FS_EmptySet
<1> QED
  BY <1>1, <1>2, Clamped DEF IInv, IndicesInStep, BelowThreshold, HitsAreRecent, Hits

(* Every frame preserves the invariant.                                     *)
LEMMA NextIInv == IInv /\ [ConfirmNext]_confirmVars => IInv'
<1> SUFFICES ASSUME IInv, [ConfirmNext]_confirmVars PROVE IInv'
  OBVIOUS
<1>0. ConfirmTypeOK /\ IndicesInStep /\ BelowThreshold /\ HitsAreRecent
  BY DEF IInv
<1>1. ASSUME NEW f \in Sample, CollectFrame(f)
      PROVE  IInv'
  <2>1. /\ samples' = [samples EXCEPT ![next] = f]
        /\ next' = (next + 1) % M /\ fill' = Filled /\ alarm' = NoAlarm
        /\ hitsSince' = IF f.detected /\ hitsSince < N THEN hitsSince + 1 ELSE hitsSince
    BY <1>1 DEF CollectFrame
  <2>0. /\ Filled \in 1 .. M
        /\ Cardinality(Hits) \in Nat
        /\ Cardinality(HitsIn(samples', Filled)) \in Nat
        /\ Cardinality(HitsIn(samples', Filled)) <= Cardinality(Hits) + 1
        /\ ~ f.detected => Cardinality(HitsIn(samples', Filled)) <= Cardinality(Hits)
    BY <2>1, OneFrame
  <2>2. Cardinality(HitsIn(samples', Filled)) < N
    <3>1. ~ (Cardinality(HitsIn(samples', Filled)) >= N)
      BY <1>1, <2>1 DEF CollectFrame, Confirmed
    <3> QED
      BY <2>0, <3>1, Clamped
  <2>3. ConfirmTypeOK'
    <3>1. next' \in 0 .. M - 1
      BY <1>0, <2>1, Clamped DEF ConfirmTypeOK
    <3>2. hitsSince' \in 0 .. N
      BY <1>0, <2>1, Clamped DEF ConfirmTypeOK
    <3>3. fill' \in 0 .. M
      BY <2>0, <2>1, Clamped
    <3> QED
      BY <2>1, <3>1, <3>2, <3>3, OneFrame DEF ConfirmTypeOK
  <2>4. IndicesInStep'
    BY <1>0, <2>1, Clamped DEF ConfirmTypeOK, IndicesInStep, Filled
  <2>5. BelowThreshold'
    BY <2>1, <2>2 DEF BelowThreshold
  <2>6. HitsAreRecent'
    <3>1. Cardinality(HitsIn(samples', Filled)) <= hitsSince'
      <4>1. hitsSince \in Nat /\ hitsSince <= N
        BY <1>0, Clamped DEF ConfirmTypeOK
      <4>2. Cardinality(Hits) <= hitsSince
        BY <1>0 DEF HitsAreRecent
      <4>3. f.detected \in BOOLEAN
        BY DEF Sample
      <4> QED
        BY <2>0, <2>1, <2>2, <4>1, <4>2, <4>3, Clamped
    <3> QED
      BY <2>1, <3>1 DEF HitsAreRecent, Hits
  <2> QED
    BY <2>3, <2>4, <2>5, <2>6 DEF IInv
<1>2. ASSUME NEW f \in Sample, ConfirmFrame(f)
      PROVE  IInv'
  <2>1. /\ samples' = [samples EXCEPT ![next] = f]
        /\ next' = 0 /\ fill' = 0 /\ hitsSince' = 0
    BY <1>2 DEF ConfirmFrame
  <2>2. ConfirmTypeOK'
    <3>1. alarm' \in [raised : {TRUE}, class_id : KnownClasses \cup {-1}, delivered : BOOLEAN]
      BY <1>2 DEF ConfirmFrame
    <3>2. next' \in 0 .. M - 1 /\ fill' \in 0 .. M /\ hitsSince' \in 0 .. N
      BY <2>1, Clamped
    <3>3. samples' \in [Indices -> Sample]
      BY <2>1, OneFrame
    <3> QED
      BY <3>1, <3>2, <3>3 DEF ConfirmTypeOK
  <2>3. Cardinality(Hits') = 0
    <3>1. Hits' = {}
      BY <2>1 DEF Hits, HitsIn
    <3> QED
      BY <3>1, FS_EmptySet
  <2> QED
    BY <2>1, <2>2, <2>3, Clamped
       DEF IInv, IndicesInStep, BelowThreshold, HitsAreRecent, Hits
<1>3. CASE UNCHANGED confirmVars
  BY <1>0, <1>3 DEF confirmVars, IInv, ConfirmTypeOK, IndicesInStep, BelowThreshold, HitsAreRecent,
                    Hits, HitsIn
<1> QED
  BY <1>1, <1>2, <1>3 DEF ConfirmNext, OnDetectionFrame

(* The strengthened invariant holds throughout.                             *)
THEOREM Invariance == ConfirmSpec => []IInv
  BY InitIInv, NextIInv, PTL DEF ConfirmSpec

(* No call leaves the window at or over the threshold, for every M and N.   *)
THEOREM ThresholdKept == ConfirmSpec => [](ConfirmTypeOK /\ BelowThreshold)
<1>1. IInv => ConfirmTypeOK /\ BelowThreshold
  BY DEF IInv
<1> QED
  BY <1>1, Invariance, PTL

(* A frame that confirms brings the N-th hit itself, and at least N frames  *)
(* with a target have come since the last confirmation.                     *)
LEMMA ConfirmedOnHit ==
  ASSUME IInv, NEW f \in Sample, ConfirmFrame(f)
  PROVE  /\ f.detected
         /\ Cardinality(HitsIn(samples', Filled)) = N
         /\ hitsSince + 1 >= N
<1>1. samples' = [samples EXCEPT ![next] = f]
  BY DEF ConfirmFrame
<1>0. /\ Filled \in 1 .. M
      /\ Cardinality(Hits) \in Nat
      /\ Cardinality(HitsIn(samples', Filled)) \in Nat
      /\ Cardinality(HitsIn(samples', Filled)) <= Cardinality(Hits) + 1
      /\ ~ f.detected => Cardinality(HitsIn(samples', Filled)) <= Cardinality(Hits)
  BY <1>1, OneFrame
<1>2. Cardinality(HitsIn(samples', Filled)) >= N
  BY <1>1 DEF ConfirmFrame, Confirmed
<1>3. Cardinality(Hits) < N
  BY DEF IInv, BelowThreshold, Hits
<1>4. hitsSince \in Nat /\ Cardinality(Hits) <= hitsSince
  BY Clamped DEF IInv, ConfirmTypeOK, HitsAreRecent
<1>5. f.detected \in BOOLEAN
  BY DEF Sample
<1> QED
  BY <1>0, <1>2, <1>3, <1>4, <1>5, Clamped

(* An alarm is raised by the frame that brings the N-th hit, never by one   *)
(* without a target.                                                        *)
THEOREM AlarmNeedsHit == ConfirmSpec => AlarmOnNthHit
<1>1. IInv => \A f \in Sample :
        ConfirmFrame(f) =>
          /\ f.detected
          /\ Cardinality(HitsIn(samples', Filled)) = N
  BY ConfirmedOnHit
<1> QED
  BY <1>1, Invariance, PTL DEF AlarmOnNthHit

(* Two alarms are at least N frames with a target apart, also when the      *)
(* first one was refused by the event queue.                                *)
THEOREM AlarmSpacing == ConfirmSpec => AlarmsAreSpaced
<1>1. IInv => \A f \in Sample : ConfirmFrame(f) => hitsSince + 1 >= N
  BY ConfirmedOnHit
<1> QED
  BY <1>1, Invariance, PTL DEF AlarmsAreSpaced

-----------------------------------------------------------------------------
(* The array is a sliding window. Place(nx, n, i) is where the i-th of the  *)
(* n samples that count stands, the next place being nx.                    *)

Place(nx, n, i) == (((nx + M - n) % M) + i - 1) % M

LEMMA Modulo ==
  ASSUME NEW x \in 0 .. 2 * M - 1
  PROVE  x % M = IF x < M THEN x ELSE x - M
BY Clamped

(* Until the array is full, samples stand in it in order; then the oldest   *)
(* one stands where the next one goes.                                      *)
LEMMA Places ==
  ASSUME NEW nx \in 0 .. M - 1, NEW n \in 0 .. M, n < M => nx = n, NEW i \in 1 .. n
  PROVE  Place(nx, n, i) = IF n < M \/ nx + i - 1 < M
                           THEN (IF n < M THEN i - 1 ELSE nx + i - 1)
                           ELSE nx + i - 1 - M
<1> DEFINE x == nx + M - n
           old == x % M
           y == old + i - 1
<1>1. M \in Nat /\ M >= 1
  BY Clamped
<1>2. Place(nx, n, i) = y % M
  BY DEF Place
<1> HIDE DEF y
<1>3. x \in 0 .. 2 * M - 1
  BY <1>1
<1>4. x = nx + M - n
  OBVIOUS
<1> HIDE DEF x
<1>5. old = IF x < M THEN x ELSE x - M
  BY <1>3, Modulo
<1>6. y = old + i - 1
  BY DEF y
<1> HIDE DEF old
<1>7. y \in 0 .. 2 * M - 1 => y % M = IF y < M THEN y ELSE y - M
  BY Modulo
<1>8. CASE n < M
  <2>1. old = 0
    BY <1>1, <1>4, <1>5, <1>8
  <2>2. y = i - 1 /\ y \in 0 .. 2 * M - 1 /\ y < M
    BY <1>1, <1>6, <1>8, <2>1
  <2> QED
    BY <1>2, <1>7, <1>8, <2>2
<1>9. CASE n = M
  <2>1. old = nx
    BY <1>1, <1>4, <1>5, <1>9
  <2>2. y = nx + i - 1 /\ y \in 0 .. 2 * M - 1
    BY <1>1, <1>6, <1>9, <2>1
  <2> QED
    BY <1>1, <1>2, <1>7, <1>9, <2>2
<1> QED
  BY <1>1, <1>8, <1>9

LEMMA WindowIs ==
  ASSUME ConfirmTypeOK
  PROVE  Window = [i \in 1 .. fill |-> samples[Place(next, fill, i)]]
BY DEF Window, Oldest, Place

(* Every sample that counts stands at one place, and there is one place for *)
(* each.                                                                    *)
LEMMA OnePlaceEach ==
  ASSUME NEW nx \in 0 .. M - 1, NEW n \in 0 .. M, n < M => nx = n
  PROVE  [i \in 1 .. n |-> Place(nx, n, i)] \in Bijection(1 .. n, 0 .. n - 1)
<1> DEFINE pl == [i \in 1 .. n |-> Place(nx, n, i)]
<1>1. M \in Nat /\ M >= 1 /\ n \in Nat
  BY Clamped
<1>2. \A i \in 1 .. n :
        pl[i] = IF n < M \/ nx + i - 1 < M
                THEN (IF n < M THEN i - 1 ELSE nx + i - 1)
                ELSE nx + i - 1 - M
  BY Places
<1>0. pl \in [1 .. n -> {pl[i] : i \in 1 .. n}]
  OBVIOUS
<1> HIDE DEF pl
<1>3. \A i \in 1 .. n : pl[i] \in 0 .. n - 1
  BY <1>1, <1>2
<1>4. pl \in [1 .. n -> 0 .. n - 1]
  BY <1>0, <1>3
<1>5. \A i, k \in 1 .. n : pl[i] = pl[k] => i = k
  BY <1>1, <1>2
<1>6. \A t \in 0 .. n - 1 : \E i \in 1 .. n : pl[i] = t
  <2>1. TAKE t \in 0 .. n - 1
  <2>2. CASE n < M
    <3>1. t + 1 \in 1 .. n /\ pl[t + 1] = t
      BY <1>1, <1>2, <2>2
    <3> QED
      BY <3>1
  <2>3. CASE n = M /\ t >= nx
    <3>1. t - nx + 1 \in 1 .. n /\ pl[t - nx + 1] = t
      BY <1>1, <1>2, <2>3
    <3> QED
      BY <3>1
  <2>4. CASE n = M /\ t < nx
    <3>1. t + M - nx + 1 \in 1 .. n /\ pl[t + M - nx + 1] = t
      BY <1>1, <1>2, <2>4
    <3> QED
      BY <3>1
  <2> QED
    BY <1>1, <2>2, <2>3, <2>4
<1>7. pl \in Bijection(1 .. n, 0 .. n - 1)
  BY <1>4, <1>5, <1>6, Fun_IsBij
<1> QED
  BY <1>7 DEF pl

(* Counting samples in the window is counting them in the array.            *)
LEMMA SameCount ==
  ASSUME NEW n \in Nat, NEW pl \in Bijection(1 .. n, 0 .. n - 1),
         NEW A \in SUBSET (1 .. n), NEW B \in SUBSET (0 .. n - 1),
         \A i \in 1 .. n : i \in A <=> pl[i] \in B
  PROVE  Cardinality(A) = Cardinality(B) /\ Cardinality(B) \in Nat
<1> DEFINE g == [i \in A |-> pl[i]]
<1>1. /\ pl \in [1 .. n -> 0 .. n - 1]
      /\ \A i, k \in 1 .. n : pl[i] = pl[k] => i = k
      /\ \A t \in 0 .. n - 1 : \E i \in 1 .. n : pl[i] = t
  <2> DEFINE S == 1 .. n
             T == 0 .. n - 1
  <2>1. pl \in Bijection(S, T)
    OBVIOUS
  <2> HIDE DEF S, T
  <2>2. /\ pl \in [S -> T]
        /\ \A i, k \in S : pl[i] = pl[k] => i = k
        /\ \A t \in T : \E i \in S : pl[i] = t
    BY <2>1 DEF Bijection, Injection, Surjection, IsInjective
  <2> QED
    BY <2>2 DEF S, T
<1>2. IsFiniteSet(A) /\ IsFiniteSet(B)
  <2>1. IsFiniteSet(1 .. n) /\ IsFiniteSet(0 .. n - 1)
    BY FS_Interval
  <2> QED
    BY <2>1, FS_Subset
<1>3. g \in [A -> B]
  OBVIOUS
<1>4. \A i, k \in A : g[i] = g[k] => i = k
  BY <1>1
<1>5. \A t \in B : \E i \in A : g[i] = t
  <2>1. TAKE t \in B
  <2>2. PICK i \in 1 .. n : pl[i] = t
    BY <1>1
  <2>3. i \in A /\ g[i] = t
    BY <2>2
  <2> QED
    BY <2>3
<1>6. g \in Bijection(A, B)
  BY <1>3, <1>4, <1>5, Fun_IsBij
<1>7. ExistsBijection(A, B)
  BY <1>6 DEF ExistsBijection
<1> QED
  BY <1>2, <1>7, FS_Bijection, FS_CardinalityType

(* The window after one more frame: the new sample is the last, and when    *)
(* the array is full it takes the place of the oldest.                      *)
LEMMA NewWindow ==
  ASSUME IInv, NEW f \in Sample, NEW s, s = [samples EXCEPT ![next] = f]
  PROVE  /\ (next + 1) % M \in 0 .. M - 1 /\ Filled \in 1 .. M
         /\ Filled < M => (next + 1) % M = Filled
         /\ Sliding!LastM(Append(Window, f)) =
              [i \in 1 .. Filled |-> s[Place((next + 1) % M, Filled, i)]]
<1> DEFINE nx == (next + 1) % M
           w == Sliding!LastM(Append(Window, f))
<1>1. /\ samples \in [Indices -> Sample] /\ next \in 0 .. M - 1 /\ fill \in 0 .. M
      /\ fill < M => next = fill
  BY DEF IInv, ConfirmTypeOK, IndicesInStep
<1>2. M \in Nat /\ M >= 1 /\ M <= MaxSamples /\ MaxSamples \in Nat
  BY Clamped, ConfirmAssumption
<1>3. nx = IF next + 1 < M THEN next + 1 ELSE 0
  <2> DEFINE x == next + 1
  <2>1. x \in 0 .. 2 * M - 1
    BY <1>1, <1>2
  <2>2. x = next + 1
    OBVIOUS
  <2>3. nx = x % M
    OBVIOUS
  <2> HIDE DEF x
  <2>4. x % M = IF x < M THEN x ELSE x - M
    BY <2>1, Modulo
  <2> QED
    BY <1>1, <1>2, <2>2, <2>3, <2>4
<1> HIDE DEF nx
<1>4. Filled = (IF fill < M THEN fill + 1 ELSE fill) /\ Filled \in 1 .. M /\ nx \in 0 .. M - 1
  BY <1>1, <1>2, <1>3 DEF Filled
<1>5. Filled < M => nx = Filled
  BY <1>1, <1>2, <1>3, <1>4
<1>6. \A i \in Indices : s[i] = IF i = next THEN f ELSE samples[i]
  BY <1>1
<1>7. \A i \in 1 .. fill :
        Place(next, fill, i) = IF fill < M \/ next + i - 1 < M
                               THEN (IF fill < M THEN i - 1 ELSE next + i - 1)
                               ELSE next + i - 1 - M
  BY <1>1, Places
<1>8. \A i \in 1 .. Filled :
        Place(nx, Filled, i) = IF Filled < M \/ nx + i - 1 < M
                               THEN (IF Filled < M THEN i - 1 ELSE nx + i - 1)
                               ELSE nx + i - 1 - M
  BY <1>4, <1>5, Places
<1>9. \A i \in 1 .. fill : Place(next, fill, i) \in Indices
  BY <1>1, <1>2, <1>7 DEF Indices
<1>10. /\ Window \in Seq(Sample) /\ Len(Window) = fill
       /\ \A i \in 1 .. fill : Window[i] = samples[Place(next, fill, i)]
  <2>1. Window = [i \in 1 .. fill |-> samples[Place(next, fill, i)]]
    BY WindowIs DEF IInv
  <2>2. \A i \in 1 .. fill : samples[Place(next, fill, i)] \in Sample
    BY <1>1, <1>9
  <2>3. fill \in Nat
    BY <1>1, <1>2
  <2> DEFINE e(i) == samples[Place(next, fill, i)]
  <2> HIDE DEF e
  <2>4. Window = [i \in 1 .. fill |-> e(i)] /\ \A i \in 1 .. fill : e(i) \in Sample
    BY <2>1, <2>2 DEF e
  <2>5. Window \in Seq(Sample) /\ Len(Window) = fill /\ \A i \in 1 .. fill : Window[i] = e(i)
    BY <2>3, <2>4
  <2> QED
    BY <2>5 DEF e
<1>11. /\ Append(Window, f) \in Seq(Sample) /\ Len(Append(Window, f)) = fill + 1
       /\ \A i \in 1 .. fill : Append(Window, f)[i] = Window[i]
       /\ Append(Window, f)[fill + 1] = f
  BY <1>10
<1>12. CASE fill < M
  <2>1. w = Append(Window, f)
    BY <1>1, <1>2, <1>11, <1>12 DEF Sliding!LastM
  <2>2. ASSUME NEW i \in 1 .. Filled PROVE w[i] = s[Place(nx, Filled, i)]
    <3>1. Place(nx, Filled, i) = i - 1 /\ i - 1 \in Indices
      BY <1>1, <1>2, <1>3, <1>4, <1>8, <1>12 DEF Indices
    <3>2. CASE i = fill + 1
      BY <1>1, <1>2, <1>6, <1>11, <1>12, <2>1, <3>1, <3>2
    <3>3. CASE i \in 1 .. fill
      <4>1. Place(next, fill, i) = i - 1 /\ i - 1 # next
        BY <1>1, <1>2, <1>7, <1>12, <3>3
      <4> QED
        BY <1>6, <1>10, <1>11, <2>1, <3>1, <3>3, <4>1
    <3> QED
      BY <1>1, <1>2, <1>4, <1>12, <3>2, <3>3
  <2>3. w \in Seq(Sample) /\ Len(w) = Filled
    BY <1>4, <1>11, <1>12, <2>1
  <2>4. w = [i \in 1 .. Filled |-> w[i]]
    BY <2>3, LenProperties
  <2> HIDE DEF w
  <2>5. w = [i \in 1 .. Filled |-> s[Place(nx, Filled, i)]]
    BY <2>2, <2>4
  <2> QED
    BY <1>4, <1>5, <2>5 DEF nx, w
<1>13. CASE fill = M
  <2> DEFINE a == Append(Window, f)
  <2>1. w = SubSeq(a, 2, M + 1)
    <3>1. ~ (Len(a) <= M) /\ Len(a) - M + 1 = 2 /\ Len(a) = M + 1
      BY <1>2, <1>11, <1>13
    <3> QED
      BY <3>1 DEF Sliding!LastM
  <2>0. a \in Seq(Sample) /\ Len(a) = M + 1 /\ a[M + 1] = f
        /\ \A i \in 1 .. M : a[i] = Window[i]
    BY <1>11, <1>13
  <2> HIDE DEF w, a
  <2>2. w \in Seq(Sample) /\ Len(w) = M /\ \A i \in 1 .. M : w[i] = a[i + 1]
    <3>1. \A i \in 2 .. M + 1 : a[i] \in Sample
      BY <1>2, <2>0, ElementOfSeq
    <3>2. Len(SubSeq(a, 2, M + 1)) = M
      BY <1>2, <3>1, SubSeqProperties
    <3>3. SubSeq(a, 2, M + 1) \in Seq(Sample)
      BY <1>2, <3>1, SubSeqProperties
    <3>4. \A i \in 1 .. M : SubSeq(a, 2, M + 1)[i] = a[i + 1]
      BY <1>2, <2>0
    <3> QED
      BY <2>1, <3>2, <3>3, <3>4
  <2>3. ASSUME NEW i \in 1 .. M PROVE w[i] = s[Place(nx, Filled, i)]
    <3>1. /\ Place(nx, Filled, i) = IF nx + i - 1 < M THEN nx + i - 1 ELSE nx + i - 1 - M
          /\ Place(nx, Filled, i) \in Indices
      BY <1>2, <1>3, <1>4, <1>8, <1>13 DEF Indices
    <3>2. CASE i = M
      <4>1. Place(nx, Filled, i) = next
        BY <1>1, <1>2, <1>3, <3>1, <3>2
      <4> QED
        BY <1>6, <2>0, <2>2, <3>1, <3>2, <4>1
    <3>3. CASE i < M
      <4>1. i + 1 \in 1 .. fill
        BY <1>2, <1>13, <3>3
      <4>2. Place(next, fill, i + 1) = Place(nx, Filled, i)
        <5> DEFINE k == i + 1
        <5>1. k \in 1 .. fill
          BY <4>1
        <5>2. k = i + 1
          OBVIOUS
        <5> HIDE DEF k
        <5>3. Place(next, fill, k) = IF next + k - 1 < M THEN next + k - 1 ELSE next + k - 1 - M
          BY <1>2, <1>7, <1>13, <5>1
        <5> QED
          BY <1>1, <1>2, <1>3, <3>1, <3>3, <5>2, <5>3
      <4>3. Place(nx, Filled, i) # next
        BY <1>1, <1>2, <1>3, <3>1, <3>3
      <4>4. w[i] = samples[Place(next, fill, i + 1)]
        BY <1>10, <1>13, <2>0, <2>2, <4>1
      <4> QED
        BY <1>6, <3>1, <4>2, <4>3, <4>4
    <3> QED
      BY <1>2, <3>2, <3>3
  <2>4. Filled = M
    BY <1>2, <1>4, <1>13
  <2>5. w = [i \in 1 .. M |-> w[i]]
    BY <2>2, LenProperties
  <2>6. w = [i \in 1 .. Filled |-> s[Place(nx, Filled, i)]]
    BY <2>3, <2>4, <2>5
  <2> QED
    BY <1>4, <1>5, <2>6 DEF nx, w
<1> QED
  BY <1>1, <1>2, <1>12, <1>13

(* The abstract module's own name for the number of elements.               *)
LEMMA OneCardinality == \A S : Sliding!Cardinality(S) = Cardinality(S)
BY DEF Sliding!Cardinality, Cardinality

(* What is counted in the window is what the code counts in the array, and  *)
(* the first bin with the largest count is the class most frames agree on.  *)
LEMMA SameVotes ==
  ASSUME NEW nx \in 0 .. M - 1, NEW n \in 0 .. M, n < M => nx = n, NEW s, NEW w,
         w = [i \in 1 .. n |-> s[Place(nx, n, i)]]
  PROVE  /\ Cardinality(Sliding!Positive(w)) = Cardinality(HitsIn(s, n))
         /\ \A c : Sliding!Votes(w, c) = Hist(s, n, c) /\ Hist(s, n, c) \in Nat
<1> DEFINE pl == [i \in 1 .. n |-> Place(nx, n, i)]
<1>1. n \in Nat
  BY Clamped
<1>2. pl \in Bijection(1 .. n, 0 .. n - 1)
  BY OnePlaceEach
<1>3. pl \in [1 .. n -> 0 .. n - 1]
  BY <1>2 DEF Bijection, Injection
<1>4. DOMAIN w = 1 .. n /\ \A i \in 1 .. n : w[i] = s[pl[i]]
  OBVIOUS
<1> HIDE DEF pl
<1>5. \A i \in 1 .. n : i \in Sliding!Positive(w) <=> pl[i] \in HitsIn(s, n)
  BY <1>3, <1>4 DEF Sliding!Positive, HitsIn
<1>6. Sliding!Positive(w) \in SUBSET (1 .. n) /\ HitsIn(s, n) \in SUBSET (0 .. n - 1)
  BY <1>4 DEF Sliding!Positive, HitsIn
<1>7. Cardinality(Sliding!Positive(w)) = Cardinality(HitsIn(s, n))
  BY <1>1, <1>2, <1>5, <1>6, SameCount
<1>8. ASSUME NEW c
      PROVE  Sliding!Votes(w, c) = Hist(s, n, c) /\ Hist(s, n, c) \in Nat
  <2> DEFINE A == {i \in Sliding!Positive(w) : w[i].class_id = c}
             B == {i \in HitsIn(s, n) : s[i].class_id = c}
  <2>1. \A i \in 1 .. n : i \in A <=> pl[i] \in B
    BY <1>3, <1>4, <1>5
  <2>2. A \in SUBSET (1 .. n) /\ B \in SUBSET (0 .. n - 1)
    BY <1>6
  <2>3. Sliding!Votes(w, c) = Cardinality(A) /\ Hist(s, n, c) = Cardinality(B)
    <3>1. Sliding!Votes(w, c) = Cardinality(A)
      BY OneCardinality, Zenon DEF Sliding!Votes
    <3>2. Hist(s, n, c) = Cardinality(B)
      BY Zenon DEF Hist
    <3> QED
      BY <3>1, <3>2
  <2> HIDE DEF A, B
  <2>4. Cardinality(A) = Cardinality(B) /\ Cardinality(B) \in Nat
    BY <1>1, <1>2, <2>1, <2>2, SameCount
  <2> QED
    BY <2>3, <2>4
<1> QED
  BY <1>7, <1>8

LEMMA SameMajority ==
  ASSUME NEW s, NEW n, NEW w, NEW c, IsBestClass(s, n, c),
         \A d : Sliding!Votes(w, d) = Hist(s, n, d) /\ Hist(s, n, d) \in Nat
  PROVE  Sliding!IsMajority(w, c)
<1>1. CASE c = -1 /\ \A d \in KnownClasses : Hist(s, n, d) = 0
  BY <1>1 DEF Sliding!IsMajority
<1>2. CASE /\ c \in KnownClasses /\ Hist(s, n, c) > 0
           /\ \A d \in KnownClasses : Hist(s, n, d) <= Hist(s, n, c)
           /\ \A d \in 0 .. c - 1 : Hist(s, n, d) < Hist(s, n, c)
  <2>1. ASSUME NEW d \in KnownClasses
        PROVE  \/ Sliding!Votes(w, d) < Sliding!Votes(w, c)
               \/ Sliding!Votes(w, d) = Sliding!Votes(w, c) /\ d >= c
    <3>1. d \in Nat /\ c \in Nat
      BY <1>2, ConfirmAssumption DEF KnownClasses
    <3>2. CASE d < c
      <4>1. Hist(s, n, d) < Hist(s, n, c)
        BY <1>2, <3>1, <3>2
      <4> QED
        BY <4>1
    <3>3. CASE d >= c
      <4>1. Hist(s, n, d) <= Hist(s, n, c) /\ Hist(s, n, d) \in Nat /\ Hist(s, n, c) \in Nat
        BY <1>2
      <4> QED
        BY <3>3, <4>1
    <3> QED
      BY <3>1, <3>2, <3>3
  <2>2. Sliding!Votes(w, c) > 0
    BY <1>2
  <2> QED
    BY <1>2, <2>1, <2>2 DEF Sliding!IsMajority
<1> QED
  BY <1>1, <1>2 DEF IsBestClass

LEMMA FrameSlides ==
  ASSUME IInv, NEW f \in Sample, OnDetectionFrame(f)
  PROVE  Sliding!Frame(f)
<1> DEFINE nx == (next + 1) % M
           w == Sliding!LastM(Append(Window, f))
<1>1. samples' = [samples EXCEPT ![next] = f]
  BY DEF OnDetectionFrame, CollectFrame, ConfirmFrame
<1>2. /\ nx \in 0 .. M - 1 /\ Filled \in 1 .. M /\ Filled \in 0 .. M
      /\ Filled < M => nx = Filled
      /\ w = [i \in 1 .. Filled |-> samples'[Place(nx, Filled, i)]]
  <2>1. /\ nx \in 0 .. M - 1 /\ Filled \in 1 .. M
        /\ Filled < M => nx = Filled
    BY <1>1, NewWindow
  <2>2. w = [i \in 1 .. Filled |-> samples'[Place(nx, Filled, i)]]
    BY <1>1, NewWindow
  <2>3. Filled \in 0 .. M
    BY <2>1, Clamped
  <2> QED
    BY <2>1, <2>2, <2>3
<1>3. Sliding!Frame(f) =
        IF Sliding!Cardinality(Sliding!Positive(w)) < N
        THEN Window' = w /\ alarm' = Sliding!NoAlarm
        ELSE /\ Window' = << >>
             /\ \E c \in KnownClasses \cup {-1}, ok \in BOOLEAN :
                  /\ Sliding!IsMajority(w, c)
                  /\ alarm' = [raised |-> TRUE, class_id |-> c, delivered |-> ok]
  BY Zenon DEF Sliding!Frame
<1> HIDE DEF w, nx
<1>4. /\ Sliding!Cardinality(Sliding!Positive(w)) = Cardinality(HitsIn(samples', Filled))
      /\ \A c : Sliding!Votes(w, c) = Hist(samples', Filled, c) /\ Hist(samples', Filled, c) \in Nat
  BY <1>2, SameVotes, OneCardinality
<1>5. Cardinality(HitsIn(samples', Filled)) \in Nat /\ N \in Nat
  BY <1>1, OneFrame, Clamped
<1>6. CASE CollectFrame(f)
  <2>1. /\ next' = nx /\ fill' = Filled /\ alarm' = NoAlarm
        /\ ~ (Cardinality(HitsIn(samples', Filled)) >= N)
    BY <1>1, <1>6 DEF CollectFrame, Confirmed, nx
  <2>2. Window' = [i \in 1 .. fill' |-> samples'[Place(next', fill', i)]]
    BY DEF Window, Oldest, Place
  <2>3. Window' = w
    BY <1>2, <2>1, <2>2
  <2>4. Sliding!Cardinality(Sliding!Positive(w)) < N /\ alarm' = Sliding!NoAlarm
    BY <1>4, <1>5, <2>1 DEF NoAlarm, Sliding!NoAlarm
  <2> QED
    BY <1>3, <2>3, <2>4
<1>7. CASE ConfirmFrame(f)
  <2>1. /\ fill' = 0 /\ Cardinality(HitsIn(samples', Filled)) >= N
    BY <1>1, <1>7 DEF ConfirmFrame, Confirmed
  <2>2. PICK c \in KnownClasses \cup {-1}, accepted \in BOOLEAN :
          /\ IsBestClass(samples', Filled, c)
          /\ alarm' = [raised |-> TRUE, class_id |-> c, delivered |-> accepted]
    BY <1>7 DEF ConfirmFrame
  <2>3. Window' = << >>
    BY <2>1 DEF Window
  <2>4. Sliding!IsMajority(w, c)
    BY <1>4, <2>2, SameMajority
  <2>5. ~ (Sliding!Cardinality(Sliding!Positive(w)) < N)
    BY <1>4, <1>5, <2>1
  <2> QED
    BY <1>3, <2>2, <2>3, <2>4, <2>5
<1> QED
  BY <1>6, <1>7 DEF OnDetectionFrame

(* The circular array with its indices, the histogram with its first        *)
(* largest bin, and the restart of the window implement the sliding window: *)
(* the same alarms on the same frames, for every M-of-N configuration.      *)
THEOREM SlidingRefinement == ConfirmSpec => ImplementsSlidingConfirm
<1>1. ConfirmInit => Sliding!Init
  BY DEF ConfirmInit, Sliding!Init, Window, NoAlarm, Sliding!NoAlarm
<1>2. IInv /\ [ConfirmNext]_confirmVars => [Sliding!Next]_Sliding!absVars
  <2> SUFFICES ASSUME IInv, [ConfirmNext]_confirmVars
               PROVE  Sliding!Next \/ UNCHANGED Sliding!absVars
    OBVIOUS
  <2>1. CASE ConfirmNext
    <3>1. PICK f \in Sample : OnDetectionFrame(f)
      BY <2>1 DEF ConfirmNext
    <3>2. Sliding!Frame(f) /\ f \in Sliding!Sample
      BY <3>1, FrameSlides DEF Sample, Sliding!Sample
    <3> QED
      BY <3>2 DEF Sliding!Next
  <2>2. CASE UNCHANGED confirmVars
    BY <2>2 DEF confirmVars, Sliding!absVars, Window, Oldest
  <2> QED
    BY <2>1, <2>2
<1>3. ConfirmSpec => []IInv
  BY InitIInv, NextIInv, PTL DEF ConfirmSpec
<1> QED
  BY <1>1, <1>2, <1>3, PTL DEF ConfirmSpec, ImplementsSlidingConfirm, Sliding!Spec

-----------------------------------------------------------------------------
(* The cleanup at the start.                                               *)

(* The old files.                                                           *)

OldAreGone == Old \cap (events \cup limbo) = {}

(* What each stage of main has done to the old files, and what a marker     *)
(* says of them, on disk or in memory.                                      *)
Swept ==
  /\ app = "sweeping" => Old \cap events \subseteq toSee
  /\ app \in {"creating", "writing", "syncing", "committing"} => OldAreGone
  /\ "done" \in disk => OldAreGone
  /\ app \in {"syncing", "committing"} => marker = "done"
  /\ marker \in disk

(* A step that touches no file and does not enter the sweep keeps Swept.    *)
LEMMA Untouched ==
  ASSUME Swept, UNCHANGED files,
         (app' = app /\ toSee' = toSee) \/ app' \in {"off", "running"}
  PROVE  Swept'
  BY DEF Swept, OldAreGone, files

(* Swept holds at first: no marker, and main has not begun.                 *)
LEMMA SweptInit == CleanupInit => Swept
  BY DEF CleanupInit, Swept

(* Every step of clear_events_once, its failures and the faults keep Swept. *)
LEMMA SweptStep ==
  ASSUME Swept, [CleanupNext]_cleanupVars PROVE Swept'
<1> USE CleanupAssumption
<1>1. CASE UNCHANGED cleanupVars
  BY <1>1, Untouched DEF cleanupVars, files
<1>2. CASE StartWithoutCleaning \/ RefuseMarker \/ CommitFails \/ Configure \/ Exit
  BY <1>2, Untouched DEF StartWithoutCleaning, RefuseMarker, CommitFails, Configure, Exit,
     Goto, cleanupVars, files
<1>3. CASE SweepFails \/ Killed
  BY <1>3, Untouched DEF SweepFails, Killed, Goto
<1>4. CASE StartCleaning
  BY <1>4 DEF StartCleaning, Swept, OldAreGone, Goto, files
<1>5. ASSUME NEW entry \in toSee, Sweep(entry) PROVE Swept'
  BY <1>5 DEF Sweep, Swept, OldAreGone
<1>6. CASE CommitDeletions
  BY <1>6 DEF CommitDeletions, Swept, OldAreGone, Goto
<1>7. CASE CreateMarker
  BY <1>7 DEF CreateMarker, Swept, OldAreGone, Goto
<1>8. CASE WriteMarker
  BY <1>8 DEF WriteMarker, Swept, OldAreGone, Goto
<1>9. CASE SyncMarker
  BY <1>9 DEF SyncMarker, Swept, OldAreGone, Goto
<1>10. CASE CommitMarker
  BY <1>10 DEF CommitMarker, Swept, OldAreGone, Goto
<1>11. CASE MarkerFails
  BY <1>11 DEF MarkerFails, Swept, OldAreGone, Goto
<1>12. CASE PowerLoss
  <2>1. PICK back \in SUBSET limbo : events' = events \cup back
    BY <1>12 DEF PowerLoss
  <2> QED BY <1>12, <2>1 DEF PowerLoss, Swept, OldAreGone, Goto
<1>13. ASSUME NEW f \in New, WriteEvent(f) PROVE Swept'
  BY <1>13 DEF WriteEvent, Swept, OldAreGone
<1> QED BY <1>1, <1>2, <1>3, <1>4, <1>5, <1>6, <1>7, <1>8, <1>9, <1>10, <1>11, <1>12, <1>13
        DEF CleanupNext, clear_events_once

(* Swept is an invariant.                                                   *)
LEMMA SweptAlways == CleanupSpec => []Swept
  BY SweptInit, SweptStep, PTL DEF CleanupSpec

(* A whole marker, seen or still possible after a power loss, means that    *)
(* the deletions of the sweep are committed (startup_cleanup.c:73-85).      *)
THEOREM MarkerTellsTheTruth == CleanupSpec => []MarkerMeansClean
<1>1. Swept => MarkerMeansClean
  BY DEF Swept, MarkerMeansClean, OldAreGone
<1> QED BY <1>1, SweptAlways, PTL

(* main goes on with the flag set only when no old file is left and none    *)
(* can return: after its own sweep, or by a marker an earlier one wrote.    *)
THEOREM StartsClean == CleanupSpec => RunsOnlyWhenClean
<1>1. ASSUME Swept, [CleanupNext]_cleanupVars, app # "running", app' = "running", clear
      PROVE  Old \cap (events' \cup limbo') = {}
  <2>1. CASE UNCHANGED cleanupVars
    BY <1>1, <2>1 DEF cleanupVars
  <2>2. CASE StartWithoutCleaning
    BY <1>1, <2>2 DEF StartWithoutCleaning, AlreadyDone, files, Swept, OldAreGone
  <2>3. CASE CommitMarker
    BY <1>1, <2>3 DEF CommitMarker, Swept, OldAreGone
  <2>4. CASE RefuseMarker \/ StartCleaning \/ CommitDeletions \/ CreateMarker \/ WriteMarker
    BY <1>1, <2>4 DEF RefuseMarker, cleanupVars, StartCleaning, CommitDeletions, CreateMarker,
       WriteMarker, Goto
  <2>5. CASE SyncMarker \/ SweepFails \/ MarkerFails \/ CommitFails
    BY <1>1, <2>5 DEF SyncMarker, SweepFails, MarkerFails, CommitFails, Goto
  <2>6. CASE Configure \/ Exit \/ Killed \/ PowerLoss
    BY <1>1, <2>6 DEF Configure, Exit, Killed, PowerLoss, Goto
  <2>7. ASSUME NEW entry \in toSee, Sweep(entry) PROVE FALSE
    BY <1>1, <2>7 DEF Sweep
  <2>8. ASSUME NEW f \in New, WriteEvent(f) PROVE FALSE
    BY <1>1, <2>8 DEF WriteEvent
  <2> QED BY <1>1, <2>1, <2>2, <2>3, <2>4, <2>5, <2>6, <2>7, <2>8 DEF CleanupNext, clear_events_once
<1>2. Swept /\ [CleanupNext]_cleanupVars
        => [app # "running" /\ app' = "running" /\ clear
              => Old \cap (events' \cup limbo') = {}]_cleanupVars
  BY <1>1
<1> QED BY <1>2, SweptAlways, PTL DEF CleanupSpec, RunsOnlyWhenClean

-----------------------------------------------------------------------------
(* The new files.                                                           *)

(* Once a cleanup has succeeded the marker is whole on disk for good: a     *)
(* power loss cannot bring the sweep back. While a sweep or a marker is     *)
(* being made, none has succeeded yet.                                      *)
Settled ==
  /\ app \in {"sweeping", "creating"} => marker = "absent"
  /\ app = "writing" => marker = "torn"
  /\ app \in {"syncing", "committing"} => marker = "done" /\ ~ complete
  /\ complete => marker = "done" /\ disk = {"done"}
  /\ kept # {} => complete
  /\ kept \subseteq events

(* Settled holds at first: nothing is kept.                                 *)
LEMMA SettledInit == CleanupInit => Settled
  BY DEF CleanupInit, Settled

(* Every step of clear_events_once, its failures and the faults keep it.    *)
LEMMA SettledStep ==
  ASSUME Settled, [CleanupNext]_cleanupVars PROVE Settled'
<1>1. CASE UNCHANGED cleanupVars
  BY <1>1 DEF cleanupVars, Settled
<1>2. CASE StartWithoutCleaning \/ RefuseMarker \/ StartCleaning
  BY <1>2 DEF StartWithoutCleaning, RefuseMarker, StartCleaning, AlreadyDone, Goto, cleanupVars,
     files, Settled
<1>3. CASE Configure \/ Exit
  BY <1>3 DEF Configure, Exit, Goto, files, Settled
<1>4. CASE SweepFails
  BY <1>4 DEF SweepFails, Goto, files, Settled
<1>5. CASE CommitFails \/ Killed
  BY <1>5 DEF CommitFails, Killed, Goto, files, Settled
<1>6. ASSUME NEW entry \in toSee, Sweep(entry) PROVE Settled'
  BY <1>6 DEF Sweep, Settled
<1>7. CASE CommitDeletions
  BY <1>7 DEF CommitDeletions, Goto, Settled
<1>8. CASE CreateMarker
  BY <1>8 DEF CreateMarker, Goto, Settled
<1>9. CASE WriteMarker
  BY <1>9 DEF WriteMarker, Goto, Settled
<1>10. CASE SyncMarker
  BY <1>10 DEF SyncMarker, Goto, Settled
<1>11. CASE CommitMarker
  BY <1>11 DEF CommitMarker, Goto, Settled
<1>12. CASE MarkerFails
  BY <1>12 DEF MarkerFails, Goto, Settled
<1>13. CASE PowerLoss
  <2>1. PICK back \in SUBSET limbo : events' = events \cup back
    BY <1>13 DEF PowerLoss
  <2> QED BY <1>13, <2>1 DEF PowerLoss, Goto, Settled
<1>14. ASSUME NEW f \in New, WriteEvent(f) PROVE Settled'
  BY <1>14 DEF WriteEvent, Settled
<1> QED BY <1>1, <1>2, <1>3, <1>4, <1>5, <1>6, <1>7, <1>8, <1>9, <1>10, <1>11, <1>12, <1>13, <1>14
        DEF CleanupNext, clear_events_once

(* The cleanup is one shot: no event written after it has succeeded is ever *)
(* deleted by it, through power losses, kills and failing calls.            *)
THEOREM OneShot == CleanupSpec => []NewEventsAreKept
<1>1. Settled => NewEventsAreKept
  BY DEF Settled, NewEventsAreKept
<1>2. Settled /\ [CleanupNext]_cleanupVars => Settled'
  BY SettledStep
<1> QED BY <1>1, <1>2, SettledInit, PTL DEF CleanupSpec

(* Old events are cleaned once and for all: the marker is not there before  *)
(* they are gone for good, and nothing of the new ones goes after it.       *)
THEOREM CleanedOnce == CleanupSpec => []CleansOnce
BY MarkerTellsTheTruth, OneShot, PTL DEF CleansOnce

-----------------------------------------------------------------------------
(* Start and stop.                                                         *)

(* The threads of the program, and the fields of a queue.                  *)
ThreadNames == {"rtsp", "infer", "clip", "upload"}
Fields == [items : BOOLEAN, capacity : Nat, count : Nat, closed : BOOLEAN]

(* The types of the lifecycle's variables.                                  *)
LifeTypes ==
  /\ build \in Builds /\ at \in 1 .. 18
  /\ thread \in [ThreadNames -> {"none", "starts", "works", "pops", "pushes", "over"}]
  /\ queue \in [{"events", "jobs"} -> Fields]
  /\ freed \in 0 .. 4
  /\ alert \in [at : {"idle", "closed?", "count", "room?", "store"}, count : Nat]
  /\ stray \in BOOLEAN

(* What is initialised follows from what is built in and where main is.     *)
ReadyAsPlanned ==
  /\ "ring" \in ready => "ring" \in build /\ at \in 2 .. 17
  /\ "events" \in ready => "clip" \in build /\ at \in 3 .. 16
  /\ "jobs" \in ready => "upload" \in build /\ at \in 4 .. 15
  /\ ready \subseteq {"ring", "events", "jobs"}
  /\ "ring" \in build /\ at \in 2 .. 14 => "ring" \in ready
  /\ "clip" \in build /\ at \in 3 .. 14 => "events" \in ready
  /\ "upload" \in build /\ at \in 4 .. 14 => "jobs" \in ready

(* Threads are made after what they use, of what is built in, and joined    *)
(* before anything is destroyed.                                            *)
Lives(t) == thread[t] \notin {"none", "over"}
ThreadsAsPlanned ==
  /\ \A t \in ThreadNames : thread[t] # "none" => at >= 4 /\ ThreadsOf[t] \cap build # {}
  /\ at >= 12 => ~ Lives("infer")
  /\ at >= 13 => ~ Lives("clip")
  /\ at >= 14 => ~ Lives("upload")
  /\ at >= 15 => ~ Lives("rtsp")

(* What a detector thread may have read: from the close on it finds the     *)
(* queue closed, and once the flag is cleared, neither events nor room.     *)
Alarmed == thread["infer"] # "none" /\ {"infer", "clip"} \subseteq build
AlertsRefused ==
  /\ alert.at # "idle" => Alarmed
  /\ freed > 0 => at >= 16
  /\ Alarmed /\ at <= 16 => "events" \in ready
  /\ Alarmed /\ at >= 17 => freed = 4
  /\ "events" \in ready /\ freed = 0 => queue["events"].items
  /\ Alarmed /\ at >= 10 /\ freed < 4 => queue["events"].closed /\ alert.at \in {"idle", "closed?"}
  /\ Alarmed /\ freed >= 2 => queue["events"].capacity = 0
  /\ Alarmed /\ freed >= 3 => queue["events"].count = 0
  /\ Alarmed /\ freed = 4 => alert.at # "store" /\ (alert.at = "room?" => alert.count = 0)

LifeInv == LifeTypes /\ ReadyAsPlanned /\ ThreadsAsPlanned /\ AlertsRefused /\ ~ stray

(* The plan, line by line.                                                  *)
LEMMA PlanLines ==
  /\ DOMAIN Plan = 1 .. 18
  /\ Plan[1][1] = "init" /\ Plan[1][2] = "ring"
  /\ Plan[2][1] = "init" /\ Plan[2][2] = "clip"
  /\ Plan[3][1] = "init" /\ Plan[3][2] = "upload"
  /\ Plan[4][1] = "create" /\ Plan[4][2] = "rtsp"
  /\ Plan[5][1] = "create" /\ Plan[5][2] = "infer"
  /\ Plan[6][1] = "create" /\ Plan[6][2] = "clip"
  /\ Plan[7][1] = "create" /\ Plan[7][2] = "upload"
  /\ Plan[8][1] = "loop" /\ Plan[8][2] = ""
  /\ Plan[9][1] = "close" /\ Plan[9][2] = "events"
  /\ Plan[10][1] = "close" /\ Plan[10][2] = "jobs"
  /\ Plan[11][1] = "join" /\ Plan[11][2] = "infer"
  /\ Plan[12][1] = "join" /\ Plan[12][2] = "clip"
  /\ Plan[13][1] = "join" /\ Plan[13][2] = "upload"
  /\ Plan[14][1] = "join" /\ Plan[14][2] = "rtsp"
  /\ Plan[15][1] = "destroy" /\ Plan[15][2] = "jobs"
  /\ Plan[16][1] = "destroy" /\ Plan[16][2] = "events"
  /\ Plan[17][1] = "destroy" /\ Plan[17][2] = "ring"
  /\ Plan[18][1] = "exited" /\ Plan[18][2] = ""
BY DEF Plan

(* Where main is tells what it does, and with what.                         *)
LEMMA PlaceTells ==
  ASSUME at \in 1 .. 18
  PROVE  /\ Doing = "init" => \/ at = 1 /\ With = "ring"
                              \/ at = 2 /\ With = "clip"
                              \/ at = 3 /\ With = "upload"
         /\ Doing = "create" => \/ at = 4 /\ With = "rtsp"
                                \/ at = 5 /\ With = "infer"
                                \/ at = 6 /\ With = "clip"
                                \/ at = 7 /\ With = "upload"
         /\ Doing = "loop" => at = 8
         /\ Doing = "close" => \/ at = 9 /\ With = "events"
                               \/ at = 10 /\ With = "jobs"
         /\ Doing = "join" => \/ at = 11 /\ With = "infer"
                              \/ at = 12 /\ With = "clip"
                              \/ at = 13 /\ With = "upload"
                              \/ at = 14 /\ With = "rtsp"
         /\ Doing = "destroy" => \/ at = 15 /\ With = "jobs"
                                 \/ at = 16 /\ With = "events"
                                 \/ at = 17 /\ With = "ring"
         /\ Doing = "exited" => at = 18
         /\ Doing \in {"init", "create", "loop", "close", "join", "destroy", "exited"}
<1>1. CASE at \in 1 .. 3
  <2>1. at = 1 => Doing = "init" /\ With = "ring"
    BY PlanLines DEF Doing, With
  <2>2. at = 2 => Doing = "init" /\ With = "clip"
    BY PlanLines DEF Doing, With
  <2>3. at = 3 => Doing = "init" /\ With = "upload"
    BY PlanLines DEF Doing, With
  <2> QED
    BY <1>1, <2>1, <2>2, <2>3
<1>2. CASE at \in 4 .. 7
  <2>1. at = 4 => Doing = "create" /\ With = "rtsp"
    BY PlanLines DEF Doing, With
  <2>2. at = 5 => Doing = "create" /\ With = "infer"
    BY PlanLines DEF Doing, With
  <2>3. at = 6 => Doing = "create" /\ With = "clip"
    BY PlanLines DEF Doing, With
  <2>4. at = 7 => Doing = "create" /\ With = "upload"
    BY PlanLines DEF Doing, With
  <2> QED
    BY <1>2, <2>1, <2>2, <2>3, <2>4
<1>3. CASE at \in 9 .. 10
  <2>1. at = 9 => Doing = "close" /\ With = "events"
    BY PlanLines DEF Doing, With
  <2>2. at = 10 => Doing = "close" /\ With = "jobs"
    BY PlanLines DEF Doing, With
  <2> QED
    BY <1>3, <2>1, <2>2
<1>4. CASE at \in 11 .. 14
  <2>1. at = 11 => Doing = "join" /\ With = "infer"
    BY PlanLines DEF Doing, With
  <2>2. at = 12 => Doing = "join" /\ With = "clip"
    BY PlanLines DEF Doing, With
  <2>3. at = 13 => Doing = "join" /\ With = "upload"
    BY PlanLines DEF Doing, With
  <2>4. at = 14 => Doing = "join" /\ With = "rtsp"
    BY PlanLines DEF Doing, With
  <2> QED
    BY <1>4, <2>1, <2>2, <2>3, <2>4
<1>5. CASE at \in 15 .. 17
  <2>1. at = 15 => Doing = "destroy" /\ With = "jobs"
    BY PlanLines DEF Doing, With
  <2>2. at = 16 => Doing = "destroy" /\ With = "events"
    BY PlanLines DEF Doing, With
  <2>3. at = 17 => Doing = "destroy" /\ With = "ring"
    BY PlanLines DEF Doing, With
  <2> QED
    BY <1>5, <2>1, <2>2, <2>3
<1>6. at = 8 => Doing = "loop"
  BY PlanLines DEF Doing
<1>7. at = 18 => Doing = "exited"
  BY PlanLines DEF Doing
<1> QED
  BY <1>1, <1>2, <1>3, <1>4, <1>5, <1>6, <1>7

(* Where main goes on when a step fails.                                    *)
LEMMA Jumps == PlaceOf("loop") = 8 /\ PlaceOf("destroy") = 15
<1>1. \A i \in 1 .. 7 : Plan[i][1] # "loop" /\ Plan[i][1] # "destroy"
  <2>1. \A i \in 1 .. 7 : i = 1 \/ i = 2 \/ i = 3 \/ i = 4 \/ i = 5 \/ i = 6 \/ i = 7
    OBVIOUS
  <2> QED
    BY <2>1, PlanLines
<1>2. \A i \in 8 .. 14 : Plan[i][1] # "destroy"
  <2>1. \A i \in 8 .. 14 :
          i = 8 \/ i = 9 \/ i = 10 \/ i = 11 \/ i = 12 \/ i = 13 \/ i = 14
    OBVIOUS
  <2> QED
    BY <2>1, PlanLines
<1>3. ASSUME NEW what, NEW n \in 1 .. 18, Plan[n][1] = what,
             \A k \in 1 .. n - 1 : Plan[k][1] # what
      PROVE  PlaceOf(what) = n
  <2>1. ASSUME NEW i \in 1 .. 18, Plan[i][1] = what,
               \A k \in 1 .. i - 1 : Plan[k][1] # what
        PROVE  i = n
    <3>1. ~ (i < n) /\ ~ (n < i)
      BY <1>3, <2>1
    <3> QED
      BY <3>1
  <2>2. DOMAIN Plan = 1 .. 18
    BY PlanLines
  <2> DEFINE First(i) == Plan[i][1] = what /\ \A k \in 1 .. i - 1 : Plan[k][1] # what
  <2>3. PlaceOf(what) = CHOOSE i \in 1 .. 18 : First(i)
    BY <2>2 DEF PlaceOf
  <2>4. First(n) /\ \A i \in 1 .. 18 : First(i) => i = n
    BY <1>3, <2>1
  <2> HIDE DEF First
  <2> QED
    BY <2>3, <2>4
<1>4. PlaceOf("loop") = 8
  <2>1. Plan[8][1] = "loop"
    BY PlanLines
  <2>2. \A k \in 1 .. 8 - 1 : Plan[k][1] # "loop"
    BY <1>1
  <2> QED
    BY <1>3, <2>1, <2>2
<1>5. PlaceOf("destroy") = 15
  <2>1. Plan[15][1] = "destroy"
    BY PlanLines
  <2>2. \A k \in 1 .. 15 - 1 : Plan[k][1] # "destroy"
    BY <1>1, <1>2
  <2> QED
    BY <1>3, <2>1, <2>2
<1> QED
  BY <1>4, <1>5

LEMMA LifeInvAtStart == ASSUME LifeInit PROVE LifeInv
<1>1. /\ build \in Builds /\ at = 1 /\ ready = {} /\ freed = 0 /\ alert = NoAlert /\ stray = FALSE
      /\ \A t \in ThreadNames : thread[t] = "none"
      /\ thread \in [ThreadNames -> {"none"}]
      /\ queue = [r \in {"events", "jobs"} |-> NoQueue]
  BY DEF LifeInit, ThreadNames, ThreadsOf
<1>2. LifeTypes
  <2>1. NoQueue \in Fields
    BY DEF NoQueue, Fields
  <2>2. alert \in [at : {"idle", "closed?", "count", "room?", "store"}, count : Nat]
    BY <1>1 DEF NoAlert
  <2>3. thread \in [ThreadNames -> {"none", "starts", "works", "pops", "pushes", "over"}]
    BY <1>1
  <2>4. queue \in [{"events", "jobs"} -> Fields]
    BY <1>1, <2>1
  <2>5. build \in Builds /\ at \in 1 .. 18 /\ freed \in 0 .. 4
    BY <1>1
  <2>6. stray \in BOOLEAN
    BY <1>1
  <2> QED
    BY <2>2, <2>3, <2>4, <2>5, <2>6 DEF LifeTypes
<1>3. ReadyAsPlanned
  BY <1>1 DEF ReadyAsPlanned
<1>4. ThreadsAsPlanned
  BY <1>1 DEF ThreadsAsPlanned, Lives, ThreadNames
<1>5. AlertsRefused
  BY <1>1 DEF AlertsRefused, NoAlert, Alarmed, ThreadNames
<1> QED
  BY <1>1, <1>2, <1>3, <1>4, <1>5 DEF LifeInv

(* Only main moves in its plan, and never past the end of it.               *)
LEMMA MainMoves ==
  ASSUME LifeInv, MainStep
  PROVE  /\ at' \in 1 .. 18
         /\ at' = at \/ at' = at + 1 \/ (Doing = "init" /\ at' = 15) \/ (Doing = "create" /\ at' = 8)
         /\ UNCHANGED <<build, alert, alarms, stray>>
<1>1. at \in 1 .. 18
  BY DEF LifeInv, LifeTypes
<1>2. CASE InitResource
  BY <1>1, <1>2, PlaceTells, Jumps DEF InitResource, MainGoes, MainJumps, detectorVars
<1>3. CASE CreateThread
  BY <1>1, <1>3, PlaceTells DEF CreateThread, MainGoes, detectorVars
<1>4. CASE CreateFails
  BY <1>1, <1>4, PlaceTells, Jumps DEF CreateFails, MainJumps, detectorVars
<1>5. CASE LoopEnds
  BY <1>1, <1>5, PlaceTells DEF LoopEnds, MainGoes, detectorVars
<1>6. CASE CloseQueueOf
  BY <1>1, <1>6, PlaceTells DEF CloseQueueOf, MainGoes, detectorVars
<1>7. CASE JoinThread
  BY <1>1, <1>7, PlaceTells DEF JoinThread, MainGoes, detectorVars
<1>8. CASE DestroyEvents
  BY <1>1, <1>8 DEF DestroyEvents, detectorVars
<1>9. CASE Destroyed
  BY <1>1, <1>9, PlaceTells DEF Destroyed, MainGoes, detectorVars
<1> QED
  BY <1>2, <1>3, <1>4, <1>5, <1>6, <1>7, <1>8, <1>9 DEF MainStep

(* The fields of a queue keep their types.                                  *)
LEMMA FieldsKept ==
  ASSUME LifeInv, LifeNext
  PROVE  queue' \in [{"events", "jobs"} -> Fields]
<1>1. queue \in [{"events", "jobs"} -> Fields] /\ at \in 1 .. 18
  BY DEF LifeInv, LifeTypes
<1> DEFINE Put(q, f) == queue' = [queue EXCEPT ![q] = f]
<1>2. ASSUME NEW q \in {"events", "jobs"}, NEW f \in Fields, Put(q, f)
      PROVE  queue' \in [{"events", "jobs"} -> Fields]
  BY <1>1, <1>2
<1>3. ASSUME NEW q \in {"events", "jobs"}
      PROVE  /\ queue[q] \in Fields
             /\ queue[q].items \in BOOLEAN /\ queue[q].closed \in BOOLEAN
             /\ queue[q].capacity \in Nat /\ queue[q].count \in Nat
  BY <1>1 DEF Fields
<1>4. ASSUME NEW q \in {"events", "jobs"}, NEW n \in Nat
      PROVE  [queue[q] EXCEPT !.count = n] \in Fields
  BY <1>3 DEF Fields
<1>5. ASSUME NEW q \in {"events", "jobs"}, Adds(q)
      PROVE  queue' \in [{"events", "jobs"} -> Fields]
  <2>1. queue[q].count + 1 \in Nat
    BY <1>3
  <2>2. Put(q, [queue[q] EXCEPT !.count = queue[q].count + 1])
    BY <1>5 DEF Adds
  <2> QED
    BY <1>2, <1>4, <2>1, <2>2
<1>6. ASSUME NEW t, NEW q \in {"events", "jobs"}, Pops(t, q)
      PROVE  queue' \in [{"events", "jobs"} -> Fields]
  <2>1. CASE queue[q].count > 0 /\ queue' = [queue EXCEPT ![q].count = @ - 1]
    <3>1. queue[q].count - 1 \in Nat
      BY <1>3, <2>1
    <3>2. Put(q, [queue[q] EXCEPT !.count = queue[q].count - 1])
      BY <2>1
    <3> QED
      BY <1>2, <1>4, <3>1, <3>2
  <2>2. CASE UNCHANGED queue
    BY <1>1, <2>2
  <2> QED
    BY <1>6, <2>1, <2>2 DEF Pops
<1>7. CASE MainStep
  <2>1. CASE InitResource
    <3>1. EmptyQueue \in Fields
      BY LifecycleAssumption DEF EmptyQueue, Fields
    <3> QED
      BY <1>1, <2>1, <3>1 DEF InitResource
  <2>2. CASE CloseQueueOf
    <3>1. With \in {"events", "jobs"}
      BY <1>1, <2>2, PlaceTells DEF CloseQueueOf
    <3>2. [queue[With] EXCEPT !.closed = With \in ready] \in Fields
      <4>1. (With \in ready) \in BOOLEAN
        OBVIOUS
      <4> QED
        BY <1>3, <3>1, <4>1 DEF Fields
    <3>3. Put(With, [queue[With] EXCEPT !.closed = With \in ready])
      BY <2>2 DEF CloseQueueOf
    <3> QED
      BY <1>2, <3>1, <3>2, <3>3
  <2>3. CASE DestroyEvents
    <3> DEFINE field == DestroySteps[freed + 1]
    <3>1. queue' = [queue EXCEPT !["events"] =
                      [x \in DOMAIN @ |-> IF x = field THEN NoQueue[x] ELSE @[x]]]
      BY <2>3 DEF DestroyEvents
    <3> HIDE DEF field
    <3>2. [x \in DOMAIN queue["events"] |-> IF x = field THEN NoQueue[x] ELSE queue["events"][x]]
            \in Fields
      <4>1. queue["events"] \in Fields
        BY <1>3
      <4> QED
        BY <4>1 DEF NoQueue, Fields
    <3> QED
      BY <1>1, <3>1, <3>2
  <2>4. CASE CreateThread \/ CreateFails \/ LoopEnds \/ JoinThread \/ Destroyed
    BY <1>1, <2>4 DEF CreateThread, CreateFails, LoopEnds, JoinThread, Destroyed
  <2> QED
    BY <1>7, <2>1, <2>2, <2>3, <2>4 DEF MainStep
<1>8. CASE ThreadStep
  <2>1. CASE \E t \in DOMAIN thread : Loops(t)
    BY <1>1, <2>1 DEF Loops
  <2>2. CASE Pops("clip", "events") \/ Pops("upload", "jobs")
    BY <1>6, <2>2
  <2>3. CASE ClipPushes
    BY <1>1, <1>5, <2>3 DEF ClipPushes
  <2> QED
    BY <1>8, <2>1, <2>2, <2>3 DEF ThreadStep
<1>9. CASE TestEvent
  BY <1>5, <1>9 DEF TestEvent
<1>10. CASE AlertStores
  <2>1. queue["events"].count + 1 \in Nat
    BY <1>3
  <2>2. Put("events", [queue["events"] EXCEPT !.count = queue["events"].count + 1])
    BY <1>10 DEF AlertStores
  <2> QED
    BY <1>2, <1>4, <2>1, <2>2
<1>11. CASE StopSignal \/ InferFails \/ AlertEnters \/ AlertReads
  BY <1>1, <1>11 DEF StopSignal, InferFails, AlertEnters, AlertReads
<1> QED
  BY <1>7, <1>8, <1>9, <1>10, <1>11 DEF LifeNext

(* Which thread a step moves, and where to.                                 *)
ThreadMoves(t, there) ==
  thread' = [thread EXCEPT ![t] = there]

(* A thread starts when main creates it, and nothing else brings one to     *)
(* life; what lives no more stays so.                                       *)
LEMMA ThreadsMove ==
  ASSUME LifeInv, LifeNext
  PROVE  \/ UNCHANGED thread
         \/ /\ CreateThread /\ With \in ThreadNames
            /\ thread' = [thread EXCEPT ![With] =
                            IF ThreadsOf[With] \cap build # {} THEN "starts" ELSE "none"]
         \/ /\ UNCHANGED <<build, at, ready, freed, alert, stray>>
            /\ \E t \in ThreadNames, there \in {"over", "pops", "works", "pushes"} :
                  Lives(t) /\ ThreadMoves(t, there)
<1>1. DOMAIN thread = ThreadNames /\ at \in 1 .. 18
  BY DEF LifeInv, LifeTypes
<1>2. CASE CreateThread
  <2>1. With \in ThreadNames
    BY <1>1, <1>2, PlaceTells DEF CreateThread, ThreadNames
  <2> QED
    BY <1>2, <2>1 DEF CreateThread
<1>3. ASSUME NEW t \in ThreadNames, Loops(t)
      PROVE  /\ UNCHANGED <<build, at, ready, freed, alert, stray>>
             /\ \E there \in {"over", "pops", "works", "pushes"} :
                   Lives(t) /\ ThreadMoves(t, there)
  BY <1>3 DEF Loops, Goes, ThreadMoves, Lives, ThreadOnly, detectorVars
<1>4. ASSUME NEW t \in ThreadNames, NEW q, Pops(t, q)
      PROVE  /\ UNCHANGED <<build, at, ready, freed, alert, stray>>
             /\ \E there \in {"over", "pops", "works", "pushes"} :
                   Lives(t) /\ ThreadMoves(t, there)
  <2>1. Lives(t)
    BY <1>4 DEF Pops, Lives
  <2>2. ThreadMoves(t, "works") \/ ThreadMoves(t, "pushes") \/ ThreadMoves(t, "over")
    BY <1>4 DEF Pops, Goes, ThreadMoves
  <2>3. UNCHANGED <<build, at, ready, freed, alert, stray>>
    BY <1>4 DEF Pops, ThreadOnly, detectorVars
  <2> QED
    BY <2>1, <2>2, <2>3
<1>5. CASE ThreadStep
  <2>1. CASE ClipPushes
    BY <2>1 DEF ClipPushes, Goes, ThreadMoves, Lives, ThreadOnly, detectorVars, ThreadNames
  <2>2. "clip" \in ThreadNames /\ "upload" \in ThreadNames
    BY DEF ThreadNames
  <2> QED
    BY <1>1, <1>3, <1>4, <1>5, <2>1, <2>2 DEF ThreadStep
<1>6. CASE InferFails
  BY <1>6 DEF InferFails, Goes, ThreadMoves, Lives, ThreadOnly, detectorVars, ThreadNames
<1>7. CASE InitResource \/ CreateFails \/ LoopEnds \/ CloseQueueOf \/ JoinThread
             \/ DestroyEvents \/ Destroyed
  BY <1>7 DEF InitResource, CreateFails, LoopEnds, CloseQueueOf, JoinThread, DestroyEvents, Destroyed
<1>8. CASE StopSignal \/ TestEvent \/ AlertEnters \/ AlertReads \/ AlertStores
  BY <1>8 DEF StopSignal, TestEvent, AlertEnters, AlertReads, AlertStores
<1> QED
  BY <1>2, <1>5, <1>6, <1>7, <1>8 DEF LifeNext, MainStep

(* What does not belong to main leaves main where it is.                    *)
LEMMA OnlyMainMoves ==
  ASSUME LifeNext, ~ MainStep
  PROVE  UNCHANGED <<build, at, ready, freed>>
<1>1. CASE ThreadStep
  BY <1>1 DEF ThreadStep, Loops, Pops, ClipPushes, ThreadOnly
<1>2. CASE StopSignal \/ InferFails \/ TestEvent \/ AlertEnters \/ AlertReads \/ AlertStores
  BY <1>2 DEF StopSignal, InferFails, TestEvent, AlertEnters, AlertReads, AlertStores, ThreadOnly
<1> QED
  BY <1>1, <1>2 DEF LifeNext

LEMMA LifeTypesKept == ASSUME LifeInv, LifeNext PROVE LifeTypes'
<1>1. /\ at \in 1 .. 18 /\ build \in Builds /\ freed \in 0 .. 4 /\ stray \in BOOLEAN
      /\ thread \in [ThreadNames -> {"none", "starts", "works", "pops", "pushes", "over"}]
      /\ alert \in [at : {"idle", "closed?", "count", "room?", "store"}, count : Nat]
      /\ queue \in [{"events", "jobs"} -> Fields]
  BY DEF LifeInv, LifeTypes
<1>2. at' \in 1 .. 18 /\ build' \in Builds
  BY <1>1, MainMoves, OnlyMainMoves
<1>3. thread' \in [ThreadNames -> {"none", "starts", "works", "pops", "pushes", "over"}]
  BY <1>1, ThreadsMove DEF ThreadMoves
<1>4. queue' \in [{"events", "jobs"} -> Fields]
  BY FieldsKept
<1>5. freed' \in 0 .. 4
  <2>1. CASE DestroyEvents
    <3>1. freed < 4 /\ freed' = freed + 1
      BY <2>1 DEF DestroyEvents, DestroySteps
    <3> QED
      BY <1>1, <3>1
  <2>2. CASE MainStep /\ ~ DestroyEvents
    BY <1>1, <2>2 DEF MainStep, InitResource, CreateThread, CreateFails, LoopEnds, CloseQueueOf,
                      JoinThread, Destroyed
  <2> QED
    BY <1>1, <2>1, <2>2, OnlyMainMoves
<1>6. alert' \in [at : {"idle", "closed?", "count", "room?", "store"}, count : Nat] /\ stray' \in BOOLEAN
  <2>1. NoAlert \in [at : {"idle", "closed?", "count", "room?", "store"}, count : Nat]
    BY DEF NoAlert
  <2>2. CASE AlertEnters
    BY <1>1, <2>1, <2>2 DEF AlertEnters
  <2>3. CASE AlertReads
    <3>1. queue["events"].count \in Nat
      BY <1>1 DEF Fields
    <3> QED
      BY <1>1, <2>1, <2>3, <3>1 DEF AlertReads
  <2>4. CASE AlertStores
    BY <1>1, <2>1, <2>4 DEF AlertStores
  <2>5. CASE UNCHANGED <<alert, stray>>
    BY <1>1, <2>5
  <2>6. CASE ThreadStep \/ InferFails \/ TestEvent \/ StopSignal
    BY <2>5, <2>6 DEF ThreadStep, Loops, Pops, ClipPushes, InferFails, TestEvent, StopSignal,
                      ThreadOnly, detectorVars
  <2> QED
    BY <2>2, <2>3, <2>4, <2>5, <2>6, MainMoves DEF LifeNext
<1> QED
  BY <1>2, <1>3, <1>4, <1>5, <1>6 DEF LifeTypes

(* A jump is made before the threads, or over the rest of their making.     *)
LEMMA ReadyKept == ASSUME LifeInv, LifeNext PROVE ReadyAsPlanned'
<1>1. at \in 1 .. 18 /\ ReadyAsPlanned
  BY DEF LifeInv, LifeTypes
<1>2. CASE InitResource
  <2>1. /\ ResourceOf["ring"] = "ring" /\ ResourceOf["clip"] = "events"
        /\ ResourceOf["upload"] = "jobs"
    BY DEF ResourceOf
  <2>2. CASE With \in build /\ at' = at + 1 /\ ready' = ready \cup {ResourceOf[With]}
    <3>1. UNCHANGED build /\ Doing = "init"
      BY <1>2 DEF InitResource
    <3>2. \/ at = 1 /\ ready' = ready \cup {"ring"} /\ "ring" \in build
          \/ at = 2 /\ ready' = ready \cup {"events"} /\ "clip" \in build
          \/ at = 3 /\ ready' = ready \cup {"jobs"} /\ "upload" \in build
      BY <1>1, <2>1, <2>2, <3>1, PlaceTells
    <3>3. /\ at = 1 => "ring" \in ready' /\ "events" \notin ready' /\ "jobs" \notin ready'
          /\ at = 2 => "events" \in ready' /\ "jobs" \notin ready'
          /\ at = 2 => ("ring" \in ready' <=> "ring" \in ready)
          /\ at = 3 => "jobs" \in ready'
          /\ at = 3 => ("ring" \in ready' <=> "ring" \in ready)
          /\ at = 3 => ("events" \in ready' <=> "events" \in ready)
          /\ ready' \subseteq {"ring", "events", "jobs"}
      <4>1. /\ "events" \in ready => at >= 3
            /\ "jobs" \in ready => at >= 4
            /\ ready \subseteq {"ring", "events", "jobs"}
        BY <1>1 DEF ReadyAsPlanned
      <4>2. CASE at = 1
        <5>1. ready' = ready \cup {"ring"}
          BY <3>2, <4>2
        <5>2. "events" \notin ready /\ "jobs" \notin ready
          BY <4>1, <4>2
        <5> QED
          BY <4>1, <4>2, <5>1, <5>2
      <4>3. CASE at = 2
        <5>1. ready' = ready \cup {"events"}
          BY <3>2, <4>3
        <5>2. "jobs" \notin ready
          BY <4>1, <4>3
        <5> QED
          BY <4>1, <4>3, <5>1, <5>2
      <4>4. CASE at = 3
        <5>1. ready' = ready \cup {"jobs"}
          BY <3>2, <4>4
        <5> QED
          BY <4>1, <4>4, <5>1
      <4> QED
        BY <3>2, <4>2, <4>3, <4>4
    <3> QED
      BY <1>1, <2>2, <3>1, <3>2, <3>3 DEF ReadyAsPlanned
  <2>3. CASE With \notin build /\ at' = at + 1 /\ UNCHANGED ready
    <3>1. UNCHANGED build /\ Doing = "init"
      BY <1>2 DEF InitResource
    <3>2. \/ at = 1 /\ "ring" \notin build
          \/ at = 2 /\ "clip" \notin build
          \/ at = 3 /\ "upload" \notin build
      BY <1>1, <2>3, <3>1, PlaceTells
    <3> QED
      BY <1>1, <2>3, <3>1, <3>2 DEF ReadyAsPlanned
  <2>4. CASE at' = 15 /\ UNCHANGED ready
    <3>1. UNCHANGED build /\ at \in 1 .. 3
      BY <1>1, <1>2, PlaceTells DEF InitResource
    <3> QED
      BY <1>1, <2>4, <3>1 DEF ReadyAsPlanned
  <2> QED
    BY <1>2, <2>2, <2>3, <2>4, Jumps DEF InitResource, MainGoes, MainJumps
<1>3. CASE CreateThread \/ CreateFails \/ LoopEnds \/ CloseQueueOf \/ JoinThread
  <2>1. UNCHANGED <<build, ready>>
    BY <1>3 DEF CreateThread, CreateFails, LoopEnds, CloseQueueOf, JoinThread
  <2>2. at \in 4 .. 14 /\ (at' = at + 1 \/ at' = 8)
    BY <1>1, <1>3, PlaceTells, Jumps
       DEF CreateThread, CreateFails, LoopEnds, CloseQueueOf, JoinThread, MainGoes, MainJumps
  <2> QED
    BY <1>1, <2>1, <2>2 DEF ReadyAsPlanned
<1>4. CASE Destroyed
  <2>1. UNCHANGED build /\ at' = at + 1 /\ ready' = ready \ {With}
    BY <1>4 DEF Destroyed, MainGoes
  <2>2. \/ at = 15 /\ With = "jobs"
        \/ at = 16 /\ With = "events"
        \/ at = 17 /\ With = "ring"
    BY <1>1, <1>4, PlaceTells DEF Destroyed
  <2>3. /\ at = 15 => "jobs" \notin ready'
        /\ at = 15 => ("events" \in ready' <=> "events" \in ready)
        /\ at \in 15 .. 16 => ("ring" \in ready' <=> "ring" \in ready)
        /\ at \in 16 .. 17 => "jobs" \notin ready' /\ "events" \notin ready'
        /\ at = 17 => "ring" \notin ready'
        /\ ready' \subseteq {"ring", "events", "jobs"}
    <3>1. /\ "jobs" \in ready => at <= 15
          /\ "events" \in ready => at <= 16
          /\ ready \subseteq {"ring", "events", "jobs"}
      BY <1>1 DEF ReadyAsPlanned
    <3>2. CASE at = 15
      <4>1. ready' = ready \ {"jobs"}
        BY <2>1, <2>2, <3>2
      <4> QED
        BY <3>1, <3>2, <4>1
    <3>3. CASE at = 16
      <4>1. ready' = ready \ {"events"} /\ "jobs" \notin ready
        BY <2>1, <2>2, <3>1, <3>3
      <4> QED
        BY <3>1, <3>3, <4>1
    <3>4. CASE at = 17
      <4>1. ready' = ready \ {"ring"} /\ "jobs" \notin ready /\ "events" \notin ready
        BY <2>1, <2>2, <3>1, <3>4
      <4> QED
        BY <3>1, <3>4, <4>1
    <3> QED
      BY <2>2, <3>2, <3>3, <3>4
  <2> QED
    BY <1>1, <2>1, <2>2, <2>3 DEF ReadyAsPlanned
<1>5. CASE UNCHANGED <<build, at, ready>>
  BY <1>1, <1>5 DEF ReadyAsPlanned
<1> QED
  BY <1>2, <1>3, <1>4, <1>5, OnlyMainMoves DEF MainStep, DestroyEvents

LEMMA ThreadsKept == ASSUME LifeInv, LifeNext PROVE ThreadsAsPlanned'
<1>1. /\ at \in 1 .. 18 /\ ThreadsAsPlanned
      /\ thread \in [ThreadNames -> {"none", "starts", "works", "pops", "pushes", "over"}]
  BY DEF LifeInv, LifeTypes
<1>2. CASE CreateThread
  <2>1. /\ at' = at + 1 /\ at \in 4 .. 7 /\ UNCHANGED build
    BY <1>1, <1>2, PlaceTells DEF CreateThread, MainGoes
  <2>2. ASSUME NEW t \in ThreadNames, thread'[t] # "none"
        PROVE  ThreadsOf[t] \cap build # {}
    BY <1>1, <1>2, <2>2 DEF CreateThread, ThreadsAsPlanned
  <2> QED
    BY <2>1, <2>2 DEF ThreadsAsPlanned
<1>3. CASE /\ UNCHANGED <<build, at, ready, freed, alert, stray>>
           /\ \E t \in ThreadNames, there \in {"over", "pops", "works", "pushes"} :
                 Lives(t) /\ ThreadMoves(t, there)
  <2>1. \A t \in ThreadNames : Lives(t)' => Lives(t)
    BY <1>1, <1>3 DEF Lives, ThreadMoves
  <2>2. \A t \in ThreadNames : thread'[t] # "none" => thread[t] # "none"
    BY <1>1, <1>3 DEF Lives, ThreadMoves
  <2> QED
    BY <1>1, <1>3, <2>1, <2>2 DEF ThreadsAsPlanned, ThreadNames
<1>4. CASE UNCHANGED thread /\ ~ CreateThread
  <2>1. UNCHANGED build
    BY MainMoves, OnlyMainMoves
  <2>2. \A t \in ThreadNames : Lives(t)' <=> Lives(t)
    BY <1>4 DEF Lives
  <2>3. CASE InitResource
    <3>1. at \in 1 .. 3
      BY <1>1, <2>3, PlaceTells DEF InitResource
    <3>2. \A t \in ThreadNames : thread[t] = "none"
      BY <1>1, <3>1 DEF ThreadsAsPlanned
    <3>3. \A t \in ThreadNames : thread'[t] = "none" /\ ~ Lives(t)'
      BY <1>4, <3>2 DEF Lives
    <3> QED
      BY <3>3 DEF ThreadsAsPlanned, ThreadNames
  <2>4. CASE CreateFails
    <3>1. at \in 4 .. 7 /\ at' = 8
      BY <1>1, <2>4, PlaceTells, Jumps DEF CreateFails, MainJumps
    <3> QED
      BY <1>1, <1>4, <2>1, <3>1 DEF ThreadsAsPlanned
  <2>5. CASE LoopEnds \/ CloseQueueOf \/ Destroyed
    <3>1. at' = at + 1 /\ (at \in 8 .. 10 \/ at \in 15 .. 17)
      BY <1>1, <2>5, PlaceTells DEF LoopEnds, CloseQueueOf, Destroyed, MainGoes
    <3> QED
      BY <1>1, <1>4, <2>1, <2>2, <3>1 DEF ThreadsAsPlanned, ThreadNames
  <2>6. CASE JoinThread
    <3>1. /\ at' = at + 1
          /\ \/ at = 11 /\ With = "infer"
             \/ at = 12 /\ With = "clip"
             \/ at = 13 /\ With = "upload"
             \/ at = 14 /\ With = "rtsp"
      BY <1>1, <2>6, PlaceTells DEF JoinThread, MainGoes
    <3>2. ~ Lives(With)
      BY <1>1, <2>6, <3>1 DEF JoinThread, Living, Lives, ThreadNames
    <3> QED
      BY <1>1, <1>4, <2>1, <2>2, <3>1, <3>2 DEF ThreadsAsPlanned, ThreadNames
  <2>7. CASE UNCHANGED at
    BY <1>1, <1>4, <2>1, <2>2, <2>7 DEF ThreadsAsPlanned, ThreadNames
  <2> QED
    BY <1>4, <2>3, <2>4, <2>5, <2>6, <2>7, OnlyMainMoves DEF MainStep, DestroyEvents
<1> QED
  BY <1>2, <1>3, <1>4, ThreadsMove

(* A step of the detector or of another thread, before the queue of events  *)
(* is being destroyed: the array and its flag stay as they are.             *)
LEMMA FlagsKept ==
  ASSUME LifeInv, LifeNext, ~ MainStep
  PROVE  /\ queue'["events"].items = queue["events"].items
         /\ queue'["events"].closed = queue["events"].closed
         /\ queue'["events"].capacity = queue["events"].capacity
<1>1. queue \in [{"events", "jobs"} -> Fields]
  BY DEF LifeInv, LifeTypes
<1>2. queue["events"] \in Fields /\ queue["jobs"] \in Fields
  BY <1>1
<1>3. ASSUME NEW q \in {"events", "jobs"}, NEW n, queue' = [queue EXCEPT ![q].count = n]
      PROVE  /\ queue'["events"].items = queue["events"].items
             /\ queue'["events"].closed = queue["events"].closed
             /\ queue'["events"].capacity = queue["events"].capacity
  <2>1. /\ [queue["events"] EXCEPT !.count = n].items = queue["events"].items
        /\ [queue["events"] EXCEPT !.count = n].closed = queue["events"].closed
        /\ [queue["events"] EXCEPT !.count = n].capacity = queue["events"].capacity
    BY <1>2 DEF Fields
  <2>2. queue'["events"] = queue["events"] \/ queue'["events"] = [queue["events"] EXCEPT !.count = n]
    BY <1>1, <1>3
  <2> QED
    BY <2>1, <2>2
<1>4. CASE UNCHANGED queue
  BY <1>4
<1>5. ASSUME NEW q \in {"events", "jobs"}, Adds(q)
      PROVE  \E n : queue' = [queue EXCEPT ![q].count = n]
  BY <1>5 DEF Adds
<1>6. ASSUME NEW t, NEW q \in {"events", "jobs"}, Pops(t, q)
      PROVE  UNCHANGED queue \/ \E n : queue' = [queue EXCEPT ![q].count = n]
  BY <1>6 DEF Pops
<1>7. CASE ThreadStep
  <2>1. CASE \E t \in DOMAIN thread : Loops(t)
    BY <1>4, <2>1 DEF Loops
  <2>2. CASE Pops("clip", "events") \/ Pops("upload", "jobs")
    BY <1>3, <1>4, <1>6, <2>2
  <2>3. CASE ClipPushes
    BY <1>3, <1>4, <1>5, <2>3 DEF ClipPushes
  <2> QED
    BY <1>7, <2>1, <2>2, <2>3 DEF ThreadStep
<1>8. CASE TestEvent
  BY <1>3, <1>5, <1>8 DEF TestEvent
<1>9. CASE AlertStores
  BY <1>3, <1>9 DEF AlertStores
<1>10. CASE StopSignal \/ InferFails \/ AlertEnters \/ AlertReads
  BY <1>4, <1>10 DEF StopSignal, InferFails, AlertEnters, AlertReads
<1> QED
  BY <1>7, <1>8, <1>9, <1>10 DEF LifeNext

(* What a detector thread has read, after one of its steps.                 *)
LEMMA AlertMoves ==
  ASSUME LifeInv, LifeNext, ~ AlertReads
  PROVE  \/ UNCHANGED alert
         \/ alert'.at = "idle"
         \/ AlertEnters /\ alert'.at = "closed?" /\ Alarmed
<1>1. alert \in [at : {"idle", "closed?", "count", "room?", "store"}, count : Nat]
  BY DEF LifeInv, LifeTypes
<1>2. NoAlert.at = "idle" /\ [NoAlert EXCEPT !.at = "closed?"].at = "closed?"
  BY DEF NoAlert
<1>3. CASE AlertEnters
  BY <1>2, <1>3 DEF AlertEnters, Alarmed
<1>4. CASE AlertStores
  BY <1>2, <1>4 DEF AlertStores
<1>5. CASE ThreadStep \/ InferFails \/ TestEvent \/ StopSignal
  BY <1>5 DEF ThreadStep, Loops, Pops, ClipPushes, InferFails, TestEvent, StopSignal,
              ThreadOnly, detectorVars
<1> QED
  BY <1>3, <1>4, <1>5, MainMoves DEF LifeNext

(* A detector thread lives on from the start of the infer thread.           *)
LEMMA AlarmedKept ==
  ASSUME LifeInv, LifeNext, ~ CreateThread
  PROVE  Alarmed' <=> Alarmed
<1>1. UNCHANGED build
  BY MainMoves, OnlyMainMoves
<1>2. thread \in [ThreadNames -> {"none", "starts", "works", "pops", "pushes", "over"}]
  BY DEF LifeInv, LifeTypes
<1>3. thread'["infer"] # "none" <=> thread["infer"] # "none"
  BY <1>2, ThreadsMove DEF ThreadMoves, Lives, ThreadNames
<1> QED
  BY <1>1, <1>3 DEF Alarmed

(* Nobody counts an event into a queue that has lost its count: who could   *)
(* store one has been refused before, and the threads are over.             *)
LEMMA CountStaysCleared ==
  ASSUME LifeInv, LifeNext, ~ MainStep, Alarmed, freed >= 3
  PROVE  queue'["events"] = queue["events"]
<1>1. /\ at \in 1 .. 18 /\ freed \in 0 .. 4
      /\ thread \in [ThreadNames -> {"none", "starts", "works", "pops", "pushes", "over"}]
      /\ queue \in [{"events", "jobs"} -> Fields]
      /\ ThreadsAsPlanned /\ AlertsRefused
  BY DEF LifeInv, LifeTypes
<1>2. at >= 16 /\ alert.at # "store"
  <2>1. at >= 16
    BY <1>1 DEF AlertsRefused
  <2>2. CASE freed = 3
    BY <1>1, <2>1, <2>2 DEF AlertsRefused
  <2>3. CASE freed = 4
    BY <1>1, <2>3 DEF AlertsRefused
  <2> QED
    BY <1>1, <2>1, <2>2, <2>3
<1>3. \A t \in ThreadNames : ~ Lives(t)
  BY <1>1, <1>2 DEF ThreadsAsPlanned, ThreadNames
<1>4. \A t \in ThreadNames : thread[t] \in {"none", "over"}
  BY <1>3 DEF Lives
<1>5. ~ ThreadStep /\ ~ TestEvent /\ ~ InferFails
  <2>1. DOMAIN thread = ThreadNames /\ {"infer", "clip", "upload"} \subseteq ThreadNames
    BY <1>1 DEF ThreadNames
  <2> QED
    BY <1>4, <2>1 DEF ThreadStep, Loops, Pops, ClipPushes, TestEvent, InferFails
<1>6. ~ AlertStores
  BY <1>2 DEF AlertStores
<1> QED
  BY <1>5, <1>6 DEF LifeNext, StopSignal, AlertEnters, AlertReads

(* One reading of a detector thread.                                        *)
LEMMA ReadingKept == ASSUME LifeInv, AlertReads PROVE AlertsRefused'
<1>1. /\ at \in 1 .. 18 /\ freed \in 0 .. 4 /\ AlertsRefused
      /\ alert \in [at : {"idle", "closed?", "count", "room?", "store"}, count : Nat]
      /\ queue \in [{"events", "jobs"} -> Fields]
  BY DEF LifeInv, LifeTypes
<1>2. UNCHANGED <<build, at, ready, thread, queue, freed>> /\ alert.at # "idle"
  BY DEF AlertReads
<1>3. Alarmed /\ Alarmed'
  BY <1>1, <1>2 DEF AlertsRefused, Alarmed
<1> DEFINE q == queue["events"]
<1>4. NoAlert.at = "idle"
  BY DEF NoAlert
<1>5. CASE alert.at = "closed?"
  <2>1. \/ q.closed /\ alert'.at = "idle"
        \/ ~ q.closed /\ alert'.at = "count"
    BY <1>1, <1>4, <1>5 DEF AlertReads
  <2>2. ~ (at >= 10 /\ freed < 4 /\ alert'.at = "count")
    BY <1>1, <1>3, <2>1 DEF AlertsRefused
  <2> QED
    BY <1>1, <1>2, <1>3, <2>1, <2>2 DEF AlertsRefused
<1>6. CASE alert.at = "count"
  <2>1. alert' = [at |-> "room?", count |-> q.count]
    BY <1>6 DEF AlertReads
  <2>2. alert'.at = "room?" /\ alert'.count = q.count
    BY <2>1
  <2>3. ~ (at >= 10 /\ freed < 4)
    BY <1>1, <1>3, <1>6 DEF AlertsRefused
  <2> QED
    BY <1>1, <1>2, <1>3, <2>2, <2>3 DEF AlertsRefused
<1>7. CASE alert.at = "room?"
  <2>1. \/ alert'.at = "idle"
        \/ alert.count # q.capacity /\ alert'.at = "store"
    BY <1>1, <1>4, <1>7 DEF AlertReads
  <2>2. ~ (at >= 10 /\ freed < 4)
    BY <1>1, <1>3, <1>7 DEF AlertsRefused
  <2>3. freed = 4 => alert.count = 0 /\ q.capacity = 0
    BY <1>1, <1>3, <1>7 DEF AlertsRefused
  <2> QED
    BY <1>1, <1>2, <1>3, <2>1, <2>2, <2>3 DEF AlertsRefused
<1> QED
  BY <1>5, <1>6, <1>7 DEF AlertReads

(* The steps of the other threads, and of a detector thread that enters or  *)
(* stores.                                                                  *)
LEMMA OthersKeepAlerts ==
  ASSUME LifeInv, LifeNext, ~ MainStep, ~ AlertReads
  PROVE  AlertsRefused'
<1>1. at \in 1 .. 18 /\ freed \in 0 .. 4 /\ AlertsRefused
  BY DEF LifeInv, LifeTypes
<1>2. UNCHANGED <<build, at, ready, freed>>
  BY OnlyMainMoves
<1>3. Alarmed' <=> Alarmed
  BY AlarmedKept DEF MainStep
<1>4. /\ queue'["events"].items = queue["events"].items
      /\ queue'["events"].closed = queue["events"].closed
      /\ queue'["events"].capacity = queue["events"].capacity
  BY FlagsKept
<1>5. Alarmed /\ freed >= 3 => queue'["events"].count = queue["events"].count
  BY CountStaysCleared
<1>6. \/ UNCHANGED alert
      \/ alert'.at = "idle"
      \/ alert'.at = "closed?" /\ Alarmed
  BY AlertMoves
<1>7. /\ alert'.at # "idle" => Alarmed'
      /\ freed' > 0 => at' >= 16
      /\ Alarmed' /\ at' <= 16 => "events" \in ready'
      /\ Alarmed' /\ at' >= 17 => freed' = 4
  BY <1>1, <1>2, <1>3, <1>6 DEF AlertsRefused
<1>8. /\ "events" \in ready' /\ freed' = 0 => queue'["events"].items
      /\ Alarmed' /\ freed' >= 2 => queue'["events"].capacity = 0
      /\ Alarmed' /\ freed' >= 3 => queue'["events"].count = 0
  BY <1>1, <1>2, <1>3, <1>4, <1>5 DEF AlertsRefused
<1>9. Alarmed' /\ at' >= 10 /\ freed' < 4
        => queue'["events"].closed /\ alert'.at \in {"idle", "closed?"}
  BY <1>1, <1>2, <1>3, <1>4, <1>6 DEF AlertsRefused
<1>10. Alarmed' /\ freed' = 4
         => alert'.at # "store" /\ (alert'.at = "room?" => alert'.count = 0)
  BY <1>1, <1>2, <1>3, <1>6 DEF AlertsRefused
<1> QED
  BY <1>7, <1>8, <1>9, <1>10 DEF AlertsRefused

(* The start: no detector thread before the threads are made, and the queue *)
(* of events is there before them.                                          *)
LEMMA StartKeepsAlerts ==
  ASSUME LifeInv, LifeNext, InitResource \/ CreateThread
  PROVE  AlertsRefused'
<1>1. /\ at \in 1 .. 18 /\ freed \in 0 .. 4 /\ AlertsRefused /\ ThreadsAsPlanned /\ ReadyAsPlanned
      /\ queue \in [{"events", "jobs"} -> Fields]
      /\ thread \in [ThreadNames -> {"none", "starts", "works", "pops", "pushes", "over"}]
  BY DEF LifeInv, LifeTypes
<1>2. at \in 1 .. 7 /\ UNCHANGED <<build, alert, freed>>
  BY <1>1, PlaceTells DEF InitResource, CreateThread, detectorVars
<1>3. freed = 0 /\ freed' = 0
  BY <1>1, <1>2 DEF AlertsRefused
<1>4. CASE InitResource
  <2>1. at \in 1 .. 3 /\ UNCHANGED thread
    BY <1>1, <1>4, PlaceTells DEF InitResource
  <2>2. ~ Alarmed /\ ~ Alarmed'
    BY <1>1, <2>1 DEF ThreadsAsPlanned, Alarmed, ThreadNames
  <2>3. "events" \in ready' => queue'["events"].items
    <3>1. CASE UNCHANGED <<ready, queue>>
      BY <1>1, <1>3, <3>1 DEF AlertsRefused
    <3>2. CASE /\ ready' = ready \cup {ResourceOf[With]}
               /\ queue' = [r \in DOMAIN queue |->
                              IF r = ResourceOf[With] THEN EmptyQueue ELSE queue[r]]
      <4>1. EmptyQueue.items
        BY DEF EmptyQueue
      <4>2. queue'["events"] = IF "events" = ResourceOf[With] THEN EmptyQueue ELSE queue["events"]
        BY <1>1, <3>2
      <4>3. CASE "events" = ResourceOf[With]
        BY <4>1, <4>2, <4>3
      <4>4. CASE "events" # ResourceOf[With]
        BY <1>1, <1>3, <3>2, <4>2, <4>4 DEF AlertsRefused
      <4> QED
        BY <4>3, <4>4
    <3> QED
      BY <1>4, <3>1, <3>2 DEF InitResource
  <2>4. alert'.at = "idle"
    BY <1>1, <1>2, <2>2 DEF AlertsRefused
  <2> QED
    BY <1>3, <2>2, <2>3, <2>4 DEF AlertsRefused
<1>5. CASE CreateThread
  <2>1. at \in 4 .. 7 /\ at' = at + 1 /\ UNCHANGED <<queue, ready>>
    BY <1>1, <1>5, PlaceTells DEF CreateThread, MainGoes
  <2>2. Alarmed' => "events" \in ready'
    <3>1. Alarmed' => "clip" \in build
      BY <1>2 DEF Alarmed
    <3> QED
      BY <1>1, <2>1, <3>1 DEF ReadyAsPlanned
  <2>3. Alarmed => Alarmed'
    <3>1. CASE With = "infer" /\ Alarmed
      <4>1. ThreadsOf["infer"] \cap build # {}
        BY <3>1 DEF ThreadsOf, Alarmed
      <4>2. thread'["infer"] = "starts"
        BY <1>1, <1>5, <3>1, <4>1 DEF CreateThread, ThreadNames
      <4> QED
        BY <1>2, <3>1, <4>2 DEF Alarmed
    <3>2. CASE With # "infer"
      <4>1. thread'["infer"] = thread["infer"]
        BY <1>1, <1>5, <3>2 DEF CreateThread, ThreadNames
      <4> QED
        BY <1>2, <4>1 DEF Alarmed
    <3> QED
      BY <3>1, <3>2
  <2>4. at' < 10
    BY <2>1
  <2> QED
    BY <1>1, <1>2, <1>3, <2>1, <2>2, <2>3, <2>4 DEF AlertsRefused
<1> QED
  BY <1>4, <1>5

(* The stop until the queue of events is destroyed. It is closed while no   *)
(* one is in it; who comes later sees that.                                 *)
LEMMA StopKeepsAlerts ==
  ASSUME LifeInv, LifeNext, CreateFails \/ LoopEnds \/ CloseQueueOf \/ JoinThread
  PROVE  AlertsRefused'
<1>1. /\ at \in 1 .. 18 /\ freed \in 0 .. 4 /\ AlertsRefused /\ ReadyAsPlanned
      /\ queue \in [{"events", "jobs"} -> Fields]
  BY DEF LifeInv, LifeTypes
<1>2. UNCHANGED <<build, alert, freed, ready, thread>>
  BY DEF CreateFails, LoopEnds, CloseQueueOf, JoinThread, detectorVars
<1>3. Alarmed' <=> Alarmed
  BY <1>2 DEF Alarmed
<1>4. at \in 4 .. 14 /\ (at' = at + 1 \/ at' = 8)
  BY <1>1, PlaceTells, Jumps
     DEF CreateFails, LoopEnds, CloseQueueOf, JoinThread, MainGoes, MainJumps
<1>5. freed = 0
  BY <1>1, <1>4 DEF AlertsRefused
<1>6. CASE CloseQueueOf
  <2>1. \/ at = 9 /\ With = "events"
        \/ at = 10 /\ With = "jobs"
    BY <1>1, <1>6, PlaceTells DEF CloseQueueOf
  <2>2. CASE at = 9
    <3>1. queue' = [queue EXCEPT !["events"].closed = "events" \in ready] /\ alert = NoAlert
      BY <1>6, <2>1, <2>2 DEF CloseQueueOf, MutexFree
    <3>2. /\ queue'["events"].items = queue["events"].items
          /\ "events" \in ready => queue'["events"].closed
      <4>1. queue["events"] \in Fields
        BY <1>1
      <4>2. queue'["events"] = [queue["events"] EXCEPT !.closed = "events" \in ready]
        BY <1>1, <3>1
      <4> QED
        BY <4>1, <4>2 DEF Fields
    <3>3. alert.at = "idle"
      BY <3>1 DEF NoAlert
    <3>4. at' = 10
      BY <1>6, <2>2 DEF CloseQueueOf, MainGoes
    <3>5. Alarmed => "events" \in ready
      BY <1>1, <2>2 DEF AlertsRefused
    <3> QED
      BY <1>1, <1>2, <1>3, <1>5, <3>2, <3>3, <3>4, <3>5 DEF AlertsRefused
  <2>3. CASE at = 10
    <3>1. queue'["events"] = queue["events"]
      BY <1>1, <1>6, <2>1, <2>3 DEF CloseQueueOf
    <3>2. at' = 11
      BY <1>6, <2>3 DEF CloseQueueOf, MainGoes
    <3> QED
      BY <1>1, <1>2, <1>3, <1>5, <2>3, <3>1, <3>2 DEF AlertsRefused
  <2> QED
    BY <2>1, <2>2, <2>3
<1>7. CASE CreateFails \/ LoopEnds \/ JoinThread
  <2>1. UNCHANGED queue
    BY <1>7 DEF CreateFails, LoopEnds, JoinThread
  <2>2. \/ at' < 10
        \/ at \in 10 .. 14 /\ at' \in 10 .. 15
    BY <1>1, <1>7, PlaceTells, Jumps
       DEF CreateFails, LoopEnds, JoinThread, MainGoes, MainJumps
  <2> QED
    BY <1>1, <1>2, <1>3, <1>4, <1>5, <2>1, <2>2 DEF AlertsRefused
<1> QED
  BY <1>6, <1>7

(* The end. While the fields go, one after the other, the flag goes last.   *)
LEMMA EndKeepsAlerts ==
  ASSUME LifeInv, LifeNext, DestroyEvents \/ Destroyed
  PROVE  AlertsRefused'
<1>1. /\ at \in 1 .. 18 /\ freed \in 0 .. 4 /\ AlertsRefused
      /\ queue \in [{"events", "jobs"} -> Fields]
  BY DEF LifeInv, LifeTypes
<1>2. UNCHANGED <<build, alert, thread>>
  BY DEF DestroyEvents, Destroyed, detectorVars
<1>3. Alarmed' <=> Alarmed
  BY <1>2 DEF Alarmed
<1>4. CASE DestroyEvents
  <2>1. /\ at = 16 /\ "events" \in ready /\ UNCHANGED <<at, ready>> /\ freed' = freed + 1
    BY <1>1, <1>4, PlaceTells DEF DestroyEvents
  <2>2. freed \in 0 .. 3
    BY <1>1, <1>4 DEF DestroyEvents, DestroySteps
  <2> DEFINE field == DestroySteps[freed + 1]
             q == queue["events"]
             r == queue'["events"]
  <2>3. r = [x \in DOMAIN q |-> IF x = field THEN NoQueue[x] ELSE q[x]]
    BY <1>1, <1>4 DEF DestroyEvents
  <2>4. q \in Fields
    BY <1>1
  <2>5. DOMAIN q = {"items", "capacity", "count", "closed"}
    BY <2>4 DEF Fields
  <2>6. /\ freed = 0 => field = "items"
        /\ freed = 1 => field = "capacity"
        /\ freed = 2 => field = "count"
        /\ freed = 3 => field = "closed"
    BY DEF DestroySteps
  <2>7. /\ field # "capacity" => r.capacity = q.capacity
        /\ field = "capacity" => r.capacity = 0
        /\ field # "count" => r.count = q.count
        /\ field = "count" => r.count = 0
        /\ field # "closed" => r.closed = q.closed
    <3> HIDE DEF field, q, r
    <3> QED
      BY <2>3, <2>5 DEF NoQueue
  <2> HIDE DEF field
  <2>8. CASE freed = 0
    BY <1>1, <1>2, <1>3, <2>1, <2>6, <2>7, <2>8 DEF AlertsRefused
  <2>9. CASE freed = 1
    BY <1>1, <1>2, <1>3, <2>1, <2>6, <2>7, <2>9 DEF AlertsRefused
  <2>10. CASE freed = 2
    BY <1>1, <1>2, <1>3, <2>1, <2>6, <2>7, <2>10 DEF AlertsRefused
  <2>11. CASE freed = 3
    BY <1>1, <1>2, <1>3, <2>1, <2>6, <2>7, <2>11 DEF AlertsRefused
  <2> QED
    BY <2>2, <2>8, <2>9, <2>10, <2>11
<1>5. CASE Destroyed
  <2>1. UNCHANGED <<queue, freed>> /\ ready' = ready \ {With} /\ at' = at + 1
    BY <1>5 DEF Destroyed, MainGoes
  <2>2. \/ at = 15 /\ With = "jobs"
        \/ at = 16 /\ With = "events"
        \/ at = 17 /\ With = "ring"
    BY <1>1, <1>5, PlaceTells DEF Destroyed
  <2>3. at = 16 /\ Alarmed => freed = 4
    <3>1. With = "events" /\ "events" \in ready => freed = 4
      BY <1>5 DEF Destroyed, DestroySteps
    <3>2. at = 16 /\ Alarmed => "events" \in ready
      BY <1>1 DEF AlertsRefused
    <3> QED
      BY <2>2, <3>1, <3>2
  <2>4. "events" \in ready' => "events" \in ready
    BY <2>1
  <2>5. at = 15 /\ Alarmed => "events" \in ready'
    BY <1>1, <2>1, <2>2 DEF AlertsRefused
  <2> QED
    BY <1>1, <1>2, <1>3, <2>1, <2>2, <2>3, <2>4, <2>5 DEF AlertsRefused
<1> QED
  BY <1>4, <1>5

LEMMA AlertsKept == ASSUME LifeInv, LifeNext PROVE AlertsRefused'
BY ReadingKept, OthersKeepAlerts, StartKeepsAlerts, StopKeepsAlerts, EndKeepsAlerts
   DEF LifeNext, MainStep

(* Who is about to store an event has the array: it is freed only after the *)
(* close, and from the close to its end the queue refuses.                  *)
LEMMA NothingStray == ASSUME LifeInv, LifeNext PROVE ~ stray'
<1>1. freed \in 0 .. 4 /\ AlertsRefused /\ ~ stray /\ at \in 1 .. 18
  BY DEF LifeInv, LifeTypes
<1>2. CASE AlertStores
  <2>1. alert.at = "store" /\ Alarmed
    BY <1>1, <1>2 DEF AlertStores, AlertsRefused
  <2>2. freed = 0
    <3>1. CASE freed = 4
      BY <1>1, <2>1, <3>1 DEF AlertsRefused
    <3>2. CASE freed \in 1 .. 3
      BY <1>1, <2>1, <3>2 DEF AlertsRefused
    <3> QED
      BY <1>1, <3>1, <3>2
  <2>3. at <= 16
    BY <1>1, <2>1, <2>2 DEF AlertsRefused
  <2>4. queue["events"].items
    BY <1>1, <2>1, <2>2, <2>3 DEF AlertsRefused
  <2> QED
    BY <1>1, <1>2, <2>4 DEF AlertStores
<1>3. CASE AlertEnters \/ AlertReads
  BY <1>1, <1>3 DEF AlertEnters, AlertReads
<1>4. CASE ThreadStep \/ InferFails \/ TestEvent \/ StopSignal
  BY <1>1, <1>4 DEF ThreadStep, Loops, Pops, ClipPushes, InferFails, TestEvent, StopSignal,
                    ThreadOnly, detectorVars
<1> QED
  BY <1>1, <1>2, <1>3, <1>4, MainMoves DEF LifeNext

LEMMA LifeInvKept == ASSUME LifeInv, [LifeNext]_lifeVars PROVE LifeInv'
<1>1. CASE LifeNext
  BY <1>1, LifeTypesKept, ReadyKept, ThreadsKept, AlertsKept, NothingStray DEF LifeInv
<1>2. CASE UNCHANGED lifeVars
  <2>1. UNCHANGED <<build, at, ready, thread, queue, freed, alert, stray>>
    BY <1>2 DEF lifeVars
  <2>2. LifeTypes'
    BY <2>1 DEF LifeInv, LifeTypes
  <2>3. ReadyAsPlanned'
    BY <2>1 DEF LifeInv, ReadyAsPlanned
  <2>4. ThreadsAsPlanned'
    BY <2>1 DEF LifeInv, ThreadsAsPlanned, Lives
  <2>5. AlertsRefused'
    BY <2>1 DEF LifeInv, AlertsRefused, Alarmed
  <2>6. ~ stray'
    BY <2>1 DEF LifeInv
  <2> QED
    BY <2>2, <2>3, <2>4, <2>5, <2>6 DEF LifeInv
<1> QED
  BY <1>1, <1>2

(* The invariant says what the property says.                               *)
LEMMA LifeInvSuffices == ASSUME LifeInv PROVE NothingUsedAfterItsEnd
<1>1. /\ at \in 1 .. 18 /\ build \in Builds /\ ReadyAsPlanned /\ ThreadsAsPlanned
      /\ DOMAIN thread = ThreadNames
  BY DEF LifeInv, LifeTypes
<1>2. ("clip" \in build => "ring" \in build) /\ ("upload" \in build => "clip" \in build)
  BY <1>1 DEF Builds
<1>3. ASSUME NEW t \in Living
      PROVE  Uses[t] \subseteq ready
  <2>1. t \in ThreadNames /\ Lives(t) /\ thread[t] # "none"
    BY <1>1, <1>3 DEF Living, Lives
  <2>2. at >= 4 /\ ThreadsOf[t] \cap build # {}
    BY <1>1, <2>1 DEF ThreadsAsPlanned
  <2>3. at <= 14
    BY <1>1, <2>1 DEF ThreadsAsPlanned, ThreadNames
  <2>4. /\ "ring" \in build => "ring" \in ready
        /\ "clip" \in build => "events" \in ready
        /\ "upload" \in build => "jobs" \in ready
    BY <1>1, <2>2, <2>3 DEF ReadyAsPlanned
  <2>5. CASE t = "rtsp"
    BY <2>2, <2>4, <2>5 DEF Uses, ThreadsOf
  <2>6. CASE t = "infer"
    BY <2>4, <2>6 DEF Uses
  <2>7. CASE t = "clip"
    <3>1. "clip" \in build
      BY <2>2, <2>7 DEF ThreadsOf
    <3> QED
      BY <1>2, <2>4, <2>7, <3>1 DEF Uses
  <2>8. CASE t = "upload"
    BY <2>2, <2>4, <2>8 DEF Uses, ThreadsOf
  <2> QED
    BY <2>1, <2>5, <2>6, <2>7, <2>8 DEF ThreadNames
<1>4. Doing = "exited" => ready = {}
  <2>1. Doing = "exited" => at = 18
    BY <1>1, PlaceTells
  <2> QED
    BY <1>1, <2>1 DEF ReadyAsPlanned
<1> QED
  BY <1>3, <1>4 DEF NothingUsedAfterItsEnd, LifeInv

(* Whatever is built in, wherever the start fails and whenever the stop     *)
(* comes: no thread lives without what it uses, nothing is left when main   *)
(* returns, and no alarm is stored where no array is, for any length of the *)
(* queues and any number of alarms.                                         *)
THEOREM NothingUsedAfterItsEndHolds == LifeSpec => []NothingUsedAfterItsEnd
<1>1. LifeInit => LifeInv
  BY LifeInvAtStart
<1>2. LifeInv /\ [LifeNext]_lifeVars => LifeInv'
  BY LifeInvKept
<1>3. LifeInv => NothingUsedAfterItsEnd
  BY LifeInvSuffices
<1> QED
  BY <1>1, <1>2, <1>3, PTL DEF LifeSpec

-----------------------------------------------------------------------------
(* The RTSP session and its depacketizer.                                   *)

(* What the ring may be given when n units have been begun, cut into sz     *)
(* fragments, sent in the sessions from, and those of h hurt: pieces of     *)
(* one session behind one header, and the unit of that header or a hurt one.*)
Headed(b) == Len(b) >= 1 /\ b[1].part = 0 /\ \A k \in 2 .. Len(b) : b[k].part # 0
Sound(b, n, sz, h, from) ==
  /\ b \in Seq(Piece) /\ Headed(b)
  /\ \A k \in DOMAIN b : b[k].unit \in 1 .. n
  /\ b[1].unit \in h \/ b = Whole(b[1].unit, sz[b[1].unit])
  /\ \A k \in DOMAIN b : from[b[k].unit] = from[b[1].unit]

(* The types, tied to what has been begun.                                  *)
SessionTypes ==
  /\ begun \in 0 .. MaxUnits
  /\ sizes \in Seq(0 .. MaxFragments) /\ Len(sizes) = begun
  /\ sentIn \in Seq(Nat) /\ Len(sentIn) = begun
  /\ session \in Nat /\ sockets \in Int
  /\ hurt \subseteq 1 .. begun
  /\ sending \in [unit : Nat, size : Nat, part : Nat]
  /\ fu \in Seq(Piece) /\ ring \in Seq(Seq(Piece))
  /\ phase \in InSession \cup {"off", "connecting", "sleeping", "exited"}

(* The unit that is being sent is the one begun last.                       *)
SendingIs ==
  sending # Idle =>
    /\ sending.unit = begun /\ begun >= 1
    /\ sending.size \in 1 .. MaxFragments /\ sizes[begun] = sending.size
    /\ sending.part \in 0 .. sending.size - 1
    /\ phase = "playing" => sentIn[begun] = session

(* The fragment buffer: pieces of this session behind one header. It holds  *)
(* the unit that is being sent as far as it was sent, or begins with a unit *)
(* that is hurt; and while the unit that is being sent is intact, it is in  *)
(* the buffer.                                                              *)
SoFar == Whole(sending.unit, sending.part)
BufferIs ==
  /\ fu # << >> =>
       /\ Headed(fu)
       /\ \A k \in DOMAIN fu : fu[k].unit \in 1 .. begun /\ sentIn[fu[k].unit] = session
       /\ fu[1].unit \in hurt \/ (sending # Idle /\ sending.part >= 1 /\ fu = SoFar)
  /\ phase = "playing" /\ sending # Idle /\ sending.part >= 1 /\ sending.unit \notin hurt =>
       fu = SoFar

RingIs == \A i \in DOMAIN ring : Sound(ring[i], begun, sizes, hurt, sentIn)

SessionInv ==
  /\ SessionTypes /\ SendingIs /\ BufferIs /\ RingIs
  /\ IntactUnitsArrive /\ SessionsEndClean

-----------------------------------------------------------------------------
(* Pieces, whole units and what may be behind a header.                     *)

LEMMA PieceIs ==
  ASSUME NEW u \in Units, NEW i \in 0 .. MaxFragments
  PROVE  P(u, i) \in Piece /\ P(u, i).unit = u /\ P(u, i).part = i
BY DEF P, Piece

LEMMA WholeIs ==
  ASSUME NEW u \in Units, NEW n \in 0 .. MaxFragments
  PROVE  /\ Whole(u, n) \in Seq(Piece) /\ Len(Whole(u, n)) = n + 1 /\ Headed(Whole(u, n))
         /\ \A k \in 1 .. n + 1 : Whole(u, n)[k] = P(u, k - 1) /\ Whole(u, n)[k].unit = u
<1>1. MaxFragments \in Nat /\ n \in Nat
  BY DepacketizerAssumption
<1>2. \A k \in 1 .. n + 1 : k - 1 \in 0 .. MaxFragments
  BY <1>1
<1>3. \A k \in 1 .. n + 1 : P(u, k - 1) \in Piece
  BY <1>2, PieceIs
<1>4. Whole(u, n) \in Seq(Piece) /\ Len(Whole(u, n)) = n + 1
  BY <1>1, <1>3 DEF Whole
<1>5. \A k \in 1 .. n + 1 : Whole(u, n)[k] = P(u, k - 1)
  BY <1>1 DEF Whole
<1>6. \A k \in 1 .. n + 1 : P(u, k - 1).unit = u /\ P(u, k - 1).part = k - 1
  BY <1>2, PieceIs
<1>7. Headed(Whole(u, n))
  BY <1>1, <1>4, <1>5, <1>6 DEF Headed
<1> QED
  BY <1>4, <1>5, <1>6, <1>7

(* The next fragment.                                                       *)
LEMMA WholeGrows ==
  ASSUME NEW u \in Units, NEW n \in 0 .. MaxFragments - 1
  PROVE  Whole(u, n) \o <<P(u, n + 1)>> = Whole(u, n + 1)
<1>1. MaxFragments \in Nat /\ n \in Nat
  BY DepacketizerAssumption
<1>2. n \in 0 .. MaxFragments /\ n + 1 \in 0 .. MaxFragments
  BY <1>1
<1>3. /\ Whole(u, n) \in Seq(Piece) /\ Len(Whole(u, n)) = n + 1
      /\ Whole(u, n + 1) \in Seq(Piece) /\ Len(Whole(u, n + 1)) = n + 2
      /\ P(u, n + 1) \in Piece
  BY <1>1, <1>2, WholeIs, PieceIs
<1>4. ASSUME NEW k \in 1 .. n + 2
      PROVE  (Whole(u, n) \o <<P(u, n + 1)>>)[k] = Whole(u, n + 1)[k]
  <2>1. Whole(u, n + 1)[k] = P(u, k - 1)
    BY <1>1, <1>2, WholeIs
  <2>2. CASE k <= n + 1
    <3>1. Whole(u, n)[k] = P(u, k - 1)
      BY <1>1, <1>2, <2>2, WholeIs
    <3> QED
      BY <1>1, <1>3, <2>1, <2>2, <3>1
  <2>3. CASE k = n + 2
    BY <1>1, <1>3, <2>1, <2>3
  <2>4. k <= n + 1 \/ k = n + 2
    BY <1>1
  <2> QED
    BY <2>2, <2>3, <2>4
<1> DEFINE s == Whole(u, n)
           t == Whole(u, n + 1)
           p == P(u, n + 1)
<1>5. s \o <<p>> \in Seq(Piece) /\ Len(s \o <<p>>) = n + 2
  <2> HIDE DEF s, p
  <2> QED
    BY <1>1, <1>3 DEF s, p
<1> QED
  BY <1>3, <1>4, <1>5

LEMMA PieceBehind ==
  ASSUME NEW b \in Seq(Piece), Headed(b), NEW p \in Piece, p.part # 0
  PROVE  /\ b \o <<p>> \in Seq(Piece) /\ Headed(b \o <<p>>)
         /\ (b \o <<p>>)[1] = b[1]
         /\ \A k \in DOMAIN (b \o <<p>>) : k \in DOMAIN b \/ (b \o <<p>>)[k] = p
         /\ \A k \in DOMAIN b : (b \o <<p>>)[k] = b[k]
<1>1. Len(b) \in Nat /\ Len(b) >= 1
  BY DEF Headed
<1>2. b \o <<p>> \in Seq(Piece) /\ Len(b \o <<p>>) = Len(b) + 1
  OBVIOUS
<1>3. \A k \in 1 .. Len(b) : (b \o <<p>>)[k] = b[k]
  OBVIOUS
<1>4. (b \o <<p>>)[Len(b) + 1] = p
  OBVIOUS
<1>5. Headed(b \o <<p>>)
  BY <1>1, <1>2, <1>3, <1>4 DEF Headed
<1> QED
  BY <1>1, <1>2, <1>3, <1>4, <1>5

(* What the ring has been given stays sound.                                *)
LEMMA SoundStays ==
  ASSUME NEW b, NEW n \in Nat, NEW m \in Nat, NEW sz, NEW sz2, NEW h, NEW g, NEW from, NEW from2,
         Sound(b, n, sz, h, from), n <= m, h \subseteq g,
         \A u \in 1 .. n : sz2[u] = sz[u] /\ from2[u] = from[u]
  PROVE  Sound(b, m, sz2, g, from2)
<1>1. 1 \in DOMAIN b
  BY DEF Sound, Headed
<1>2. \A k \in DOMAIN b : b[k].unit \in 1 .. n /\ b[k].unit \in 1 .. m
  BY DEF Sound
<1>3. b[1].unit \in 1 .. n
  BY <1>1, <1>2
<1>4. b[1].unit \in g \/ b = Whole(b[1].unit, sz2[b[1].unit])
  BY <1>3 DEF Sound
<1>5. \A k \in DOMAIN b : from2[b[k].unit] = from2[b[1].unit]
  <2>1. TAKE k \in DOMAIN b
  <2>2. from[b[k].unit] = from[b[1].unit]
    BY DEF Sound
  <2> QED
    BY <1>2, <1>3, <2>2
<1> QED
  BY <1>2, <1>4, <1>5 DEF Sound

LEMMA WholeIsSound ==
  ASSUME NEW n \in 0 .. MaxUnits, NEW u \in 1 .. n, NEW sz, NEW h, NEW from,
         sz[u] \in 0 .. MaxFragments
  PROVE  Sound(Whole(u, sz[u]), n, sz, h, from)
<1>1. u \in Units /\ n \in Nat
  BY DepacketizerAssumption DEF Units
<1> DEFINE b == Whole(u, sz[u])
<1>2. /\ b \in Seq(Piece) /\ Headed(b) /\ Len(b) = sz[u] + 1
      /\ \A k \in 1 .. sz[u] + 1 : b[k].unit = u
  BY <1>1, WholeIs
<1>3. DOMAIN b = 1 .. sz[u] + 1 /\ 1 \in DOMAIN b
  BY <1>2 DEF Headed
<1>4. \A k \in DOMAIN b : b[k].unit = u
  BY <1>2, <1>3
<1>5. b = Whole(b[1].unit, sz[b[1].unit])
  BY <1>3, <1>4
<1> HIDE DEF b
<1> QED
  BY <1>2, <1>3, <1>4, <1>5 DEF Sound, b

-----------------------------------------------------------------------------
(* What a step of the parser does to the histories: units that were begun   *)
(* keep their size and session, and new ones are of this session.           *)

LEMMA SessionsOfUnits ==
  ASSUME SessionInv, ReadFrame, NEW n \in Nat, begun' = begun + n
  PROVE  /\ sentIn' \in Seq(Nat) /\ Len(sentIn') = begun'
         /\ \A u \in 1 .. begun : sentIn'[u] = sentIn[u]
         /\ \A u \in begun + 1 .. begun' : sentIn'[u] = session
<1>1. /\ begun \in Nat /\ session \in Nat
      /\ sentIn \in Seq(Nat) /\ Len(sentIn) = begun
  BY DepacketizerAssumption DEF SessionInv, SessionTypes
<1> DEFINE t == [i \in 1 .. n |-> session]
<1>2. sentIn' = sentIn \o t
  <2>1. begun' - begun = n
    BY <1>1
  <2> QED
    BY <2>1 DEF ReadFrame
<1>4. t \in Seq(Nat) /\ Len(t) = n /\ \A i \in 1 .. n : t[i] = session
  BY <1>1
<1> HIDE DEF t
<1>5. sentIn \o t \in Seq(Nat) /\ Len(sentIn \o t) = begun + n
  BY <1>1, <1>4
<1>6. \A u \in 1 .. begun : (sentIn \o t)[u] = sentIn[u]
  BY <1>1, <1>4
<1>7. \A u \in begun + 1 .. begun + n : (sentIn \o t)[u] = session
  <2>1. TAKE u \in begun + 1 .. begun + n
  <2>2. u \in 1 .. begun + n /\ u > begun /\ u - begun \in 1 .. n
    BY <1>1
  <2>3. (sentIn \o t)[u] = t[u - begun]
    BY <1>1, <1>4, <2>2
  <2> QED
    BY <1>4, <2>2, <2>3
<1> QED
  BY <1>2, <1>5, <1>6, <1>7

(* The conjuncts of ReadFrame that are not the parser's.                    *)
LEMMA OnlyTheParser ==
  ASSUME ReadFrame
  PROVE  phase = "playing" /\ UNCHANGED <<running, camera, phase, sockets, session>>
BY DEF ReadFrame

(* Sound entries of the ring stay sound while history only grows.           *)
LEMMA RingStays ==
  ASSUME SessionInv, begun' \in begun .. MaxUnits, hurt \subseteq hurt',
         \A u \in 1 .. begun : sizes'[u] = sizes[u] /\ sentIn'[u] = sentIn[u]
  PROVE  \A i \in DOMAIN ring : Sound(ring[i], begun', sizes', hurt', sentIn')
<1>1. begun \in Nat /\ begun' \in Nat /\ begun <= begun'
  BY DepacketizerAssumption DEF SessionInv, SessionTypes
<1>2. \A i \in DOMAIN ring : Sound(ring[i], begun, sizes, hurt, sentIn)
  BY DEF SessionInv, RingIs
<1> QED
  BY <1>1, <1>2, SoundStays

(* A unit that has arrived is still there.                                  *)
LEMMA ArrivedStays ==
  ASSUME SessionInv, NEW u \in 1 .. begun, sizes'[u] = sizes[u],
         \A i \in DOMAIN ring : i \in DOMAIN ring' /\ ring'[i] = ring[i],
         \E i \in DOMAIN ring : ring[i] = Whole(u, sizes[u])
  PROVE  \E i \in DOMAIN ring' : ring'[i] = Whole(u, sizes'[u])
OBVIOUS

-----------------------------------------------------------------------------
(* A payload with whole units.                                              *)

LEMMA WholePayloadKeeps ==
  ASSUME SessionInv, ReadFrame, NEW k \in 1 .. 2, WholePayload(k)
  PROVE  SessionInv'
<1>1. /\ begun \in 0 .. MaxUnits /\ MaxUnits \in Nat /\ MaxFragments \in Nat
      /\ sizes \in Seq(0 .. MaxFragments) /\ Len(sizes) = begun
      /\ hurt \subseteq 1 .. begun /\ ring \in Seq(Seq(Piece)) /\ fu \in Seq(Piece)
      /\ session \in Nat
  BY DepacketizerAssumption DEF SessionInv, SessionTypes
<1>2. /\ sending = Idle /\ begun + k <= MaxUnits /\ begun' = begun + k
      /\ UNCHANGED <<sending, fu>>
  BY DEF WholePayload
<1>3. begun' \in begun .. MaxUnits /\ begun' \in Nat /\ begun \in Nat /\ k \in Nat
  BY <1>1, <1>2
<1>4. /\ sentIn' \in Seq(Nat) /\ Len(sentIn') = begun'
      /\ \A u \in 1 .. begun : sentIn'[u] = sentIn[u]
  BY <1>2, <1>3, SessionsOfUnits
<1>5. /\ sizes' \in Seq(0 .. MaxFragments) /\ Len(sizes') = begun'
      /\ \A u \in 1 .. begun : sizes'[u] = sizes[u]
      /\ \A u \in begun + 1 .. begun' : sizes'[u] = 0
  <2> DEFINE t == [i \in 1 .. k |-> 0]
  <2>1. sizes' = sizes \o t
    BY DEF WholePayload
  <2>2. t \in Seq(0 .. MaxFragments) /\ Len(t) = k /\ \A i \in 1 .. k : t[i] = 0
    BY <1>1, <1>3
  <2> HIDE DEF t
  <2>3. \A u \in begun + 1 .. begun + k : (sizes \o t)[u] = 0
    <3>1. TAKE u \in begun + 1 .. begun + k
    <3>2. u - begun \in 1 .. k /\ u > Len(sizes) /\ u \in 1 .. Len(sizes) + Len(t)
      BY <1>1, <1>3, <2>2
    <3>3. (sizes \o t)[u] = t[u - begun]
      BY <1>1, <1>3, <2>2, <3>2
    <3> QED
      BY <2>2, <3>2, <3>3
  <2>4. \A u \in 1 .. begun : (sizes \o t)[u] = sizes[u]
    BY <1>1, <1>3, <2>2
  <2>5. sizes \o t \in Seq(0 .. MaxFragments) /\ Len(sizes \o t) = begun + k
    BY <1>1, <1>3, <2>2
  <2> QED
    BY <1>2, <2>1, <2>3, <2>4, <2>5
<1>6. PICK units \in Survivors(begun + 1, begun + k) :
        /\ Deliver(units)
        /\ hurt' = hurt \cup {u \in begun + 1 .. begun + k : u \notin Range(units)}
  BY DEF WholePayload
<1>7. units \in Seq(begun + 1 .. begun + k) /\ Range(units) = {units[i] : i \in DOMAIN units}
  <2>1. PICK m \in 0 .. (begun + k) - (begun + 1) + 1 : units \in [1 .. m -> begun + 1 .. begun + k]
    BY DEF Survivors, SeqOf
  <2>2. m \in Nat
    BY <1>3
  <2> DEFINE S == begun + 1 .. begun + k
  <2>3. units \in Seq(S)
    <3>1. units \in [1 .. m -> S]
      BY <2>1
    <3> HIDE DEF S
    <3> QED
      BY <2>2, <3>1
  <2> QED
    BY <2>3 DEF Range
<1>8. hurt' \subseteq 1 .. begun' /\ hurt \subseteq hurt'
  <2>1. {u \in begun + 1 .. begun + k : u \notin Range(units)} \subseteq 1 .. begun'
    BY <1>2, <1>3
  <2>2. 1 .. begun \subseteq 1 .. begun'
    BY <1>2, <1>3
  <2> QED
    BY <1>1, <1>6, <2>1, <2>2
<1>9. \A i \in DOMAIN units : /\ units[i] \in begun + 1 .. begun' /\ units[i] \in 1 .. begun'
                             /\ units[i] \in Units
  BY <1>1, <1>2, <1>3, <1>7 DEF Units
<1> DEFINE w == [i \in 1 .. Len(units) |-> Whole(units[i], 0)]
<1>10. ring' = ring \o w
  BY <1>6 DEF Deliver
<1>11. /\ w \in Seq(Seq(Piece)) /\ Len(w) = Len(units)
       /\ \A i \in 1 .. Len(w) : w[i] = Whole(units[i], 0)
  <2>1. Len(units) \in Nat /\ DOMAIN units = 1 .. Len(units)
    BY <1>7
  <2>2. \A i \in 1 .. Len(units) : Whole(units[i], 0) \in Seq(Piece)
    <3>1. 0 \in 0 .. MaxFragments
      BY <1>1
    <3> QED
      BY <1>9, <2>1, <3>1, WholeIs
  <2> QED
    BY <2>1, <2>2
<1> HIDE DEF w
<1>12. /\ ring' \in Seq(Seq(Piece)) /\ Len(ring') = Len(ring) + Len(w)
       /\ \A i \in DOMAIN ring : i \in DOMAIN ring' /\ ring'[i] = ring[i]
       /\ \A i \in DOMAIN units : Len(ring) + i \in DOMAIN ring' /\ ring'[Len(ring) + i] = w[i]
       /\ \A i \in DOMAIN ring' :
            \/ i \in DOMAIN ring
            \/ i - Len(ring) \in DOMAIN units /\ ring'[i] = w[i - Len(ring)]
  <2>1. Len(ring) \in Nat /\ Len(w) \in Nat /\ DOMAIN units = 1 .. Len(w)
    BY <1>1, <1>7, <1>11
  <2>2. ring \o w \in Seq(Seq(Piece)) /\ Len(ring \o w) = Len(ring) + Len(w)
    BY <1>1, <1>11
  <2>3. \A i \in 1 .. Len(ring) : (ring \o w)[i] = ring[i]
    BY <1>1, <1>11
  <2>4. \A i \in 1 .. Len(ring) + Len(w) : i > Len(ring) => (ring \o w)[i] = w[i - Len(ring)]
    BY <1>1, <1>11
  <2>5. ASSUME NEW i \in 1 .. Len(w)
        PROVE  Len(ring) + i \in 1 .. Len(ring) + Len(w) /\ (ring \o w)[Len(ring) + i] = w[i]
    <3>1. Len(ring) + i \in 1 .. Len(ring) + Len(w) /\ Len(ring) + i > Len(ring)
          /\ (Len(ring) + i) - Len(ring) = i
      BY <2>1
    <3> QED
      BY <2>4, <3>1
  <2>6. ASSUME NEW i \in 1 .. Len(ring) + Len(w), ~ (i \in 1 .. Len(ring))
        PROVE  i > Len(ring) /\ i - Len(ring) \in 1 .. Len(w)
    BY <2>1, <2>6
  <2>7. DOMAIN (ring \o w) = 1 .. Len(ring) + Len(w) /\ DOMAIN ring = 1 .. Len(ring)
    BY <1>1, <2>1, <2>2
  <2> QED
    BY <1>10, <2>1, <2>2, <2>3, <2>4, <2>5, <2>6, <2>7
<1>13. SessionTypes'
  <2>1. sending' \in [unit : Nat, size : Nat, part : Nat]
    BY <1>2 DEF Idle
  <2> QED
    BY <2>1, <1>1, <1>2, <1>3, <1>4, <1>5, <1>8, <1>12, OnlyTheParser
    DEF SessionInv, SessionTypes, InSession
<1>14. SendingIs'
  BY <1>2 DEF SendingIs
<1>15. BufferIs'
  <2>1. fu # << >> => /\ Headed(fu) /\ fu[1].unit \in hurt
                      /\ \A i \in DOMAIN fu :
                           fu[i].unit \in 1 .. begun /\ sentIn[fu[i].unit] = session
    BY <1>2 DEF SessionInv, BufferIs
  <2>2. UNCHANGED session
    BY OnlyTheParser
  <2>3. fu # << >> => 
          \A i \in DOMAIN fu : fu[i].unit \in 1 .. begun' /\ sentIn'[fu[i].unit] = session
    BY <1>3, <1>4, <2>1
  <2> QED
    BY <1>2, <1>8, <2>1, <2>2, <2>3 DEF BufferIs
<1>16. RingIs'
  <2>1. \A i \in DOMAIN ring : Sound(ring[i], begun', sizes', hurt', sentIn')
    BY <1>3, <1>4, <1>5, <1>8, RingStays
  <2>2. ASSUME NEW i \in DOMAIN units
        PROVE  Sound(w[i], begun', sizes', hurt', sentIn')
    <3>1. w[i] = Whole(units[i], 0) /\ sizes'[units[i]] = 0 /\ units[i] \in 1 .. begun'
      BY <1>5, <1>7, <1>9, <1>11
    <3>2. begun' \in 0 .. MaxUnits
      BY <1>1, <1>3
    <3>3. 0 \in 0 .. MaxFragments
      BY <1>1
    <3>4. Sound(Whole(units[i], sizes'[units[i]]), begun', sizes', hurt', sentIn')
      BY <3>1, <3>2, <3>3, WholeIsSound
    <3> QED
      BY <3>1, <3>4
  <2>3. ASSUME NEW i \in DOMAIN ring'
        PROVE  Sound(ring'[i], begun', sizes', hurt', sentIn')
    BY <1>12, <2>1, <2>2
  <2> QED
    BY <2>3 DEF RingIs
<1>17. IntactUnitsArrive'
  <2>1. ASSUME NEW u \in 1 .. begun', u \notin hurt'
        PROVE  \E i \in DOMAIN ring' : ring'[i] = Whole(u, sizes'[u])
    <3>1. CASE u \in 1 .. begun
      <4>1. u \in Complete \ hurt
        BY <1>1, <1>2, <1>8, <2>1, <3>1 DEF Complete, Idle
      <4>2. \E i \in DOMAIN ring : ring[i] = Whole(u, sizes[u])
        BY <4>1 DEF SessionInv, IntactUnitsArrive, WholeOf
      <4> QED
        BY <1>5, <1>12, <3>1, <4>2
    <3>2. CASE u \in begun + 1 .. begun'
      <4>1. PICK i \in DOMAIN units : units[i] = u
        BY <1>2, <1>6, <1>7, <2>1, <3>2
      <4>2. w[i] = Whole(u, sizes'[u])
        BY <1>5, <1>7, <1>11, <3>2, <4>1
      <4> QED
        BY <1>12, <4>2
    <3>3. u \in 1 .. begun \/ u \in begun + 1 .. begun'
      BY <1>3
    <3> QED
      BY <3>1, <3>2, <3>3
  <2> QED
    BY <2>1 DEF IntactUnitsArrive, Complete, WholeOf
<1>18. SessionsEndClean'
  BY <1>2, OnlyTheParser DEF SessionInv, SessionsEndClean, InSession
<1> QED
  BY <1>13, <1>14, <1>15, <1>16, <1>17, <1>18 DEF SessionInv

-----------------------------------------------------------------------------
(* A unit that is sent in fragments.                                        *)

LEMMA BeginFragmentsKeeps ==
  ASSUME SessionInv, ReadFrame, NEW n \in 1 .. MaxFragments, BeginFragments(n)
  PROVE  SessionInv'
<1>1. /\ begun \in 0 .. MaxUnits /\ MaxUnits \in Nat /\ MaxFragments \in Nat
      /\ sizes \in Seq(0 .. MaxFragments) /\ Len(sizes) = begun
      /\ hurt \subseteq 1 .. begun /\ session \in Nat
  BY DepacketizerAssumption DEF SessionInv, SessionTypes
<1>2. /\ sending = Idle /\ begun < MaxUnits /\ begun' = begun + 1
      /\ sending' = [unit |-> begun + 1, size |-> n, part |-> 0]
      /\ sizes' = Append(sizes, n) /\ UNCHANGED <<fu, ring, hurt>>
  BY DEF BeginFragments
<1>3. begun \in Nat /\ begun' \in begun .. MaxUnits /\ begun' \in Nat /\ n \in Nat
  BY <1>1, <1>2
<1>4. /\ sentIn' \in Seq(Nat) /\ Len(sentIn') = begun'
      /\ \A u \in 1 .. begun : sentIn'[u] = sentIn[u]
      /\ sentIn'[begun'] = session
  BY <1>2, <1>3, SessionsOfUnits
<1>5. /\ sizes' \in Seq(0 .. MaxFragments) /\ Len(sizes') = begun'
      /\ \A u \in 1 .. begun : sizes'[u] = sizes[u]
      /\ sizes'[begun'] = n
  <2>1. n \in 0 .. MaxFragments
    BY <1>1, <1>3
  <2> QED
    BY <1>1, <1>2, <1>3, <2>1
<1>6. /\ sending'.unit = begun' /\ sending'.size = n /\ sending'.part = 0
      /\ sending' \in [unit : Nat, size : Nat, part : Nat] /\ sending' # Idle
  BY <1>2, <1>3 DEF Idle
<1>7. SessionTypes'
  BY <1>1, <1>2, <1>3, <1>4, <1>5, <1>6, OnlyTheParser DEF SessionInv, SessionTypes, InSession
<1>8. SendingIs'
  <2>1. 0 \in 0 .. n - 1 /\ begun' >= 1
    BY <1>1, <1>2, <1>3
  <2>2. sentIn'[begun'] = session'
    BY <1>4, OnlyTheParser
  <2> QED
    BY <1>5, <1>6, <2>1, <2>2 DEF SendingIs
<1>9. BufferIs'
  <2>1. fu # << >> => /\ Headed(fu) /\ fu[1].unit \in hurt
                      /\ \A i \in DOMAIN fu :
                           fu[i].unit \in 1 .. begun /\ sentIn[fu[i].unit] = session
    BY <1>2 DEF SessionInv, BufferIs
  <2>2. fu # << >> => 
          \A i \in DOMAIN fu : fu[i].unit \in 1 .. begun' /\ sentIn'[fu[i].unit] = session
    <3>1. \A u \in 1 .. begun : u \in 1 .. begun' /\ sentIn'[u] = sentIn[u]
      BY <1>2, <1>3, <1>4
    <3> QED
      BY <2>1, <3>1
  <2> QED
    BY <1>2, <1>6, <2>1, <2>2, OnlyTheParser DEF BufferIs
<1>10. RingIs'
  BY <1>2, <1>3, <1>4, <1>5, RingStays DEF RingIs
<1>11. IntactUnitsArrive'
  <2>1. ASSUME NEW u \in 1 .. begun', u # begun', u \notin hurt'
        PROVE  \E i \in DOMAIN ring' : ring'[i] = Whole(u, sizes'[u])
    <3>1. u \in 1 .. begun
      BY <1>2, <1>3, <2>1
    <3>2. u \in Complete \ hurt
      BY <1>2, <2>1, <3>1 DEF Complete, Idle
    <3>3. \E i \in DOMAIN ring : ring[i] = Whole(u, sizes[u])
      BY <3>2 DEF SessionInv, IntactUnitsArrive, WholeOf
    <3> QED
      BY <1>2, <1>5, <3>1, <3>3
  <2> QED
    BY <1>6, <2>1 DEF IntactUnitsArrive, Complete, WholeOf
<1>12. SessionsEndClean'
  BY <1>2, OnlyTheParser DEF SessionInv, SessionsEndClean, InSession
<1> QED
  BY <1>7, <1>8, <1>9, <1>10, <1>11, <1>12 DEF SessionInv

(* While a unit is being sent.                                              *)
LEMMA WhileSending ==
  ASSUME SessionInv, phase = "playing", sending # Idle
  PROVE  /\ begun \in Nat /\ begun >= 1 /\ begun <= MaxUnits
         /\ sending.unit = begun /\ begun \in Units
         /\ sending.size \in 1 .. MaxFragments /\ sizes[begun] = sending.size
         /\ sending.part \in Nat /\ sending.part < sending.size
         /\ sending.part \in 0 .. MaxFragments - 1 /\ sending.part + 1 \in 1 .. MaxFragments
         /\ sending \in [unit : Nat, size : Nat, part : Nat]
         /\ sentIn[begun] = session
<1>1. /\ begun \in 0 .. MaxUnits /\ MaxUnits \in Nat /\ MaxFragments \in Nat
      /\ sending \in [unit : Nat, size : Nat, part : Nat]
  BY DepacketizerAssumption DEF SessionInv, SessionTypes
<1>2. /\ sending.unit = begun /\ begun >= 1
      /\ sending.size \in 1 .. MaxFragments /\ sizes[begun] = sending.size
      /\ sending.part \in 0 .. sending.size - 1 /\ sentIn[begun] = session
  BY DEF SessionInv, SendingIs
<1> QED
  BY <1>1, <1>2 DEF Units

(* What all steps with a fragment have in common.                           *)
LEMMA FragmentSent ==
  ASSUME SessionInv, ReadFrame, sending # Idle, Sent, UNCHANGED <<begun, sizes>>,
         hurt' = hurt \/ hurt' = hurt \cup {sending.unit}
  PROVE  /\ UNCHANGED sentIn /\ SendingIs'
         /\ hurt \subseteq hurt' /\ hurt' \subseteq 1 .. begun
         /\ sending' \in [unit : Nat, size : Nat, part : Nat]
         /\ IsEnd => sending' = Idle
         /\ ~ IsEnd => /\ sending' # Idle /\ sending'.unit = begun
                       /\ sending'.part = sending.part + 1
<1>1. /\ begun \in Nat /\ begun >= 1 /\ sending.unit = begun
      /\ sending.size \in 1 .. MaxFragments /\ sizes[begun] = sending.size
      /\ sending.part \in Nat /\ sending.part < sending.size
      /\ sending \in [unit : Nat, size : Nat, part : Nat] /\ sentIn[begun] = session
      /\ MaxFragments \in Nat
  BY WhileSending, OnlyTheParser, DepacketizerAssumption
<1>2. hurt \subseteq hurt' /\ hurt' \subseteq 1 .. begun
  <2>1. hurt \subseteq 1 .. begun
    BY DEF SessionInv, SessionTypes
  <2>2. sending.unit \in 1 .. begun
    BY <1>1
  <2> QED
    BY <2>1, <2>2
<1>3. UNCHANGED sentIn
  <2>1. sentIn \in Seq(Nat) /\ Len(sentIn) = begun
    BY DEF SessionInv, SessionTypes
  <2>2. begun' = begun + 0 /\ 0 \in Nat
    BY <1>1
  <2>3. sentIn' \in Seq(Nat) /\ Len(sentIn') = begun /\ \A u \in 1 .. begun : sentIn'[u] = sentIn[u]
    BY <1>1, <2>2, SessionsOfUnits
  <2> QED
    BY <2>1, <2>3
<1>4. CASE IsEnd
  <2>1. sending' = Idle
    BY <1>4 DEF Sent
  <2> QED
    BY <1>2, <1>3, <1>4, <2>1 DEF SendingIs, Idle
<1>5. CASE ~ IsEnd
  <2>1. sending' = [sending EXCEPT !.part = sending.part + 1]
    BY <1>5 DEF Sent
  <2>2. /\ sending' \in [unit : Nat, size : Nat, part : Nat]
        /\ sending'.unit = begun /\ sending'.size = sending.size /\ sending'.part = sending.part + 1
    BY <1>1, <2>1
  <2>3. sending' # Idle
    BY <1>1, <2>2 DEF Idle
  <2>4. sending.part + 1 \in 0 .. sending.size - 1
    BY <1>1, <1>5 DEF IsEnd
  <2> QED
    BY <1>1, <1>2, <1>3, <1>5, <2>2, <2>3, <2>4, OnlyTheParser DEF SendingIs
<1> QED
  BY <1>4, <1>5

(* The buffer with the next fragment: sound, and the unit so far unless     *)
(* something of it was lost.                                                *)
LEMMA BufferGrows ==
  ASSUME SessionInv, phase = "playing", sending # Idle, IsStart \/ fu # << >>
  PROVE  /\ Buffer \in Seq(Piece) /\ Headed(Buffer)
         /\ \A k \in DOMAIN Buffer :
              Buffer[k].unit \in 1 .. begun /\ sentIn[Buffer[k].unit] = session
         /\ \/ Buffer[1].unit \in hurt
            \/ Buffer = Whole(begun, sending.part + 1)
         /\ begun \notin hurt => Buffer = Whole(begun, sending.part + 1)
<1>1. /\ begun \in Nat /\ begun >= 1 /\ sending.unit = begun /\ begun \in Units
      /\ sending.part \in 0 .. MaxFragments - 1 /\ sending.part + 1 \in 1 .. MaxFragments
      /\ sentIn[begun] = session /\ MaxFragments \in Nat /\ sending.part \in Nat
  BY WhileSending, DepacketizerAssumption
<1>2. /\ NextPiece \in Piece /\ NextPiece.unit = begun /\ NextPiece.part = sending.part + 1
      /\ NextPiece = P(begun, sending.part + 1)
  BY <1>1, PieceIs DEF NextPiece
<1>3. NextPiece.part # 0
  BY <1>1, <1>2
<1>4. CASE IsStart
  <2>1. sending.part = 0 /\ Buffer = <<P(begun, 0)>> \o <<NextPiece>>
    BY <1>1, <1>4 DEF IsStart, Buffer
  <2>2. 0 \in 0 .. MaxFragments /\ 0 \in 0 .. MaxFragments - 1
    BY <1>1, <2>1
  <2>3. Whole(begun, 0) = <<P(begun, 0)>>
    <3>1. /\ Whole(begun, 0) \in Seq(Piece)
          /\ Len(Whole(begun, 0)) = 1 /\ Whole(begun, 0)[1] = P(begun, 0)
      <4>1. /\ Whole(begun, 0) \in Seq(Piece) /\ Len(Whole(begun, 0)) = 0 + 1
            /\ \A k \in 1 .. 0 + 1 : Whole(begun, 0)[k] = P(begun, k - 1)
        BY <1>1, <2>2, WholeIs
      <4>2. 1 \in 1 .. 0 + 1 /\ 0 + 1 = 1 /\ 1 - 1 = 0
        OBVIOUS
      <4>3. Whole(begun, 0)[1] = P(begun, 1 - 1)
        BY <4>1, <4>2
      <4> QED
        BY <4>1, <4>2, <4>3
    <3> HIDE DEF P
    <3> QED
      BY <3>1
  <2>4. Buffer = Whole(begun, sending.part + 1)
    <3>1. Whole(begun, 0) \o <<P(begun, 0 + 1)>> = Whole(begun, 0 + 1)
      BY <1>1, <2>2, WholeGrows
    <3> QED
      BY <1>2, <2>1, <2>3, <3>1
  <2>5. sending.part + 1 \in 0 .. MaxFragments
    BY <1>1
  <2>6. /\ Buffer \in Seq(Piece) /\ Headed(Buffer) /\ Len(Buffer) = sending.part + 2
        /\ \A k \in 1 .. sending.part + 2 : Buffer[k].unit = begun
    <3> DEFINE n == sending.part + 1
    <3>1. n \in Nat /\ n + 1 = sending.part + 2 /\ n \in 0 .. MaxFragments
      BY <1>1, <2>5
    <3> HIDE DEF n
    <3>2. /\ Whole(begun, n) \in Seq(Piece) /\ Headed(Whole(begun, n))
          /\ Len(Whole(begun, n)) = n + 1
          /\ \A k \in 1 .. n + 1 : Whole(begun, n)[k].unit = begun
      BY <1>1, <3>1, WholeIs
    <3>3. Buffer = Whole(begun, n)
      BY <2>4 DEF n
    <3> QED
      BY <3>1, <3>2, <3>3
  <2>7. \A k \in DOMAIN Buffer : Buffer[k].unit \in 1 .. begun /\ sentIn[Buffer[k].unit] = session
    BY <1>1, <2>6
  <2> QED
    BY <2>4, <2>6, <2>7
<1>5. CASE ~ IsStart
  <2>1. sending.part >= 1 /\ fu # << >> /\ Buffer = fu \o <<NextPiece>>
    BY <1>1, <1>5 DEF IsStart, Buffer
  <2>2. /\ fu \in Seq(Piece) /\ Headed(fu)
        /\ \A k \in DOMAIN fu : fu[k].unit \in 1 .. begun /\ sentIn[fu[k].unit] = session
        /\ fu[1].unit \in hurt \/ fu = SoFar
        /\ sending.unit \notin hurt => fu = SoFar
    BY <2>1 DEF SessionInv, SessionTypes, BufferIs
  <2>3. /\ Buffer \in Seq(Piece) /\ Headed(Buffer) /\ Buffer[1] = fu[1]
        /\ \A k \in DOMAIN Buffer : k \in DOMAIN fu \/ Buffer[k] = NextPiece
        /\ \A k \in DOMAIN fu : Buffer[k] = fu[k]
    BY <1>2, <1>3, <2>1, <2>2, PieceBehind
  <2>4. \A k \in DOMAIN Buffer : Buffer[k].unit \in 1 .. begun /\ sentIn[Buffer[k].unit] = session
    BY <1>1, <1>2, <2>2, <2>3
  <2>5. fu = SoFar => Buffer = Whole(begun, sending.part + 1)
    BY <1>1, <1>2, <2>1, WholeGrows DEF SoFar
  <2> QED
    BY <1>1, <2>2, <2>3, <2>4, <2>5
<1> QED
  BY <1>4, <1>5

(* The parts of the invariant after a step with a fragment, from what the   *)
(* step has done to the buffer and the ring.                                *)

LEMMA IntactAfterFragment ==
  ASSUME SessionInv, ReadFrame, sending # Idle, Sent, UNCHANGED <<begun, sizes>>,
         hurt' = hurt \/ hurt' = hurt \cup {sending.unit},
         \A i \in DOMAIN ring : i \in DOMAIN ring' /\ ring'[i] = ring[i],
         IsEnd => \/ sending.unit \in hurt'
                  \/ \E i \in DOMAIN ring' : ring'[i] = Whole(begun, sizes[begun])
  PROVE  IntactUnitsArrive'
<1>1. sending.unit = begun /\ begun \in Nat /\ begun >= 1
  BY WhileSending, OnlyTheParser
<1>2. /\ hurt \subseteq hurt'
      /\ IsEnd => sending' = Idle
      /\ ~ IsEnd => sending'.unit = begun
  BY FragmentSent
<1>3. ASSUME NEW u \in 1 .. begun, u # sending'.unit, u \notin hurt'
      PROVE  \E i \in DOMAIN ring' : ring'[i] = Whole(u, sizes'[u])
  <2>1. CASE u = begun
    BY <1>1, <1>2, <1>3, <2>1
  <2>2. CASE u # begun
    <3>1. u \in Complete \ hurt
      BY <1>1, <1>2, <1>3, <2>2 DEF Complete
    <3>2. \E i \in DOMAIN ring : ring[i] = Whole(u, sizes[u])
      BY <3>1 DEF SessionInv, IntactUnitsArrive, WholeOf
    <3> QED
      BY <3>2
  <2> QED
    BY <2>1, <2>2
<1> QED
  BY <1>3 DEF IntactUnitsArrive, Complete, WholeOf

(* A fragment that is lost: the unit is hurt, and the buffer is as before,  *)
(* empty, or holds the header alone.                                        *)
LEMMA LostFragmentKeeps ==
  ASSUME SessionInv, ReadFrame, sending # Idle, Sent, Hurts, UNCHANGED <<begun, sizes, ring>>,
         fu' = fu \/ fu' = << >> \/ fu' = <<P(sending.unit, 0)>>
  PROVE  SessionInv'
<1>1. /\ sending.unit = begun /\ begun \in Nat /\ begun >= 1 /\ begun \in Units
      /\ sentIn[begun] = session /\ sending.part \in 0 .. MaxFragments - 1
      /\ MaxFragments \in Nat
  BY WhileSending, OnlyTheParser, DepacketizerAssumption
<1>2. hurt' = hurt \cup {begun} /\ hurt' = hurt \cup {sending.unit}
  BY <1>1 DEF Hurts
<1>3. /\ UNCHANGED sentIn /\ SendingIs'
      /\ hurt \subseteq hurt' /\ hurt' \subseteq 1 .. begun
      /\ sending' \in [unit : Nat, size : Nat, part : Nat]
      /\ IsEnd => sending' = Idle
      /\ ~ IsEnd => sending'.unit = begun
  BY <1>2, FragmentSent
<1>4. UNCHANGED <<phase, session, sockets>> /\ phase = "playing"
  BY OnlyTheParser
<1>5. P(begun, 0) \in Piece /\ P(begun, 0).unit = begun /\ P(begun, 0).part = 0
  <2>1. 0 \in 0 .. MaxFragments
    BY <1>1
  <2> QED
    BY <1>1, <2>1, PieceIs
<1>6. SessionTypes'
  <2>1. fu' \in Seq(Piece)
    <3>1. fu \in Seq(Piece)
      BY DEF SessionInv, SessionTypes
    <3> DEFINE p == P(begun, 0)
    <3>2. fu' = fu \/ fu' = << >> \/ fu' = <<p>>
      BY <1>1
    <3>3. p \in Piece
      BY <1>5
    <3> HIDE DEF p
    <3>4. << >> \in Seq(Piece) /\ <<p>> \in Seq(Piece)
      BY <3>3
    <3> QED
      BY <3>1, <3>2, <3>4
  <2> QED
    BY <1>3, <1>4, <2>1 DEF SessionInv, SessionTypes
<1>7. BufferIs'
  <2>1. ASSUME fu' # << >>
        PROVE  /\ Headed(fu') /\ fu'[1].unit \in hurt'
               /\ \A k \in DOMAIN fu' : fu'[k].unit \in 1 .. begun /\ sentIn[fu'[k].unit] = session
    <3>1. CASE fu' = fu
      <4>1. /\ Headed(fu) /\ fu \in Seq(Piece)
            /\ \A k \in DOMAIN fu : fu[k].unit \in 1 .. begun /\ sentIn[fu[k].unit] = session
            /\ fu[1].unit \in hurt \/ fu = SoFar
        BY <2>1, <3>1 DEF SessionInv, BufferIs, SessionTypes
      <4>2. fu = SoFar => fu[1].unit = begun
        <5>1. sending.part \in 0 .. MaxFragments /\ 1 \in 1 .. sending.part + 1
          BY <1>1
        <5>2. Whole(begun, sending.part)[1].unit = begun
          BY <1>1, <5>1, WholeIs
        <5> QED
          BY <1>1, <5>2 DEF SoFar
      <4> QED
        BY <1>2, <3>1, <4>1, <4>2
    <3>2. CASE fu' = <<P(begun, 0)>>
      <4> DEFINE p == P(begun, 0)
      <4>1. fu' = <<p>> /\ p.unit = begun /\ p.part = 0
        BY <1>5, <3>2
      <4> HIDE DEF p
      <4> QED
        BY <1>1, <1>2, <4>1 DEF Headed
    <3> QED
      BY <1>1, <2>1, <3>1, <3>2
  <2>2. sending' # Idle => sending'.unit \in hurt'
    BY <1>2, <1>3
  <2> QED
    BY <1>3, <1>4, <2>1, <2>2 DEF BufferIs
<1>8. RingIs'
  <2>1. begun' \in begun .. MaxUnits
    BY <1>1 DEF SessionInv, SessionTypes
  <2> QED
    BY <1>3, <2>1, RingStays DEF RingIs
<1>9. IntactUnitsArrive'
  BY <1>2, IntactAfterFragment
<1>10. SessionsEndClean'
  BY <1>4 DEF SessionInv, SessionsEndClean, InSession
<1> QED
  BY <1>3, <1>6, <1>7, <1>8, <1>9, <1>10 DEF SessionInv

LEMMA AppendFragmentKeeps == ASSUME SessionInv, ReadFrame, AppendFragment PROVE SessionInv'
<1>1. /\ sending # Idle /\ ~ IsEnd /\ (IsStart \/ fu # << >>) /\ fu' = Buffer /\ Sent
      /\ UNCHANGED <<begun, ring, sizes, hurt>>
  BY DEF AppendFragment
<1>2. UNCHANGED <<phase, session, sockets>> /\ phase = "playing"
  BY OnlyTheParser
<1>3. /\ UNCHANGED sentIn /\ SendingIs'
      /\ sending' \in [unit : Nat, size : Nat, part : Nat]
      /\ sending' # Idle /\ sending'.unit = begun /\ sending'.part = sending.part + 1
  BY <1>1, FragmentSent
<1>4. /\ sending.unit = begun /\ sending.part \in Nat
      /\ begun' \in begun .. MaxUnits
  BY <1>1, <1>2, WhileSending DEF SessionInv, SessionTypes
<1>5. /\ Buffer \in Seq(Piece) /\ Headed(Buffer)
      /\ \A k \in DOMAIN Buffer :
           Buffer[k].unit \in 1 .. begun /\ sentIn[Buffer[k].unit] = session
      /\ \/ Buffer[1].unit \in hurt
         \/ Buffer = Whole(begun, sending.part + 1)
      /\ begun \notin hurt => Buffer = Whole(begun, sending.part + 1)
  BY <1>1, <1>2, BufferGrows
<1>6. SessionTypes'
  BY <1>1, <1>2, <1>3, <1>5 DEF SessionInv, SessionTypes
<1>7. BufferIs'
  <2>1. SoFar' = Whole(begun, sending.part + 1)
    BY <1>3 DEF SoFar
  <2>2. sending'.part >= 1
    BY <1>3, <1>4
  <2> HIDE DEF Buffer
  <2> QED
    BY <1>1, <1>2, <1>3, <1>5, <2>1, <2>2 DEF BufferIs
<1>8. RingIs'
  BY <1>1, <1>3, <1>4, RingStays DEF RingIs
<1>9. IntactUnitsArrive'
  BY <1>1, IntactAfterFragment
<1>10. SessionsEndClean'
  BY <1>2 DEF SessionInv, SessionsEndClean, InSession
<1> QED
  BY <1>3, <1>6, <1>7, <1>8, <1>9, <1>10 DEF SessionInv

LEMMA FinishUnitKeeps == ASSUME SessionInv, ReadFrame, FinishUnit PROVE SessionInv'
<1>1. /\ sending # Idle /\ IsEnd /\ (IsStart \/ fu # << >>) /\ fu' = << >> /\ Sent
      /\ UNCHANGED <<begun, sizes>>
  BY DEF FinishUnit
<1>2. CASE Hurts /\ UNCHANGED ring
  BY <1>1, <1>2, LostFragmentKeeps
<1>3. CASE ring' = Append(ring, Buffer) /\ UNCHANGED hurt
  <2>1. UNCHANGED <<phase, session, sockets>> /\ phase = "playing"
    BY OnlyTheParser
  <2>2. /\ UNCHANGED sentIn /\ SendingIs' /\ sending' = Idle
        /\ sending' \in [unit : Nat, size : Nat, part : Nat]
    BY <1>1, <1>3, FragmentSent
  <2>3. /\ sending.unit = begun /\ begun >= 1 /\ begun \in Nat /\ sending.part \in Nat
        /\ sending.size \in 1 .. MaxFragments /\ sizes[begun] = sending.size
        /\ begun' \in begun .. MaxUnits
    BY <1>1, <2>1, WhileSending DEF SessionInv, SessionTypes
  <2>4. sizes[begun] = sending.part + 1
    BY <1>1, <2>3 DEF IsEnd
  <2> DEFINE b == Buffer
  <2>5. /\ b \in Seq(Piece) /\ Headed(b)
        /\ \A k \in DOMAIN b : b[k].unit \in 1 .. begun /\ sentIn[b[k].unit] = session
        /\ b[1].unit \in hurt \/ b = Whole(begun, sizes[begun])
        /\ begun \notin hurt => b = Whole(begun, sizes[begun])
    BY <1>1, <2>1, <2>4, BufferGrows
  <2>6. ring' = Append(ring, b)
    BY <1>3
  <2> HIDE DEF b
  <2>7. /\ ring' \in Seq(Seq(Piece)) /\ Len(ring) \in Nat
        /\ \A i \in DOMAIN ring : i \in DOMAIN ring' /\ ring'[i] = ring[i]
        /\ Len(ring) + 1 \in DOMAIN ring' /\ ring'[Len(ring) + 1] = b
        /\ \A i \in DOMAIN ring' : i \in DOMAIN ring \/ ring'[i] = b
    <3>1. ring \in Seq(Seq(Piece))
      BY DEF SessionInv, SessionTypes
    <3> DEFINE S == Seq(Piece)
    <3>2. b \in S /\ ring \in Seq(S)
      BY <2>5, <3>1
    <3> HIDE DEF S
    <3>3. ring' \in Seq(S) /\ Len(ring') = Len(ring) + 1 /\ Len(ring) \in Nat
      BY <2>6, <3>2
    <3>4. (\A i \in 1 .. Len(ring) : ring'[i] = ring[i]) /\ ring'[Len(ring) + 1] = b
      BY <2>6, <3>2
    <3>5. DOMAIN ring' = 1 .. Len(ring) + 1 /\ DOMAIN ring = 1 .. Len(ring)
      BY <3>2, <3>3
    <3>6. \A i \in 1 .. Len(ring) + 1 : i \in 1 .. Len(ring) \/ i = Len(ring) + 1
      BY <3>3
    <3> QED
      BY <3>3, <3>4, <3>5, <3>6 DEF S
  <2>8. Sound(b, begun, sizes, hurt, sentIn)
    <3>1. 1 \in DOMAIN b
      BY <2>5 DEF Headed
    <3>2. b = Whole(begun, sizes[begun]) => b[1].unit = begun
      <4>1. begun \in Units /\ sizes[begun] \in 0 .. MaxFragments
        BY <1>1, <2>1, <2>3, WhileSending
      <4>2. 1 \in 1 .. sizes[begun] + 1
        BY <2>3, <2>4
      <4>3. Whole(begun, sizes[begun])[1].unit = begun
        BY <4>1, <4>2, WholeIs
      <4> QED
        BY <4>3
    <3> QED
      BY <2>5, <3>1, <3>2 DEF Sound
  <2>9. SessionTypes'
    BY <1>1, <1>3, <2>1, <2>2, <2>7 DEF SessionInv, SessionTypes
  <2>10. BufferIs'
    BY <1>1, <2>2 DEF BufferIs
  <2>11. RingIs'
    <3>1. \A i \in DOMAIN ring : Sound(ring[i], begun', sizes', hurt', sentIn')
      BY <1>1, <1>3, <2>2, <2>3, RingStays
    <3>2. Sound(b, begun', sizes', hurt', sentIn')
      BY <1>1, <1>3, <2>2, <2>8
    <3> QED
      BY <2>7, <3>1, <3>2 DEF RingIs
  <2>12. IntactUnitsArrive'
    <3>1. sending.unit \in hurt' \/ \E i \in DOMAIN ring' : ring'[i] = Whole(begun, sizes[begun])
      BY <1>3, <2>3, <2>5, <2>7
    <3> QED
      BY <1>1, <1>3, <2>7, <3>1, IntactAfterFragment
  <2>13. SessionsEndClean'
    BY <2>1 DEF SessionInv, SessionsEndClean, InSession
  <2> QED
    BY <2>2, <2>9, <2>10, <2>11, <2>12, <2>13 DEF SessionInv
<1> QED
  BY <1>2, <1>3 DEF FinishUnit

LEMMA ReadFrameKeeps == ASSUME SessionInv, ReadFrame PROVE SessionInv'
<1>1. CASE \E k \in 1 .. 2 : WholePayload(k)
  BY <1>1, WholePayloadKeeps
<1>2. CASE \E n \in 1 .. MaxFragments : BeginFragments(n)
  BY <1>2, BeginFragmentsKeeps
<1>3. CASE LoseFragment
  BY <1>3, LostFragmentKeeps DEF LoseFragment
<1>4. CASE FragmentHasNoRoom
  BY <1>4, LostFragmentKeeps DEF FragmentHasNoRoom
<1>5. CASE RejectFragment
  BY <1>5, LostFragmentKeeps DEF RejectFragment
<1>6. CASE AppendFragment
  BY <1>6, AppendFragmentKeeps
<1>7. CASE FinishUnit
  BY <1>7, FinishUnitKeeps
<1> QED
  BY <1>1, <1>2, <1>3, <1>4, <1>5, <1>6, <1>7 DEF ReadFrame, Next, Fragment

-----------------------------------------------------------------------------
(* The session around the parser.                                           *)

(* A new session: what the camera was sending is hurt, the buffer empty.    *)
LEMMA PlayKeeps == ASSUME SessionInv, Play PROVE SessionInv'
<1>1. /\ phase = "set up" /\ phase' = "playing" /\ session' = begun + 1
      /\ sending' = Idle /\ fu' = << >> /\ hurt' = hurt \cup ({sending.unit} \ {0})
      /\ UNCHANGED <<begun, ring, sizes, sockets, sentIn>>
  BY DEF Play, ToPhase, FreshParser
<1>2. begun \in Nat /\ begun' \in begun .. MaxUnits /\ hurt \subseteq 1 .. begun
  <2>1. begun \in 0 .. MaxUnits /\ MaxUnits \in Nat /\ hurt \subseteq 1 .. begun
    BY DepacketizerAssumption DEF SessionInv, SessionTypes
  <2>2. begun' = begun
    BY <1>1
  <2> QED
    BY <2>1, <2>2
<1>3. sending.unit = 0 \/ sending.unit \in 1 .. begun
  BY <1>2 DEF SessionInv, SendingIs, Idle
<1>4. hurt \subseteq hurt' /\ hurt' \subseteq 1 .. begun
  BY <1>1, <1>2, <1>3
<1>5. SessionTypes'
  <2>1. sending' \in [unit : Nat, size : Nat, part : Nat]
    BY <1>1 DEF Idle
  <2>2. fu' \in Seq(Piece)
    <3>1. fu' = << >>
      BY <1>1
    <3> QED
      BY <3>1
  <2>3. session' \in Nat
    <3>1. session' = begun + 1 /\ begun \in Nat
      BY <1>1, <1>2
    <3> QED
      BY <3>1
  <2> QED
    BY <1>1, <1>4, <2>1, <2>2, <2>3 DEF SessionInv, SessionTypes, InSession
<1>6. SendingIs' /\ BufferIs'
  BY <1>1 DEF SendingIs, BufferIs
<1>7. RingIs'
  BY <1>1, <1>2, <1>4, RingStays DEF RingIs
<1>8. IntactUnitsArrive'
  <2>1. ASSUME NEW u \in 1 .. begun, u \notin hurt'
        PROVE  \E i \in DOMAIN ring : ring[i] = Whole(u, sizes[u])
    <3>1. u \notin hurt /\ u # 0
      BY <1>2, <1>4, <2>1
    <3>2. u # sending.unit
      BY <1>1, <2>1, <3>1
    <3>3. u \in Complete \ hurt
      BY <3>1, <3>2 DEF Complete
    <3> QED
      BY <3>3 DEF SessionInv, IntactUnitsArrive, WholeOf
  <2> QED
    BY <1>1, <2>1 DEF IntactUnitsArrive, Complete, WholeOf
<1>9. SessionsEndClean'
  BY <1>1 DEF SessionInv, SessionsEndClean, InSession
<1> QED
  BY <1>5, <1>6, <1>7, <1>8, <1>9 DEF SessionInv

LEMMA SendingTyped ==
  SessionInv /\ UNCHANGED sending => sending' \in [unit : Nat, size : Nat, part : Nat]
BY DEF SessionInv, SessionTypes

(* Steps that leave the parser alone, or empty its buffer and stop playing. *)
LEMMA AroundTheParser ==
  ASSUME SessionInv, UNCHANGED <<begun, sending, ring, sizes, hurt, session, sentIn>>,
         \/ fu' = fu /\ (phase' = "playing" => phase = "playing")
         \/ fu' = << >> /\ phase' # "playing",
         phase' \in InSession \cup {"off", "connecting", "sleeping", "exited"},
         sockets' \in Int, SessionsEndClean'
  PROVE  SessionInv'
<1>1. SessionTypes'
  <2>1. fu' \in Seq(Piece)
    <3>1. fu \in Seq(Piece) /\ << >> \in Seq(Piece)
      BY DEF SessionInv, SessionTypes
    <3>2. fu' = fu \/ fu' = << >>
      OBVIOUS
    <3> QED
      BY <3>1, <3>2
  <2>2. phase' \in InSession' \cup {"off", "connecting", "sleeping", "exited"}
    BY DEF InSession
  <2>3. sending' \in [unit : Nat, size : Nat, part : Nat]
    BY SendingTyped
  <2> QED
    BY <2>1, <2>2, <2>3 DEF SessionInv, SessionTypes
<1>2. SendingIs'
  BY DEF SessionInv, SendingIs
<1>3. BufferIs'
  BY DEF SessionInv, BufferIs, SoFar
<1>4. RingIs'
  BY DEF SessionInv, RingIs
<1>5. IntactUnitsArrive'
  BY DEF SessionInv, IntactUnitsArrive, Complete, WholeOf
<1> QED
  BY <1>1, <1>2, <1>3, <1>4, <1>5 DEF SessionInv

LEMMA SessionInitInv == SessionInit => SessionInv
<1> SUFFICES ASSUME SessionInit PROVE SessionInv
  OBVIOUS
<1>1. /\ begun = 0 /\ sending = Idle /\ fu = << >> /\ ring = << >> /\ sizes = << >> /\ hurt = {}
      /\ phase = "off" /\ sockets = 0 /\ session = 0 /\ sentIn = << >>
  BY DEF SessionInit, Init
<1>2. SessionTypes
  BY <1>1, DepacketizerAssumption DEF SessionTypes, Idle, InSession
<1>3. SendingIs /\ BufferIs /\ RingIs
  BY <1>1 DEF SendingIs, BufferIs, RingIs
<1>4. IntactUnitsArrive
  BY <1>1 DEF IntactUnitsArrive, Complete
<1>5. SessionsEndClean
  BY <1>1 DEF SessionsEndClean, InSession
<1> QED
  BY <1>2, <1>3, <1>4, <1>5 DEF SessionInv

LEMMA SessionNextInv == SessionInv /\ [SessionNext]_allVars => SessionInv'
<1> SUFFICES ASSUME SessionInv, [SessionNext]_allVars PROVE SessionInv'
  OBVIOUS
<1>1. /\ phase \in {"connected", "described", "set up", "playing"} => sockets = 1
      /\ phase \in {"off", "connecting", "sleeping", "exited"} => sockets = 0
      /\ phase # "playing" => fu = << >>
      /\ phase \in {"connected", "described", "set up", "playing",
                    "off", "connecting", "sleeping", "exited"}
  BY DEF SessionInv, SessionsEndClean, SessionTypes, InSession
<1>2. CASE ReadFrame
  BY <1>2, ReadFrameKeeps
<1>3. CASE Play
  BY <1>3, PlayKeeps
<1>4. CASE LeaveStream
  <2>1. /\ phase = "playing" /\ phase' = "off" /\ sockets' = sockets - 1 /\ fu' = << >>
        /\ UNCHANGED <<begun, sending, ring, sizes, hurt, session, sentIn>>
    BY <1>4 DEF LeaveStream, ToPhase, FreshParser
  <2>2. sockets' = 0
    <3>1. sockets = 1
      BY <1>1, <2>1
    <3> QED
      BY <2>1, <3>1
  <2>3. SessionsEndClean'
    BY <2>1, <2>2 DEF SessionsEndClean, InSession
  <2> QED
    BY <2>1, <2>2, <2>3, AroundTheParser
<1>5. CASE ThreadLoop \/ WakeUp \/ Request \/ Connect \/ RequestFails
  <2>1. UNCHANGED <<begun, sending, ring, sizes, hurt, session, sentIn>> /\ UNCHANGED fu
    BY <1>5 DEF ThreadLoop, WakeUp, Request, Connect, RequestFails, vars
  <2>2. /\ phase # "playing" /\ phase' # "playing"
        /\ phase' \in {"off", "connecting", "sleeping", "exited", "connected", "described",
                       "set up"}
        /\ phase' \in {"connected", "described", "set up"} => sockets' = 1
        /\ phase' \in {"off", "connecting", "sleeping", "exited"} => sockets' = 0
    <3>1. CASE ThreadLoop \/ WakeUp
      BY <1>1, <3>1 DEF ThreadLoop, WakeUp, ToPhase
    <3>2. CASE Request
      <4>1. \/ phase = "connected" /\ phase' = "described"
            \/ phase = "described" /\ phase' = "set up"
        <5>1. phase \in {"connected", "described"} /\ phase' = AfterRequest[phase]
          BY <3>2 DEF Request, ToPhase
        <5>2. AfterRequest["connected"] = "described" /\ AfterRequest["described"] = "set up"
          BY DEF AfterRequest
        <5> QED
          BY <5>1, <5>2
      <4>2. UNCHANGED sockets
        BY <3>2 DEF Request
      <4> QED
        BY <1>1, <4>1, <4>2
    <3>3. CASE Connect
      <4>1. phase = "connecting" /\ sockets = 0
        BY <1>1, <3>3 DEF Connect
      <4>2. \/ phase' = "connected" /\ sockets' = 1
            \/ phase' = "sleeping" /\ sockets' = 0
        BY <3>3, <4>1 DEF Connect, ToPhase
      <4> QED
        BY <4>1, <4>2
    <3>4. CASE RequestFails
      <4>1. phase \in {"connected", "described", "set up"} /\ sockets = 1
        BY <1>1, <3>4 DEF RequestFails
      <4>2. phase' = "off" /\ sockets' = sockets - 1
        BY <3>4 DEF RequestFails, ToPhase
      <4>3. sockets' = 0
        <5>1. sockets = 1
          BY <4>1
        <5>2. sockets' = sockets - 1
          BY <4>2
        <5> QED
          BY <5>1, <5>2
      <4> QED
        BY <4>1, <4>2, <4>3
    <3> QED
      BY <1>5, <3>1, <3>2, <3>3, <3>4
  <2>3. fu' = << >>
    BY <1>1, <2>1, <2>2
  <2>4. sockets' \in Int
    <3>1. sockets' = 0 \/ sockets' = 1
      BY <2>2
    <3> QED
      BY <3>1
  <2>5. SessionsEndClean'
    BY <2>2, <2>3 DEF SessionsEndClean, InSession
  <2>6. phase' \in InSession \cup {"off", "connecting", "sleeping", "exited"}
    BY <2>2 DEF InSession
  <2> QED
    BY <2>1, <2>2, <2>3, <2>4, <2>5, <2>6, AroundTheParser
<1>6. CASE CameraChanges \/ Stop \/ UNCHANGED allVars
  <2>1. /\ UNCHANGED <<begun, sending, ring, sizes, hurt, session, sentIn>>
        /\ UNCHANGED <<fu, phase, sockets>>
    BY <1>6 DEF CameraChanges, Stop, allVars, vars, sessionVars
  <2>2. SessionsEndClean'
    BY <1>1, <2>1 DEF SessionsEndClean, InSession
  <2>3. phase' \in InSession \cup {"off", "connecting", "sleeping", "exited"} /\ sockets' \in Int
    BY <2>1 DEF SessionInv, SessionTypes
  <2> QED
    BY <2>1, <2>2, <2>3, AroundTheParser
<1> QED
  BY <1>2, <1>3, <1>4, <1>5, <1>6 DEF SessionNext, Thread

(* Whatever is lost, whenever the camera goes away and however often the    *)
(* thread reconnects, for any number and size of units: an intact unit      *)
(* arrives whole, what arrives begins with one header and is its unit or a  *)
(* hurt one, is of one session, and a session ends with its socket closed   *)
(* and its buffer empty.                                                    *)
THEOREM UnitsArriveHolds == SessionSpec => []UnitsArrive
<1>1. SessionSpec => []SessionInv
  BY SessionInitInv, SessionNextInv, PTL DEF SessionSpec
<1>2. SessionInv => UnitsArrive
  <2> SUFFICES ASSUME SessionInv PROVE DamageIsContained /\ OneSessionPerUnit
    BY DEF SessionInv, UnitsArrive
  <2>1. \A i \in DOMAIN ring : Sound(ring[i], begun, sizes, hurt, sentIn)
    BY DEF SessionInv, RingIs
  <2>2. DamageIsContained
    BY <2>1 DEF DamageIsContained, Sound, Headed, WholeOf
  <2>3. OneSessionPerUnit
    BY <2>1 DEF OneSessionPerUnit, Sound
  <2> QED
    BY <2>2, <2>3
<1> QED
  BY <1>1, <1>2, PTL

=============================================================================
