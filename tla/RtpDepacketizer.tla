-------------------------- MODULE RtpDepacketizer ---------------------------
(***************************************************************************)
(* From RTP payloads to the units of an H.264 or H.265 stream              *)
(* (src/src/rtp_h26x.c). The camera numbers its units 1, 2, ...; it sends  *)
(* a unit alone, several in one payload, or one in fragments. The parser   *)
(* hands every unit it has completed to the packet ring.                   *)
(*                                                                         *)
(* A piece is a fragment of a unit: piece 0 is the unit's header, which    *)
(* the parser rebuilds from the first fragment, and a unit of n fragments  *)
(* has the pieces 0 .. n. Both codecs work alike; they differ only in how  *)
(* long headers are. The parser looks neither at sequence numbers nor at   *)
(* time stamps, so that what is lost is lost silently.                     *)
(***************************************************************************)
EXTENDS Integers, Sequences, SequencesExt

CONSTANTS
  StreamFaults,  (* what may go wrong, out of the kinds below               *)
  MaxFragments,  (* bound of the model: fragments per unit                  *)
  MaxUnits       (* bound of the model: units sent                          *)

ASSUME DepacketizerAssumption ==
  /\ StreamFaults \subseteq {"loss",    (* a payload never comes, or malformed *)
                             "memory"}  (* malloc or realloc fails             *)
  /\ MaxFragments \in Nat \ {0}
  /\ MaxUnits \in Nat

Units == 1 .. MaxUnits
Piece == [unit : Units, part : 0 .. MaxFragments]
P(u, i) == [unit |-> u, part |-> i]
Whole(u, n) == [i \in 1 .. n + 1 |-> P(u, i - 1)]
Idle == [unit |-> 0, size |-> 0, part |-> 0]

VARIABLES
  begun,    (* units the camera has begun to send                           *)
  sending,  (* the unit it is sending in fragments, and how far it is       *)
  fu,       (* the pieces in fu_buf; fu_len = 0 when there are none         *)
  ring,     (* what ring_push was given, in order                           *)
  sizes,    (* history: into how many fragments each unit was cut           *)
  hurt      (* history: units of which something was lost                   *)

vars == <<begun, sending, fu, ring, sizes, hurt>>

May(fault) == fault \in StreamFaults

-----------------------------------------------------------------------------

(* push_annexb for each unit in turn.                                       *)
Deliver(units) ==
  ring' = ring \o [i \in 1 .. Len(units) |-> Whole(units[i], 0)]

(* The units of a payload that make it, in order: all of them, or those     *)
(* before a malformed one, of which each may miss its memory.               *)
Survivors(first, last) ==
  {s \in SeqOf(first .. last, last - first + 1) :
     /\ \A i, k \in DOMAIN s : i < k => s[i] < s[k]
     /\ ~ May("loss") /\ ~ May("memory") => Len(s) = last - first + 1
     /\ ~ May("memory") => \A i \in DOMAIN s : s[i] = first + i - 1}

(* Variant: an aggregated payload is left after its first unit.             *)
WholePayload_FirstOnly(k) ==
  /\ sending = Idle /\ begun + k <= MaxUnits
  /\ begun' = begun + k
  /\ Deliver(<<begun + 1>>)
  /\ sizes' = sizes \o [i \in 1 .. k |-> 0]
  /\ hurt' = hurt
  /\ UNCHANGED <<sending, fu>>

(* A payload with one unit (types 1 to 23, up to 47) or with k aggregated   *)
(* ones (types 24, 48). Neither touches the fragment buffer.                *)
WholePayload(k) ==
  /\ sending = Idle /\ begun + k <= MaxUnits
  /\ begun' = begun + k
  /\ \E units \in Survivors(begun + 1, begun + k) :
       /\ Deliver(units)
       /\ hurt' = hurt \cup {u \in begun + 1 .. begun + k : u \notin Range(units)}
  /\ sizes' = sizes \o [i \in 1 .. k |-> 0]
  /\ UNCHANGED <<sending, fu>>

(* The camera begins a unit of n fragments.                                 *)
BeginFragments(n) ==
  /\ sending = Idle /\ begun < MaxUnits
  /\ begun' = begun + 1
  /\ sending' = [unit |-> begun + 1, size |-> n, part |-> 0]
  /\ sizes' = Append(sizes, n)
  /\ UNCHANGED <<fu, ring, hurt>>

NextPiece == P(sending.unit, sending.part + 1)
IsStart == sending.part = 0
IsEnd == sending.part + 1 = sending.size
Sent == sending' = IF IsEnd THEN Idle ELSE [sending EXCEPT !.part = @ + 1]
Hurts == hurt' = hurt \cup {sending.unit}

(* The fragment never arrives, or its RTP header does not parse.            *)
LoseFragment ==
  /\ sending # Idle /\ May("loss")
  /\ Sent /\ Hurts
  /\ UNCHANGED <<begun, fu, ring, sizes>>

(* No memory: at the start the buffer stays empty or keeps the header       *)
(* alone; later it stays as it was, with a hole where the fragment belongs. *)
FragmentHasNoRoom ==
  /\ sending # Idle /\ May("memory")
  /\ IsStart \/ fu # << >>
  /\ fu' \in IF IsStart THEN {<< >>, <<P(sending.unit, 0)>>} ELSE {fu}
  /\ Sent /\ Hurts
  /\ UNCHANGED <<begun, ring, sizes>>

(* The beginning was lost: "else if (p->fu_len <= 0) return CA_ERR".        *)
RejectFragment ==
  /\ sending # Idle /\ ~ IsStart /\ fu = << >>
  /\ Sent /\ Hurts
  /\ UNCHANGED <<begun, fu, ring, sizes>>

(* Variant: a start does not empty the buffer.                              *)
Buffer_NotRestarted ==
  (IF IsStart THEN Append(fu, P(sending.unit, 0)) ELSE fu) \o <<NextPiece>>

(* The buffer with the fragment appended.                                   *)
Buffer == (IF IsStart THEN <<P(sending.unit, 0)>> ELSE fu) \o <<NextPiece>>

AppendFragment ==
  /\ sending # Idle /\ ~ IsEnd
  /\ IsStart \/ fu # << >>
  /\ fu' = Buffer
  /\ Sent
  /\ UNCHANGED <<begun, ring, sizes, hurt>>

FinishUnit ==
  /\ sending # Idle /\ IsEnd
  /\ IsStart \/ fu # << >>
  /\ \/ ring' = Append(ring, Buffer) /\ UNCHANGED hurt
     \/ May("memory") /\ Hurts /\ UNCHANGED ring
  /\ fu' = << >>
  /\ Sent
  /\ UNCHANGED <<begun, sizes>>

Fragment == \/ LoseFragment \/ FragmentHasNoRoom \/ RejectFragment
            \/ AppendFragment \/ FinishUnit

-----------------------------------------------------------------------------
Init ==
  /\ begun = 0 /\ sending = Idle
  /\ fu = << >> /\ ring = << >>
  /\ sizes = << >> /\ hurt = {}

Next ==
  \/ \E k \in 1 .. 2 : WholePayload(k)
  \/ \E n \in 1 .. MaxFragments : BeginFragments(n)
  \/ Fragment

Spec == Init /\ [][Next]_vars

-----------------------------------------------------------------------------
TypeOK ==
  /\ begun \in 0 .. MaxUnits
  /\ sending = Idle \/ /\ sending.unit \in Units /\ sending.size \in 1 .. MaxFragments
                       /\ sending.part \in 0 .. sending.size - 1
  /\ fu \in Seq(Piece) /\ Len(fu) <= MaxUnits * MaxFragments + 1
  /\ ring \in Seq(Seq(Piece))
  /\ sizes \in Seq(0 .. MaxFragments) /\ Len(sizes) = begun
  /\ hurt \subseteq Units

WholeOf(u) == Whole(u, sizes[u])
Complete == 1 .. begun \ {sending.unit}

(* A unit none of which was lost reaches the ring, and reaches it whole:    *)
(* whatever happened to the units before it is over with its own start.     *)
IntactUnitsArrive ==
  \A u \in Complete \ hurt : \E i \in DOMAIN ring : ring[i] = WholeOf(u)

(* What the ring is given begins with the header of a unit and holds no     *)
(* other header; unless something of that unit was lost it is that unit.    *)
DamageIsContained ==
  \A i \in DOMAIN ring :
    /\ ring[i][1].part = 0
    /\ \A k \in 2 .. Len(ring[i]) : ring[i][k].part # 0
    /\ ring[i] = WholeOf(ring[i][1].unit) \/ ring[i][1].unit \in hurt

=============================================================================
