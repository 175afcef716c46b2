--------------------------- MODULE SlidingConfirm ---------------------------
(***************************************************************************)
(* What the alarm confirmation promises, without arrays or indices: an     *)
(* alarm is raised on the first frame at which at least N of the last M    *)
(* frames seen since the previous alarm held a target, and the window then *)
(* starts afresh, whether or not the alarm could be delivered.             *)
(***************************************************************************)
EXTENDS Integers, Sequences, FiniteSets

CONSTANTS
  M,       (* length of the window, in frames                               *)
  N,       (* frames with a target that confirm an alarm                    *)
  Classes, (* class ids a detector may report                               *)
  Known    (* class ids the histogram counts: 0..15                         *)

Sample == [detected : BOOLEAN, class_id : Classes]
NoAlarm == [raised |-> FALSE]

VARIABLES
  win,   (* the frames of the window, oldest first                          *)
  alarm  (* what the last frame raised                                      *)

absVars == <<win, alarm>>

LastM(s) == IF Len(s) <= M THEN s ELSE SubSeq(s, Len(s) - M + 1, Len(s))
Positive(w) == {i \in DOMAIN w : w[i].detected}
Votes(w, c) == Cardinality({i \in Positive(w) : w[i].class_id = c})

(* The class most frames agree on; the smallest of equals; -1 when no frame *)
(* reports a class the histogram knows.                                     *)
IsMajority(w, c) ==
  \/ /\ c \in Known /\ Votes(w, c) > 0
     /\ \A d \in Known : \/ Votes(w, d) < Votes(w, c)
                         \/ Votes(w, d) = Votes(w, c) /\ d >= c
  \/ c = -1 /\ \A d \in Known : Votes(w, d) = 0

Init == win = << >> /\ alarm = NoAlarm

Frame(f) ==
  LET w == LastM(Append(win, f))
  IN  IF Cardinality(Positive(w)) < N
      THEN win' = w /\ alarm' = NoAlarm
      ELSE /\ win' = << >>
           /\ \E c \in Known \cup {-1}, ok \in BOOLEAN :
                /\ IsMajority(w, c)
                /\ alarm' = [raised |-> TRUE, class_id |-> c, delivered |-> ok]

Next == \E f \in Sample : Frame(f)

Spec == Init /\ [][Next]_absVars

=============================================================================
