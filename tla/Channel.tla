------------------------------ MODULE Channel -------------------------------
(***************************************************************************)
(* What the two queues of the application promise: a bounded first-in      *)
(* first-out channel that can be closed. A closed channel takes nothing    *)
(* more, but what it holds can still be drained.                           *)
(***************************************************************************)
EXTENDS Naturals, Sequences

CONSTANTS
  Capacity, (* how many items the channel holds                             *)
  Item      (* what it carries                                              *)

VARIABLES
  contents, (* the items, oldest first                                      *)
  closed

chanVars == <<contents, closed>>

HasRoom == ~ closed /\ Len(contents) < Capacity
Refuses == closed \/ Len(contents) = Capacity
Drained == closed /\ contents = << >>

Init == contents = << >> /\ closed = FALSE

Accept(item) == HasRoom /\ contents' = Append(contents, item) /\ UNCHANGED closed
Deliver == contents # << >> /\ contents' = Tail(contents) /\ UNCHANGED closed
Close == closed' = TRUE /\ UNCHANGED contents

Next == (\E item \in Item : Accept(item)) \/ Deliver \/ Close

Spec == Init /\ [][Next]_chanVars

=============================================================================
