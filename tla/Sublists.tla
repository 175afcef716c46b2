------------------------------- MODULE Sublists -------------------------------
(***************************************************************************)
(* A list without some of its elements: the splices of jQuery's loops      *)
(* (src/APP/html/script/jquery-1.11.1.js), which remove every occurrence.  *)
(* A recursive function, for the proofs about the lists that are spliced.  *)
(***************************************************************************)
EXTENDS Naturals, Sequences

Without(q, gone) ==
  LET Kept[i \in 0 .. Len(q)] ==
        IF i = 0 THEN << >>
        ELSE IF q[i] \in gone THEN Kept[i - 1] ELSE Append(Kept[i - 1], q[i])
  IN  Kept[Len(q)]

=============================================================================
