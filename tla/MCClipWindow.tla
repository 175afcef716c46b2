---------------------------- MODULE MCClipWindow ----------------------------
(***************************************************************************)
(* Instances of ClipWindow for TLC: a clip of two ticks before the event   *)
(* and one after it, in a ring that keeps just what README.md:72 asks for. *)
(***************************************************************************)
EXTENDS ClipWindow

AllFaults == {"limits", "ring", "memory"}

=============================================================================
