--------------------------- MODULE MCRtspSession ----------------------------
(***************************************************************************)
(* Instances of RtspSession for TLC: a camera that comes and goes while it *)
(* sends a few fragmented units.                                           *)
(***************************************************************************)
EXTENDS RtspSession

LossAndMemory == {"loss", "memory"}

=============================================================================
