---------------------------- MODULE MCPacketRing ----------------------------
(***************************************************************************)
(* An instance of PacketRing for TLC: two sizes of packet, so that a push  *)
(* may have to evict several, a packet larger than the ring, and parameter *)
(* sets of both codecs.                                                    *)
(***************************************************************************)
EXTENDS PacketRing

Frame(size) == [size |-> size, codec |-> "h264", nal |-> "vcl"]
ParamSet(codec, nal, size) == [size |-> size, codec |-> codec, nal |-> nal]

(* A frame larger than the ring, among the parameter sets of a stream that  *)
(* changes codec: an SPS may come from either, one of H.265 is larger than  *)
(* save_param keeps, and a VPS of H.264 is a packet like any other.         *)
SomePackets == {Frame(MaxBytes + 1), ParamSet("h264", "sps", 1), ParamSet("h265", "sps", 2),
                ParamSet("h264", "vps", 1), ParamSet("h265", "vps", 1)}

=============================================================================
