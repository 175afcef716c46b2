---------------------------- MODULE MCChannelPage ----------------------------
(***************************************************************************)
(* Instances of ChannelPage for TLC: two channels with limits of their     *)
(* own, one of which has a region.                                         *)
(***************************************************************************)
EXTENDS ChannelPage
MCChannels == {1, 2}
MCRegionSize == <<3, 0>>
MCMaxSize == <<3, 2>>
MCMinSize == <<2, 2>>
=============================================================================
