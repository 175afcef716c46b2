----------------------------- MODULE AudioRenderer -----------------------------
(***************************************************************************)
(* The sound of the player                                                 *)
(* (src/APP/html/script/playctrl/AudioRenderer.js): one renderer for all   *)
(* windows of the page, driven by the players of jsPlugin-1.2.0.min.js. It *)
(* keeps a volume for every window and plays the one that was opened last. *)
(* A piece of sound is decoded by the browser, which may take until other  *)
(* calls have been made, and is then played through the gain node.         *)
(***************************************************************************)
EXTENDS Naturals, FiniteSets

CONSTANTS
  Windows,      (* numbers of windows                                       *)
  NoWindow,     (* -1: none was opened yet                                  *)
  Volumes,      (* what the volume may be set to; DefaultVolume: 0.8        *)
  DefaultVolume,
  NotSet,       (* undefined: the window's volume was not set yet           *)
  MaxSounds     (* bound: pieces of sound, and so gain nodes                *)

ASSUME AudioAssumption == NotSet \notin Volumes /\ MaxSounds \in Nat

VARIABLES
  iWndNum, currentVolume, mVolumes,
  bSetVolume,   (* the volume was set since a gain node was made            *)
  gainNode,     (* the gain node in use, 0: none                            *)
  connected,    (* gain nodes that are connected to the loudspeaker         *)
  gain,         (* the volume of every gain node                            *)
  decoding,     (* pieces the browser decodes                               *)
  sounds,       (* of every piece played: its gain node                     *)
  pieces        (* pieces so far                                            *)

audioVars == <<iWndNum, currentVolume, mVolumes, bSetVolume, gainNode, connected, gain,
               decoding, sounds, pieces>>

Nodes == 1 .. MaxSounds
VolumeOf(w) == IF mVolumes[w] = NotSet THEN DefaultVolume ELSE mVolumes[w]
GetVolume == VolumeOf(iWndNum)

-----------------------------------------------------------------------------

Play ==
  /\ pieces < MaxSounds /\ pieces' = pieces + 1
  /\ decoding' = decoding \cup {pieces'}
  /\ UNCHANGED <<iWndNum, currentVolume, mVolumes, bSetVolume, gainNode, connected, gain, sounds>>

(* The sound is there. After SetVolume it gets a new gain node; the old one *)
(* stays connected for what it still plays.                                 *)
Decoded ==
  /\ \E p \in decoding :
       /\ decoding' = decoding \ {p}
       /\ gainNode' = IF gainNode = 0 \/ bSetVolume THEN p ELSE gainNode
       /\ sounds' = [sounds EXCEPT ![p] = gainNode']
  /\ bSetVolume' = (bSetVolume /\ gainNode' = gainNode)
  /\ gain' = [gain EXCEPT ![gainNode'] = currentVolume]
  /\ connected' = connected \cup {gainNode'}
  /\ UNCHANGED <<iWndNum, currentVolume, mVolumes, pieces>>

DecodeError ==
  /\ \E p \in decoding : decoding' = decoding \ {p}
  /\ UNCHANGED <<iWndNum, currentVolume, mVolumes, bSetVolume, gainNode, connected, gain,
                 sounds, pieces>>

SoundEnds ==
  /\ \E p \in Nodes : sounds[p] # 0 /\ sounds' = [sounds EXCEPT ![p] = 0]
  /\ UNCHANGED <<iWndNum, currentVolume, mVolumes, bSetVolume, gainNode, connected, gain,
                 decoding, pieces>>

(* Stop: when the stream of a player is closed, be its sound on or not.     *)
Stop ==
  /\ connected' = connected \ {gainNode} /\ gainNode' = 0
  /\ UNCHANGED <<iWndNum, currentVolume, mVolumes, bSetVolume, gain, decoding, sounds, pieces>>

SetVolume(iVolume) ==
  /\ bSetVolume' = TRUE /\ currentVolume' = iVolume
  /\ mVolumes' = [mVolumes EXCEPT ![iWndNum] = iVolume]
  /\ UNCHANGED <<iWndNum, gainNode, connected, gain, decoding, sounds, pieces>>

(* Variant: the volume is not looked up.                                    *)
SetWndNum_KeepsVolume(w) ==
  /\ iWndNum' = w
  /\ UNCHANGED <<currentVolume, mVolumes, bSetVolume, gainNode, connected, gain, decoding,
                 sounds, pieces>>

SetWndNum(w) ==
  /\ iWndNum' = w
  /\ currentVolume' = VolumeOf(w)
  /\ UNCHANGED <<mVolumes, bSetVolume, gainNode, connected, gain, decoding, sounds, pieces>>

AudioInit ==
  /\ iWndNum = NoWindow /\ currentVolume = DefaultVolume
  /\ mVolumes = [w \in Windows \cup {NoWindow} |-> NotSet] /\ bSetVolume = FALSE
  /\ gainNode = 0 /\ connected = {} /\ gain = [n \in Nodes |-> 0]
  /\ decoding = {} /\ sounds = [n \in Nodes |-> 0] /\ pieces = 0

AudioNext ==
  \/ Play \/ Decoded \/ DecodeError \/ SoundEnds \/ Stop
  \/ \E v \in Volumes : SetVolume(v)
  \/ \E w \in Windows : SetWndNum(w)

AudioSpec == AudioInit /\ [][AudioNext]_audioVars

-----------------------------------------------------------------------------
(* Property.                                                                *)

(* A sound that begins is heard, as loud as the volume that GetVolume tells *)
(* of the window in front, whatever was set, stopped or switched while it   *)
(* was decoded; and the sounds that play through the gain node in use are   *)
(* heard, those from before a change of the volume, too, until Stop.        *)
HeardAsSet ==
  [][\A p \in Nodes :
       /\ sounds[p] = 0 /\ sounds'[p] # 0 =>
            sounds'[p] \in connected' /\ gain'[sounds'[p]] = GetVolume'
       /\ sounds'[p] # 0 /\ sounds'[p] = gainNode' => gainNode' \in connected']_audioVars

=============================================================================
