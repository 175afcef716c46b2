----------------------------- MODULE ChannelPage -----------------------------
(***************************************************************************)
(* The configuration page (src/APP/html/script/main.js): the buttons of    *)
(* the channels, the player of the selected one, the form with what the    *)
(* device has stored for it (enabled, region, linkages), and the button    *)
(* that saves the form. Composed with the polygon editor; the prompts that  *)
(* the handlers show (module ArtDialog) change nothing here.               *)
(*                                                                         *)
(* Requests are synchronous except the one for the channel list. To switch *)
(* the channel, the page waits until the player has stopped; meanwhile     *)
(* other clicks come. The parts of the form are named by the channel they  *)
(* were loaded from. AUTH and the user's own changes to the check boxes    *)
(* are left out.                                                           *)
(***************************************************************************)
EXTENDS RectCanvas

CONSTANTS
  Channels,     (* the channels of the device, numbered from 1              *)
  RegionSize,   (* of every channel, the points of its region: none, or as  *)
                (* many as the device takes                                 *)
  MaxSize, MinSize,  (* of every channel, RegionCap                         *)
  Patient,      (* whether the user waits for the page before a save        *)
  Faulty,       (* whether requests and streams fail                        *)
  MaxClicks     (* bound: what the user does                                *)

NoChannel == 0

ASSUME PageAssumption ==
  /\ Channels \subseteq Nat \ {NoChannel} /\ User \notin Channels
  /\ {RegionSize, MaxSize, MinSize} \subseteq [Channels -> Nat]
  /\ \A c \in Channels : /\ 1 < MinSize[c] /\ MinSize[c] <= MaxSize[c]
                         /\ RegionSize[c] \in {0} \cup (MinSize[c] .. MaxSize[c])
  /\ {Patient, Faulty} \subseteq BOOLEAN /\ MaxClicks \in Nat

VARIABLES
  config,       (* what the device has stored for every channel; NoChannel: *)
                (* what a save without a channel writes                     *)
  shown,        (* deviceCurChannels; {} until the list is here             *)
  list,         (* the request for it: "asked" or "over"                    *)
  initTimer,    (* whether initLiveView is still to come                    *)
  hasOutputs,   (* whether aIOOutList was filled                            *)
  currentChannel,
  enable, boxes,  (* the form: whose "enabled", whose linkages              *)
  Plugin,       (* the player's stream: "none" (no player), "opening",      *)
                (* "open", "closing" (told to), "closed" or "lost"          *)
  played,       (* the channel it was started for                           *)
  waiting,      (* the channel whose getParam waits for the stop, if any    *)
  clicks,       (* what the user has done so far                            *)
  failed,       (* history: whether a request or a stream has failed        *)
  givenUp       (* history: whether a switch was given up, because there    *)
                (* was no stream to stop                                    *)

deviceVars == <<config, shown, list, hasOutputs>>
formVars == <<currentChannel, enable, boxes>>
playerVars == <<Plugin, played, waiting, initTimer>>
histories == <<failed, givenUp>>
pageVars == <<deviceVars, formVars, playerVars, clicks, histories>>
allVars == <<canvasVars, pageVars>>

Outcomes == IF Faulty THEN {TRUE, FALSE} ELSE {TRUE}
Fails(ok) == failed' = (failed \/ ~ ok)

Acts == clicks < MaxClicks /\ clicks' = clicks + 1

(* A patient user saves when the page has done what the last click asked    *)
(* and the shape is finished.                                               *)
Busy == list = "asked" \/ initTimer \/ Plugin \in {"opening", "closing", "closed"}
MaySave == Patient => ~ Busy /\ ~ allowDraw

-----------------------------------------------------------------------------
(* The player (jsPlugin).                                                   *)

initLiveView == Plugin' = "opening" /\ played' = currentChannel

(* JS_Stop finds a stream to close: opened, and not closed already. It may  *)
(* be closing: then the one that waited for it before is forgotten.         *)
MayStop == Plugin \in {"open", "closing"}

(* Variant: while a stream is closing, the first who waits is not replaced. *)
AskStop_KeepsFirst(c) ==
  /\ Plugin' = IF MayStop THEN "closing" ELSE Plugin
  /\ waiting' = IF MayStop /\ waiting = NoChannel THEN c ELSE waiting
  /\ givenUp' = (givenUp \/ ~ MayStop)

(* getParam asks for the stop, and waits for it or ends here.               *)
AskStop(c) ==
  /\ Plugin' = IF MayStop THEN "closing" ELSE Plugin
  /\ waiting' = IF MayStop THEN c ELSE waiting
  /\ givenUp' = (givenUp \/ ~ MayStop)

StreamOpens ==
  /\ Plugin = "opening"
  /\ \E ok \in Outcomes : Plugin' = (IF ok THEN "open" ELSE "lost") /\ Fails(ok)
  /\ UNCHANGED <<deviceVars, formVars, played, waiting, initTimer, clicks, givenUp,
                 canvasVars>>

StreamBreaks ==
  /\ Faulty /\ Plugin = "open" /\ Plugin' = "lost" /\ failed' = TRUE
  /\ UNCHANGED <<deviceVars, formVars, played, waiting, initTimer, clicks, givenUp,
                 canvasVars>>

SocketCloses ==
  /\ Plugin = "closing" /\ Plugin' = "closed"
  /\ UNCHANGED <<deviceVars, formVars, played, waiting, initTimer, clicks, histories,
                 canvasVars>>

-----------------------------------------------------------------------------
(* The form.                                                                *)

(* The second half of getParam: the stored configuration is put into the    *)
(* form. Check boxes are only set, never cleared.                           *)
Load(c, shape, linkages, ok) ==
  /\ enable' = IF ok THEN c ELSE enable
  /\ aPoint' = IF ok THEN setPolygonPoints(shape, config[c].region) ELSE shape
  /\ boxes' = IF ok THEN linkages \cup {c} ELSE linkages

Limits(c) == iMaxPointNum' = MaxSize[c] /\ iMinPointNum' = MinSize[c] - 1

(* Variant: the shape of the channel before is not cleared.                 *)
getParamCap_KeepsShape(c) ==
  /\ currentChannel' = c
  /\ \E ok \in Outcomes :
       \/ /\ ~ ok /\ Fails(FALSE)
          /\ boxes' = {}
          /\ UNCHANGED <<aPoint, limits, enable, Plugin, waiting, givenUp>>
       \/ /\ ok /\ Limits(c) /\ Plugin = "none"
          /\ \E loaded \in Outcomes : Load(c, aPoint, {}, loaded) /\ Fails(loaded)
          /\ UNCHANGED <<Plugin, waiting, givenUp>>
       \/ /\ ok /\ Limits(c) /\ Plugin # "none"
          /\ boxes' = {}
          /\ AskStop(c)
          /\ UNCHANGED <<aPoint, enable, failed>>

(* getParamCap and the first half of getParam. No capabilities: the boxes   *)
(* are gone, the rest of the form stays. No player yet: the configuration   *)
(* is loaded at once. Otherwise the stop is waited for, and when there is   *)
(* none, getParam ends here.                                                *)
getParamCap(c) ==
  /\ currentChannel' = c
  /\ \E ok \in Outcomes :
       \/ /\ ~ ok /\ Fails(FALSE)
          /\ boxes' = {}
          /\ UNCHANGED <<aPoint, limits, enable, Plugin, waiting, givenUp>>
       \/ /\ ok /\ Limits(c) /\ Plugin = "none"
          /\ \E loaded \in Outcomes : Load(c, << >>, {}, loaded) /\ Fails(loaded)
          /\ UNCHANGED <<Plugin, waiting, givenUp>>
       \/ /\ ok /\ Limits(c) /\ Plugin # "none"
          /\ clearRect /\ boxes' = {}
          /\ AskStop(c)
          /\ UNCHANGED <<enable, failed>>

ClickChannel(c) ==
  /\ c \in shown /\ Acts
  /\ getParamCap(c)
  /\ UNCHANGED <<deviceVars, played, initTimer, allowDraw, szStatus, m_iIndexChoosePoint>>

(* 500 ms after the stream was closed, getParam goes on: a new player for   *)
(* the channel selected now, and the configuration of its own channel.      *)
Resume ==
  /\ Plugin = "closed"
  /\ initLiveView /\ waiting' = NoChannel
  /\ \E ok \in Outcomes : Load(waiting, aPoint, boxes, ok) /\ Fails(ok)
  /\ UNCHANGED <<deviceVars, currentChannel, initTimer, clicks, givenUp, allowDraw,
                 szStatus, m_iIndexChoosePoint, limits>>

(* setParam. Without the list of outputs, no output is ever checked.        *)
setParam ==
  /\ Acts /\ MaySave
  /\ \E ok \in Outcomes :
       /\ config' = IF ok THEN [config EXCEPT ![currentChannel] =
                      [enabled |-> enable, region |-> aPoint, linkages |-> boxes,
                       outputs |-> IF hasOutputs THEN boxes ELSE {}]] ELSE config
       /\ Fails(ok)
  /\ UNCHANGED <<shown, list, hasOutputs, formVars, playerVars, givenUp, canvasVars>>

-----------------------------------------------------------------------------
(* The start of the page, and the parts that share it.                      *)

(* 500 ms after the page is ready.                                          *)
StartLiveView ==
  /\ initTimer /\ initTimer' = FALSE
  /\ initLiveView
  /\ UNCHANGED <<deviceVars, formVars, waiting, clicks, histories, canvasVars>>

(* getDeviceChannelList: the channels that have capabilities get a button,  *)
(* and the first one is selected. When the list cannot be had, nothing      *)
(* more happens.                                                            *)
ListArrives ==
  /\ list = "asked" /\ list' = "over"
  /\ \E passed \in SUBSET Channels :
       /\ Faulty \/ passed = Channels
       /\ shown' = passed
       /\ \/ /\ passed = {} /\ failed' = TRUE
             /\ UNCHANGED <<aPoint, limits, formVars, Plugin, waiting, givenUp>>
          \/ \E c \in passed : (\A d \in passed : c <= d) /\ getParamCap(c)
  /\ UNCHANGED <<config, hasOutputs, played, initTimer, clicks, allowDraw, szStatus,
                 m_iIndexChoosePoint>>

EditsCanvas ==
  /\ \/ draw /\ Acts
     \/ Mouse /\ UNCHANGED clicks
  /\ UNCHANGED <<deviceVars, formVars, playerVars, histories>>

PageInit ==
  /\ CanvasInit
  /\ config = [c \in Channels \cup {NoChannel} |->
                 [enabled |-> c, linkages |-> {c}, outputs |-> {c},
                  region |-> [i \in 1 .. (IF c = NoChannel THEN 0 ELSE RegionSize[c]) |-> c]]]
  /\ shown = {} /\ list = "asked" /\ initTimer = TRUE
  /\ hasOutputs \in Outcomes /\ failed = ~ hasOutputs /\ givenUp = FALSE
  /\ currentChannel = NoChannel /\ enable = NoChannel /\ boxes = {}
  /\ Plugin = "none" /\ played = NoChannel /\ waiting = NoChannel
  /\ clicks = 0

Player == StreamOpens \/ SocketCloses \/ Resume
Startup == StartLiveView \/ ListArrives

PageNext ==
  \/ Startup \/ Player \/ StreamBreaks
  \/ setParam \/ \E c \in Channels : ClickChannel(c)
  \/ EditsCanvas

PageSpec == PageInit /\ [][PageNext]_allVars

(* Timers, sockets and answers come; nothing is assumed of the user.        *)
FairPageSpec ==
  /\ PageSpec
  /\ WF_allVars(Startup) /\ WF_allVars(Player)

-----------------------------------------------------------------------------
(* Properties.                                                              *)

(* What is stored for a channel is what was loaded from it or drawn by the  *)
(* user, as long as no request has failed and no switch was given up: a     *)
(* save never writes the form of another channel, or one not loaded yet.    *)
SavesOwnConfig ==
  failed \/ givenUp \/ \A c \in Channels :
    /\ config[c].enabled = c /\ config[c].linkages = {c} /\ config[c].outputs = {c}
    /\ \A i \in DOMAIN config[c].region : config[c].region[i] \in {c, User}

(* No shape has more points than the device takes, and a finished one has   *)
(* no fewer than it needs, across clears, loads in the middle of a drawing  *)
(* and channels whose limits differ, unless a request has failed or a       *)
(* switch was given up.                                                     *)
FinishedShapes ==
  failed \/ givenUp \/
  /\ Len(aPoint) <= iMaxPointNum
  /\ ~ allowDraw /\ aPoint # << >> => Len(aPoint) > iMinPointNum

IsLoaded(c) == enable = c /\ boxes = {c} /\ played = c

(* In the end the form and the picture are those of the selected channel,   *)
(* however the clicks fall between the steps of a switch: unless a request  *)
(* or a stream has failed, or a switch found no stream to stop.             *)
SelectedIsLoaded ==
  \A c \in Channels :
    currentChannel = c ~> (currentChannel # c \/ failed \/ givenUp \/ IsLoaded(c))

(* main.js:132: when the list is here, "the data of the first channel is    *)
(* fetched": nothing fails and the user waits, so it comes. (It does not    *)
(* when the list comes between the start of the player and its stream.)     *)
FirstIsLoaded ==
  \A c \in Channels :
    currentChannel = c ~> (currentChannel # c \/ failed \/ IsLoaded(c))

(* What the user saves is of the channel, and of shapes the device takes.   *)
FormIsSound == SavesOwnConfig /\ FinishedShapes

=============================================================================
