------------------------------ MODULE ViewProofs ------------------------------
(***************************************************************************)
(* Proofs about what the user sees of the pages.                           *)
(*                                                                         *)
(* The configuration page (ChannelPage with RectCanvas): what a user who   *)
(* waits saves is of the channel selected and a shape that the device      *)
(* takes, for any channels, limits and regions, and any number of clicks.  *)
(* The inductive invariant says whose the form is at each stage of a       *)
(* switch (SwitchIsRight) and how many points the shape may have while it  *)
(* is drawn, loaded and cleared (ShapeIsRight).                            *)
(*                                                                         *)
(* Fades: for any number of fades of an element, of any style, what was    *)
(* asked for is what is seen when they have ended. The invariant says what *)
(* the element's style and the data left on it are in the midst of a fade, *)
(* and that they give back its display and its opacity.                    *)
(*                                                                         *)
(* Effects: for any elements and any number of animations, delays, stops   *)
(* and finishes, called by the page or by complete handlers that jQuery    *)
(* has called, queues go on and every end is heard of once. The invariant  *)
(* is about the stack of calls under way: what each waits for, and that of *)
(* every queue that is not empty some item, or some call, takes the next.  *)
(*                                                                         *)
(* Selectors: how the page finds the elements to show, and the answers of  *)
(* the device. For any document, selectors and size of the cache, and any  *)
(* number of searches between which elements move, find gives what the     *)
(* selector means. A matcher keeps a contract: it leaves the slots of its  *)
(* search right, and pending only those it may find pending, which are of  *)
(* combinators further to the right; so a group without its last token,    *)
(* or with one more, keeps it too. The invariant says that no slot is of a *)
(* search to come, and that the last one found what it should.             *)
(***************************************************************************)
EXTENDS ChannelPage, Fades, Effects, Selectors, SequenceTheorems, WellFoundedInduction, TLAPS

(* Shapes are named by the channels their points are from, and the user.    *)
Points(c) == Seq({c, User})
Fits(shape, c) == shape = << >> \/ Len(shape) \in MinSize[c] .. MaxSize[c]

(* What the device has stored is each channel's own.                        *)
Stored ==
  [enabled : Channels \cup {NoChannel}, linkages : SUBSET (Channels \cup {NoChannel}),
   outputs : SUBSET (Channels \cup {NoChannel}),
   region : Seq(Channels \cup {NoChannel, User})]
Own(c, stored) ==
  /\ stored.enabled = c /\ stored.linkages = {c} /\ stored.outputs = {c}
  /\ stored.region \in Points(c) /\ Fits(stored.region, c)
DeviceIsRight ==
  /\ config \in [Channels \cup {NoChannel} -> Stored]
  /\ \A c \in Channels : Own(c, config[c])

(* The shape in the editor is of the selected channel, within its limits.   *)
ShapeIsRight ==
  /\ aPoint \in Points(currentChannel)
  /\ iMaxPointNum \in Nat /\ iMinPointNum \in Nat /\ iMinPointNum < iMaxPointNum
  /\ Len(aPoint) <= iMaxPointNum
  /\ ~ allowDraw /\ aPoint # << >> => Len(aPoint) > iMinPointNum

(* Where a switch is: no channel before the list is here; then the form is  *)
(* the selected channel's, or its switch waits for the stream to stop.      *)
Switching == Plugin \in {"closing", "closed"}
SwitchIsRight ==
  \/ list = "asked" /\ shown = {} /\ currentChannel = NoChannel /\ ~ Switching
  \/ /\ list = "over" /\ shown \subseteq Channels /\ currentChannel \in Channels
     /\ iMaxPointNum = MaxSize[currentChannel] /\ iMinPointNum = MinSize[currentChannel] - 1
     /\ IF Switching THEN waiting = currentChannel /\ boxes = {}
        ELSE enable = currentChannel /\ boxes = {currentChannel}

FormInv ==
  failed \/ givenUp \/
  /\ hasOutputs /\ Plugin # "lost" /\ (initTimer => Plugin = "none")
  /\ DeviceIsRight /\ ShapeIsRight /\ SwitchIsRight

-----------------------------------------------------------------------------
(* Lemmas about shapes.                                                     *)

LEMMA EmptyShape == \A c : << >> \in Points(c) /\ Len(<< >>) = 0
BY DEF Points

LEMMA PointAdded ==
  ASSUME ShapeIsRight, addPoint(User)
  PROVE  /\ aPoint' \in Points(currentChannel) /\ Len(aPoint') <= iMaxPointNum
         /\ Len(aPoint) >= iMinPointNum => Len(aPoint') > iMinPointNum
<1>1. /\ aPoint \in Seq({currentChannel, User}) /\ Len(aPoint) \in Nat
      /\ iMaxPointNum \in Nat /\ iMinPointNum \in Nat /\ iMinPointNum < iMaxPointNum
      /\ Len(aPoint) <= iMaxPointNum
  BY LenProperties DEF ShapeIsRight, Points
<1>2. CASE Len(aPoint) < iMaxPointNum
  <2>1. aPoint' = Append(aPoint, User)
    BY <1>2 DEF addPoint
  <2>2. aPoint' \in Seq({currentChannel, User}) /\ Len(aPoint') = Len(aPoint) + 1
    BY <1>1, <2>1, AppendProperties
  <2> QED
    BY <1>1, <1>2, <2>2 DEF Points
<1>3. CASE ~ Len(aPoint) < iMaxPointNum
  <2>1. aPoint' = aPoint
    BY <1>3 DEF addPoint
  <2> QED
    BY <1>1, <1>3, <2>1 DEF Points
<1> QED
  BY <1>2, <1>3

LEMMA MouseKeepsShape ==
  ASSUME ShapeIsRight, draw \/ Mouse, currentChannel' = currentChannel PROVE ShapeIsRight'
<1>1. iMaxPointNum' = iMaxPointNum /\ iMinPointNum' = iMinPointNum
  BY DEF draw, Mouse, DrawPoint, ChoosePoint, ChooseShape, ChooseNothing, CloseShape, stretch,
         drag, Release, limits
<1>2. /\ aPoint \in Seq({currentChannel, User}) /\ Len(aPoint) \in Nat
      /\ iMaxPointNum \in Nat /\ iMinPointNum \in Nat /\ iMinPointNum < iMaxPointNum
      /\ Len(aPoint) <= iMaxPointNum /\ DOMAIN aPoint = 1 .. Len(aPoint)
  BY LenProperties DEF ShapeIsRight, Points
<1>3. CASE draw
  <2>1. aPoint' = << >>
    BY <1>3 DEF draw, clearRect
  <2> QED
    BY <1>1, <1>2, <2>1, EmptyShape DEF ShapeIsRight
<1>4. CASE DrawPoint
  <2>1. addPoint(User) /\ allowDraw' = (Len(aPoint') # iMaxPointNum)
    BY <1>4 DEF DrawPoint
  <2>2. aPoint' \in Points(currentChannel) /\ Len(aPoint') <= iMaxPointNum
    BY <2>1, PointAdded
  <2> QED
    BY <1>1, <1>2, <2>1, <2>2 DEF ShapeIsRight
<1>5. CASE CloseShape
  <2>1. addPoint(User) /\ Len(aPoint) >= iMinPointNum
    BY <1>5 DEF CloseShape
  <2>2. /\ aPoint' \in Points(currentChannel) /\ Len(aPoint') <= iMaxPointNum
        /\ Len(aPoint') > iMinPointNum
    BY <2>1, PointAdded
  <2> QED
    BY <1>1, <1>2, <2>2 DEF ShapeIsRight
<1>6. CASE stretch \/ drag
  <2>1. /\ allowDraw' = allowDraw
        /\ \/ aPoint' = [aPoint EXCEPT ![m_iIndexChoosePoint] = User]
           \/ aPoint' = [i \in DOMAIN aPoint |-> User]
    BY <1>6 DEF stretch, drag
  <2>2. aPoint' \in [1 .. Len(aPoint) -> {currentChannel, User}]
    <3>1. aPoint \in [1 .. Len(aPoint) -> {currentChannel, User}]
      BY <1>2, LenProperties
    <3> QED
      BY <1>2, <2>1, <3>1
  <2>3. aPoint' \in Seq({currentChannel, User})
    BY <1>2, <2>2, SeqDef
  <2>4. Len(aPoint') = Len(aPoint)
    <3>1. DOMAIN aPoint' = 1 .. Len(aPoint)
      BY <2>2
    <3> QED
      BY <1>2, <2>3, <3>1, LenProperties
  <2>5. aPoint' # << >> => aPoint # << >>
    BY <1>2, <2>3, <2>4, EmptySeq
  <2> QED
    BY <1>1, <1>2, <2>1, <2>3, <2>4, <2>5 DEF ShapeIsRight, Points
<1>7. CASE ChoosePoint \/ ChooseShape \/ ChooseNothing \/ Release
  <2>1. aPoint' = aPoint /\ allowDraw' = allowDraw
    BY <1>7 DEF ChoosePoint, ChooseShape, ChooseNothing, Release
  <2> QED
    BY <1>1, <2>1 DEF ShapeIsRight
<1> QED
  BY <1>3, <1>4, <1>5, <1>6, <1>7 DEF Mouse

(* A region that was loaded takes the place of the shape, if there is one.  *)
LEMMA ShapeLoaded ==
  ASSUME NEW c \in Channels, NEW shape \in Points(c), NEW stored, Own(c, stored)
  PROVE  /\ setPolygonPoints(shape, stored.region) \in Points(c)
         /\ \/ setPolygonPoints(shape, stored.region) = shape
            \/ Len(setPolygonPoints(shape, stored.region)) \in MinSize[c] .. MaxSize[c]
BY DEF setPolygonPoints, Own, Fits

LEMMA ShapeChosen ==
  ASSUME NEW c \in Channels, Limits(c), currentChannel' = c, aPoint' \in Points(c),
         Fits(aPoint', c)
  PROVE  ShapeIsRight'
<1>1. /\ MinSize[c] \in Nat /\ MaxSize[c] \in Nat /\ 1 < MinSize[c]
      /\ MinSize[c] <= MaxSize[c]
  BY PageAssumption
<1>2. /\ iMaxPointNum' = MaxSize[c] /\ iMinPointNum' = MinSize[c] - 1
      /\ iMinPointNum' \in Nat /\ iMinPointNum' < iMaxPointNum'
  BY <1>1 DEF Limits
<1>3. CASE aPoint' = << >>
  BY <1>1, <1>2, <1>3, EmptyShape DEF ShapeIsRight
<1>4. CASE Len(aPoint') \in MinSize[c] .. MaxSize[c]
  BY <1>1, <1>2, <1>4 DEF ShapeIsRight
<1> QED
  BY <1>3, <1>4 DEF Fits

-----------------------------------------------------------------------------
(* The handlers of the page, as long as nothing failed or was given up.     *)

Fine == ~ failed /\ ~ givenUp
PageIsRight ==
  /\ hasOutputs /\ Plugin # "lost" /\ (initTimer => Plugin = "none")
  /\ DeviceIsRight /\ ShapeIsRight /\ SwitchIsRight

LEMMA ChannelSelected ==
  ASSUME DeviceIsRight, Fine', NEW c \in Channels, getParamCap(c), Plugin # "closed"
  PROVE  /\ ShapeIsRight' /\ currentChannel' = c /\ Limits(c)
         /\ \/ Plugin = "none" /\ Plugin' = "none" /\ enable' = c /\ boxes' = {c}
            \/ Plugin' = "closing" /\ Plugin # "none" /\ waiting' = c /\ boxes' = {}
<1>1. currentChannel' = c /\ ~ failed' /\ ~ givenUp'
  BY DEF getParamCap, Fine
<1>2. /\ Limits(c)
      /\ \/ /\ Plugin = "none" /\ Plugin' = Plugin
            /\ \E loaded \in Outcomes : Load(c, << >>, {}, loaded) /\ Fails(loaded)
         \/ Plugin # "none" /\ clearRect /\ boxes' = {} /\ AskStop(c)
  BY <1>1 DEF getParamCap, Fails
<1>3. CASE /\ Plugin = "none" /\ Plugin' = Plugin
           /\ \E loaded \in Outcomes : Load(c, << >>, {}, loaded) /\ Fails(loaded)
  <2>1. enable' = c /\ boxes' = {c} /\ aPoint' = setPolygonPoints(<< >>, config[c].region)
    BY <1>1, <1>3 DEF Load, Fails
  <2>2. Own(c, config[c])
    BY DEF DeviceIsRight
  <2>3. aPoint' \in Points(c) /\ Fits(aPoint', c)
    BY <2>1, <2>2, EmptyShape, ShapeLoaded DEF Fits
  <2>4. ShapeIsRight'
    BY <1>1, <1>2, <2>3, ShapeChosen
  <2> QED
    BY <1>1, <1>2, <1>3, <2>1, <2>4
<1>4. CASE Plugin # "none" /\ clearRect /\ boxes' = {} /\ AskStop(c)
  <2>1. Plugin' = "closing" /\ waiting' = c
    BY <1>1, <1>4 DEF AskStop
  <2>2. aPoint' \in Points(c) /\ Fits(aPoint', c)
    BY <1>4, EmptyShape DEF clearRect, Fits
  <2>3. ShapeIsRight'
    BY <1>1, <1>2, <2>2, ShapeChosen
  <2> QED
    BY <1>1, <1>2, <1>4, <2>1, <2>3
<1> QED
  BY <1>2, <1>3, <1>4

LEMMA ClickKeeps ==
  ASSUME PageIsRight, Fine', NEW c \in Channels, ClickChannel(c) PROVE PageIsRight'
<1>1. /\ config' = config /\ shown' = shown /\ list' = list /\ hasOutputs' = hasOutputs
      /\ initTimer' = initTimer /\ c \in shown /\ getParamCap(c)
  BY DEF ClickChannel, deviceVars
<1>2. list = "over" /\ shown \subseteq Channels
  BY <1>1 DEF PageIsRight, SwitchIsRight
<1>3. /\ ShapeIsRight' /\ currentChannel' = c /\ Limits(c)
      /\ \/ Plugin = "none" /\ Plugin' = "none" /\ enable' = c /\ boxes' = {c}
         \/ Plugin' = "closing" /\ Plugin # "none" /\ waiting' = c /\ boxes' = {}
  <2>1. Plugin # "closed"
    BY <1>1 DEF getParamCap, AskStop, MayStop, Fails, Fine
  <2> QED
    BY <1>1, <2>1, ChannelSelected DEF PageIsRight
<1>4. DeviceIsRight'
  BY <1>1 DEF PageIsRight, DeviceIsRight
<1>5. SwitchIsRight'
  BY <1>1, <1>2, <1>3 DEF SwitchIsRight, Switching, Limits
<1> QED
  BY <1>1, <1>3, <1>4, <1>5 DEF PageIsRight

LEMMA ListKeeps == ASSUME PageIsRight, Fine', ListArrives PROVE PageIsRight'
<1>1. /\ config' = config /\ hasOutputs' = hasOutputs /\ initTimer' = initTimer
      /\ list = "asked" /\ list' = "over" /\ shown' \subseteq Channels
      /\ \E c \in Channels : getParamCap(c)
  BY DEF ListArrives, Fine
<1>2. PICK c \in Channels : getParamCap(c)
  BY <1>1
<1>3. Plugin # "closed"
  BY <1>1 DEF PageIsRight, SwitchIsRight, Switching
<1>4. /\ ShapeIsRight' /\ currentChannel' = c /\ Limits(c)
      /\ \/ Plugin = "none" /\ Plugin' = "none" /\ enable' = c /\ boxes' = {c}
         \/ Plugin' = "closing" /\ Plugin # "none" /\ waiting' = c /\ boxes' = {}
  BY <1>2, <1>3, ChannelSelected DEF PageIsRight
<1>5. DeviceIsRight'
  BY <1>1 DEF PageIsRight, DeviceIsRight
<1>6. SwitchIsRight'
  BY <1>1, <1>4 DEF SwitchIsRight, Switching, Limits
<1> QED
  BY <1>1, <1>4, <1>5, <1>6 DEF PageIsRight

LEMMA ResumeKeeps == ASSUME PageIsRight, Fine', Resume PROVE PageIsRight'
<1>1. /\ config' = config /\ hasOutputs' = hasOutputs /\ initTimer' = initTimer
      /\ shown' = shown /\ list' = list /\ currentChannel' = currentChannel
      /\ allowDraw' = allowDraw /\ iMaxPointNum' = iMaxPointNum /\ iMinPointNum' = iMinPointNum
      /\ Plugin = "closed" /\ Plugin' = "opening"
  BY DEF Resume, deviceVars, initLiveView, limits
<1>2. Load(waiting, aPoint, boxes, TRUE)
  BY DEF Resume, Fails, Fine
<1>3. /\ list = "over" /\ shown \subseteq Channels /\ currentChannel \in Channels
      /\ iMaxPointNum = MaxSize[currentChannel] /\ iMinPointNum = MinSize[currentChannel] - 1
      /\ waiting = currentChannel /\ boxes = {}
  BY <1>1 DEF PageIsRight, SwitchIsRight, Switching
<1> DEFINE c == currentChannel
<1>4. /\ enable' = c /\ boxes' = {c}
      /\ aPoint' = setPolygonPoints(aPoint, config[c].region)
  BY <1>2, <1>3 DEF Load
<1>5. /\ aPoint' \in Points(c)
      /\ aPoint' = aPoint \/ Len(aPoint') \in MinSize[c] .. MaxSize[c]
  <2>1. aPoint \in Points(c) /\ Own(c, config[c])
    BY <1>3 DEF PageIsRight, ShapeIsRight, DeviceIsRight
  <2> QED
    BY <1>3, <1>4, <2>1, ShapeLoaded
<1>6. ShapeIsRight'
  <2>1. CASE aPoint' = aPoint
    BY <1>1, <2>1 DEF PageIsRight, ShapeIsRight
  <2>2. CASE Len(aPoint') \in MinSize[c] .. MaxSize[c]
    <3>1. Limits(c) /\ Fits(aPoint', c)
      BY <1>1, <1>3, <2>2 DEF Limits, Fits
    <3> QED
      BY <1>1, <1>3, <1>5, <3>1, ShapeChosen
  <2> QED
    BY <1>5, <2>1, <2>2
<1>7. DeviceIsRight'
  BY <1>1 DEF PageIsRight, DeviceIsRight
<1>8. SwitchIsRight'
  BY <1>1, <1>3, <1>4 DEF SwitchIsRight, Switching
<1> QED
  BY <1>1, <1>6, <1>7, <1>8 DEF PageIsRight

(* A user who waits saves the form of the selected channel, loaded and      *)
(* finished.                                                                *)
LEMMA SaveKeeps == ASSUME Patient, PageIsRight, Fine', setParam PROVE PageIsRight'
<1>1. /\ shown' = shown /\ list' = list /\ hasOutputs' = hasOutputs
      /\ currentChannel' = currentChannel /\ enable' = enable /\ boxes' = boxes
      /\ Plugin' = Plugin /\ waiting' = waiting /\ initTimer' = initTimer
      /\ aPoint' = aPoint /\ allowDraw' = allowDraw
      /\ iMaxPointNum' = iMaxPointNum /\ iMinPointNum' = iMinPointNum
      /\ ~ Busy /\ ~ allowDraw
  BY DEF setParam, MaySave, formVars, playerVars, canvasVars
<1> DEFINE c == currentChannel
           form == [enabled |-> enable, region |-> aPoint, linkages |-> boxes,
                    outputs |-> IF hasOutputs THEN boxes ELSE {}]
<1>2. config' = [config EXCEPT ![c] = form]
  BY DEF setParam, Fails, Fine
<1>3. /\ list = "over" /\ c \in Channels /\ enable = c /\ boxes = {c}
      /\ iMaxPointNum = MaxSize[c] /\ iMinPointNum = MinSize[c] - 1
  BY <1>1 DEF PageIsRight, SwitchIsRight, Switching, Busy
<1>4. form.region \in Points(c) /\ Fits(form.region, c)
  <2>1. /\ aPoint \in Points(c) /\ Len(aPoint) <= iMaxPointNum
        /\ aPoint # << >> => Len(aPoint) > iMinPointNum
    BY <1>1 DEF PageIsRight, ShapeIsRight
  <2>2. MinSize[c] \in Nat /\ MaxSize[c] \in Nat
    BY <1>3, PageAssumption
  <2>3. Len(aPoint) \in Nat
    BY <2>1, LenProperties DEF Points
  <2> QED
    BY <1>3, <2>1, <2>2, <2>3 DEF Fits
<1>5. Own(c, form)
  BY <1>3, <1>4 DEF PageIsRight, Own
<1>6. form \in Stored
  <2>1. form.region \in Seq({c, User})
    BY <1>4 DEF Points
  <2>2. form.region \in Seq(Channels \cup {NoChannel, User})
    BY <1>3, <2>1
  <2> QED
    BY <1>3, <2>2 DEF PageIsRight, Stored
<1> HIDE DEF form
<1>7. DeviceIsRight'
  BY <1>2, <1>3, <1>5, <1>6 DEF PageIsRight, DeviceIsRight
<1>8. ShapeIsRight' /\ SwitchIsRight'
  BY <1>1 DEF PageIsRight, ShapeIsRight, SwitchIsRight, Switching
<1> QED
  BY <1>1, <1>7, <1>8 DEF PageIsRight

(* The player's own steps, and those that leave the form alone.             *)
LEMMA PlayerKeeps ==
  ASSUME PageIsRight, Fine', StreamOpens \/ SocketCloses \/ StreamBreaks \/ StartLiveView
  PROVE  PageIsRight'
<1>1. /\ config' = config /\ shown' = shown /\ list' = list /\ hasOutputs' = hasOutputs
      /\ currentChannel' = currentChannel /\ enable' = enable /\ boxes' = boxes
      /\ waiting' = waiting /\ aPoint' = aPoint /\ allowDraw' = allowDraw
      /\ iMaxPointNum' = iMaxPointNum /\ iMinPointNum' = iMinPointNum
  BY DEF StreamOpens, SocketCloses, StreamBreaks, StartLiveView, deviceVars, formVars,
         canvasVars
<1>2. PICK from \in {"none", "open", "opening", "closing"} :
        \/ from = "opening" /\ Plugin = from /\ Plugin' \in {"open", "lost"}
             /\ (Plugin' = "lost" => failed') /\ initTimer' = initTimer
        \/ from = "closing" /\ Plugin = from /\ Plugin' = "closed" /\ initTimer' = initTimer
        \/ from = "open" /\ Plugin = from /\ failed'
        \/ from = "none" /\ initTimer /\ ~ initTimer' /\ Plugin' = "opening"
  <2>1. CASE StreamOpens
    BY <2>1 DEF StreamOpens, Fails
  <2>2. CASE SocketCloses
    BY <2>2 DEF SocketCloses
  <2>3. CASE StreamBreaks
    BY <2>3 DEF StreamBreaks
  <2>4. CASE StartLiveView
    BY <2>4 DEF StartLiveView, initLiveView
  <2> QED
    BY <2>1, <2>2, <2>3, <2>4
<1>3. /\ Plugin' # "lost" /\ (initTimer' => Plugin' = "none")
      /\ Switching' <=> Switching
  BY <1>2 DEF PageIsRight, Switching, Fine
<1> QED
  BY <1>1, <1>3 DEF PageIsRight, DeviceIsRight, ShapeIsRight, SwitchIsRight

LEMMA EditsKeep == ASSUME PageIsRight, EditsCanvas PROVE PageIsRight'
<1>1. /\ config' = config /\ shown' = shown /\ list' = list /\ hasOutputs' = hasOutputs
      /\ currentChannel' = currentChannel /\ enable' = enable /\ boxes' = boxes
      /\ waiting' = waiting /\ Plugin' = Plugin /\ initTimer' = initTimer
      /\ draw \/ Mouse
  BY DEF EditsCanvas, deviceVars, formVars, playerVars
<1>2. ShapeIsRight'
  BY <1>1, MouseKeepsShape DEF PageIsRight
<1>3. iMaxPointNum' = iMaxPointNum /\ iMinPointNum' = iMinPointNum
  BY <1>1 DEF draw, Mouse, DrawPoint, ChoosePoint, ChooseShape, ChooseNothing, CloseShape,
              stretch, drag, Release, limits
<1> QED
  BY <1>1, <1>2, <1>3 DEF PageIsRight, DeviceIsRight, SwitchIsRight, Switching

-----------------------------------------------------------------------------
(* What has failed or was given up stays so.                                *)
LEMMA SelectionGrows == ASSUME NEW c, getParamCap(c), Fine' PROVE Fine
<1>1. CASE Fails(FALSE)
  BY <1>1 DEF Fails, Fine
<1>2. CASE (\E loaded \in Outcomes : Fails(loaded)) /\ givenUp' = givenUp
  BY <1>2 DEF Fails, Fine
<1>3. CASE failed' = failed /\ AskStop(c)
  BY <1>3 DEF AskStop, Fine
<1> QED
  BY <1>1, <1>2, <1>3 DEF getParamCap

LEMMA HistoriesGrow == ASSUME PageNext, Fine' PROVE Fine
<1>1. CASE StartLiveView \/ EditsCanvas
  BY <1>1 DEF StartLiveView, EditsCanvas, histories, Fine
<1>2. CASE ListArrives
  <2>1. CASE failed' = TRUE
    BY <2>1 DEF Fine
  <2>2. CASE \E c \in Channels : getParamCap(c)
    BY <2>2, SelectionGrows
  <2> QED
    BY <1>2, <2>1, <2>2 DEF ListArrives
<1>3. CASE Resume \/ StreamOpens \/ SocketCloses
  <2>1. givenUp' = givenUp /\ (failed' = failed \/ \E ok \in Outcomes : Fails(ok))
    <3>1. CASE Resume
      BY <3>1 DEF Resume
    <3>2. CASE StreamOpens \/ SocketCloses
      BY <3>2 DEF StreamOpens, SocketCloses, histories
    <3> QED
      BY <1>3, <3>1, <3>2
  <2>2. ASSUME NEW ok \in Outcomes, Fails(ok) PROVE ~ failed
    BY <2>2 DEF Fails, Fine
  <2>3. failed' = failed => ~ failed
    BY DEF Fine
  <2>4. ~ givenUp
    BY <2>1 DEF Fine
  <2> QED
    BY <2>1, <2>2, <2>3, <2>4 DEF Fine
<1>4. CASE StreamBreaks
  BY <1>4 DEF StreamBreaks, Fine
<1>5. CASE setParam
  BY <1>5 DEF setParam, Fails, Fine
<1>6. CASE \E c \in Channels : ClickChannel(c)
  BY <1>6, SelectionGrows DEF ClickChannel
<1> QED
  BY <1>1, <1>2, <1>3, <1>4, <1>5, <1>6 DEF PageNext, Startup, Player

LEMMA FormInvInit == PageInit => FormInv
<1> SUFFICES ASSUME PageInit, ~ failed PROVE FormInv
  BY DEF FormInv
<1>1. hasOutputs /\ Plugin = "none" /\ SwitchIsRight
  BY DEF PageInit, SwitchIsRight, Switching, Outcomes
<1>2. ShapeIsRight
  <2>1. /\ DefaultMax \in Nat /\ DefaultMin \in Nat /\ DefaultMin < DefaultMax
    BY CanvasAssumption
  <2> QED
    BY <2>1, EmptyShape DEF PageInit, CanvasInit, ShapeIsRight
<1> DEFINE Region(c) == [i \in 1 .. (IF c = NoChannel THEN 0 ELSE RegionSize[c]) |-> c]
<1>3. \A c \in Channels \cup {NoChannel} :
        /\ Region(c) \in Points(c) /\ Region(c) \in Seq(Channels \cup {NoChannel, User})
        /\ Len(Region(c)) = (IF c = NoChannel THEN 0 ELSE RegionSize[c])
  <2>1. TAKE c \in Channels \cup {NoChannel}
  <2> DEFINE n == IF c = NoChannel THEN 0 ELSE RegionSize[c]
  <2>2. n \in Nat
    BY PageAssumption
  <2> HIDE DEF n
  <2>3. [i \in 1 .. n |-> c] \in Seq({c, User})
    <3>1. [i \in 1 .. n |-> c] \in [1 .. n -> {c, User}]
      OBVIOUS
    <3> QED
      BY <2>2, <3>1, SeqDef
  <2>4. Len([i \in 1 .. n |-> c]) = n
    BY <2>2, <2>3, LenProperties
  <2>5. [i \in 1 .. n |-> c] \in Seq(Channels \cup {NoChannel, User})
    BY <2>3
  <2> QED
    BY <2>3, <2>4, <2>5 DEF n, Points
<1> HIDE DEF Region
<1>4. config = [c \in Channels \cup {NoChannel} |->
                  [enabled |-> c, linkages |-> {c}, outputs |-> {c}, region |-> Region(c)]]
  BY DEF PageInit, Region
<1>5. config \in [Channels \cup {NoChannel} -> Stored]
  BY <1>3, <1>4 DEF Stored
<1>6. ASSUME NEW c \in Channels PROVE Own(c, config[c])
  <2>1. c # NoChannel /\ RegionSize[c] \in {0} \cup (MinSize[c] .. MaxSize[c])
    BY PageAssumption DEF NoChannel
  <2>2. Fits(Region(c), c)
    BY <1>3, <2>1, EmptySeq DEF Fits, Points
  <2> QED
    BY <1>3, <1>4, <2>2 DEF Own
<1> QED
  BY <1>1, <1>2, <1>5, <1>6 DEF FormInv, DeviceIsRight

LEMMA FormInvStep == ASSUME Patient, FormInv, [PageNext]_allVars PROVE FormInv'
<1> SUFFICES ASSUME Fine' PROVE PageIsRight'
  BY DEF FormInv, PageIsRight, Fine
<1>1. CASE UNCHANGED allVars
  <2>1. /\ config' = config /\ shown' = shown /\ list' = list /\ hasOutputs' = hasOutputs
        /\ currentChannel' = currentChannel /\ enable' = enable /\ boxes' = boxes
        /\ waiting' = waiting /\ Plugin' = Plugin /\ initTimer' = initTimer
        /\ aPoint' = aPoint /\ allowDraw' = allowDraw
        /\ iMaxPointNum' = iMaxPointNum /\ iMinPointNum' = iMinPointNum
        /\ failed' = failed /\ givenUp' = givenUp
    BY <1>1 DEF allVars, pageVars, deviceVars, formVars, playerVars, canvasVars, histories
  <2>2. PageIsRight
    BY <2>1 DEF FormInv, PageIsRight, Fine
  <2> QED
    BY <2>1, <2>2 DEF PageIsRight, DeviceIsRight, ShapeIsRight, SwitchIsRight, Switching
<1>2. CASE PageNext
  <2>1. PageIsRight
    BY <1>2, HistoriesGrow DEF FormInv, PageIsRight, Fine
  <2>2. CASE Startup
    BY <2>1, <2>2, PlayerKeeps, ListKeeps DEF Startup
  <2>3. CASE Player
    BY <2>1, <2>3, PlayerKeeps, ResumeKeeps DEF Player
  <2>4. CASE StreamBreaks
    BY <2>1, <2>4, PlayerKeeps
  <2>5. CASE setParam
    BY <2>1, <2>5, SaveKeeps
  <2>6. CASE \E c \in Channels : ClickChannel(c)
    BY <2>1, <2>6, ClickKeeps
  <2>7. CASE EditsCanvas
    BY <2>1, <2>7, EditsKeep
  <2> QED
    BY <1>2, <2>2, <2>3, <2>4, <2>5, <2>6, <2>7 DEF PageNext
<1> QED
  BY <1>1, <1>2

LEMMA FormInvIsSound == FormInv => FormIsSound
<1> SUFFICES ASSUME Fine, PageIsRight PROVE FormIsSound
  BY DEF FormInv, PageIsRight, Fine, FormIsSound, SavesOwnConfig, FinishedShapes
<1>1. FinishedShapes
  BY DEF PageIsRight, ShapeIsRight, FinishedShapes
<1>2. ASSUME NEW c \in Channels, NEW i \in DOMAIN config[c].region
      PROVE  config[c].region[i] \in {c, User}
  <2>1. config[c].region \in Seq({c, User})
    BY DEF PageIsRight, DeviceIsRight, Own, Points
  <2> QED
    BY <2>1, LenProperties, ElementOfSeq
<1>3. SavesOwnConfig
  BY <1>2 DEF PageIsRight, DeviceIsRight, Own, SavesOwnConfig
<1> QED
  BY <1>1, <1>3 DEF FormIsSound

(* What a user who waits saves is of the channel selected, and of a shape   *)
(* the device takes, for any channels, limits and regions, however clicks,  *)
(* drawings, the list of channels and the steps of a switch fall together:  *)
(* as long as no request has failed and no switch was given up.             *)
THEOREM FormIsSoundHolds == ASSUME Patient PROVE PageSpec => []FormIsSound
<1>1. FormInv /\ [PageNext]_allVars => FormInv'
  BY FormInvStep
<1> QED
  BY <1>1, FormInvInit, FormInvIsSound, PTL DEF PageSpec

-----------------------------------------------------------------------------
(* Fades.                                                                  *)

FadeKinds == {"show", "hide", "toggle"}
Opacities == {Zero, Between, Whole}
Aims == {"any", "shown", "hidden"}
StyledElements ==
  [style : {NoDisplay, "none", "block", "flex"}, olddisplay : {NoDisplay, "block", "flex"},
   opacity : Opacities,
   dataShow : [opacity : {NoOpacity, Whole}, hidden : {"unknown", "yes", "no"}]]
Fadings ==
  [kind : FadeKinds, start : Opacities, end : {Zero, Whole}, hides : BOOLEAN, orig : {Whole}]
Verdicts == [aim : Aims, ended : [aim : Aims, is : Aims, opacity : {Whole}]]

(* The display of the element when it is shown can be found again.          *)
OwnIsKnown(e) ==
  IF own = "flex" THEN e.style = "flex" \/ (e.style = "none" /\ e.olddisplay = "flex")
  ELSE own = "block" /\ "flex" \notin {e.style, e.olddisplay}

(* The opacity is whole unless data are left that say so, and the direction *)
(* left of a toggle is the one it had.                                      *)
LeftBehind(s) ==
  /\ s.element.dataShow.opacity = NoOpacity => s.element.opacity = Whole /\ s.element.dataShow = NoShow
  /\ s.element.dataShow.hidden = "no" => s.verdict.aim # "hidden"
  /\ s.element.dataShow.hidden = "yes" => s.verdict.aim # "shown"

(* Between two fades.                                                       *)
BetweenFades(s) ==
  /\ s \in [element : StyledElements, fade : Fadings \cup {NoFade}, waiting : Seq(FadeKinds),
            verdict : Verdicts]
  /\ OwnIsKnown(s.element) /\ LeftBehind(s)
  /\ s.verdict.ended.aim \in {"any", s.verdict.ended.is}

(* A fade has its data, and does what it is for.                            *)
OnItsWay(s) ==
  s.fade # NoFade =>
    /\ s.element.dataShow.opacity = Whole
    /\ s.verdict.aim = "shown" => ~ s.fade.hides /\ ~ isHidden(s.element)
    /\ s.verdict.aim = "hidden" => s.fade.hides

FadesInv ==
  /\ sheet \in {"none", "block"} /\ own \in {"block", "flex"} /\ asked \in Nat
  /\ BetweenFades(Now) /\ OnItsWay(Now)

(* Showing and hiding.                                                      *)
LEMMA ShowHideDoes ==
  ASSUME NEW e \in StyledElements, OwnIsKnown(e), NEW way \in BOOLEAN, sheet \in {"none", "block"}
  PROVE  /\ showHide(e, way) \in StyledElements
         /\ showHide(e, way).opacity = e.opacity /\ showHide(e, way).dataShow = e.dataShow
         /\ OwnIsKnown(showHide(e, way)) /\ isHidden(showHide(e, way)) = ~ way
<1> DEFINE clear == IF e.olddisplay = NoDisplay /\ e.style = "none"
                    THEN [e EXCEPT !.style = NoDisplay] ELSE e
           known == IF clear.style = NoDisplay /\ isHidden(clear)
                    THEN [clear EXCEPT !.olddisplay = defaultDisplay] ELSE clear
           kept == IF ~ isHidden(e) THEN [e EXCEPT !.olddisplay = Display(e)] ELSE e
<1>1. CASE way
  <2>1. showHide(e, way) = IF known.style \in {"none", NoDisplay}
                           THEN [known EXCEPT !.style = known.olddisplay] ELSE known
    BY <1>1 DEF showHide
  <2>2. /\ clear \in StyledElements /\ clear.opacity = e.opacity /\ clear.dataShow = e.dataShow
        /\ OwnIsKnown(clear) /\ (clear.style = "none" => clear.olddisplay # NoDisplay)
    BY DEF StyledElements, OwnIsKnown, NoDisplay
  <2>3. /\ known \in StyledElements /\ known.opacity = e.opacity /\ known.dataShow = e.dataShow
        /\ OwnIsKnown(known)
        /\ known.style = "none" => known.olddisplay # NoDisplay
        /\ known.style = NoDisplay => (known.olddisplay # NoDisplay \/ sheet = "block")
    <3> HIDE DEF clear
    <3> QED
      BY <2>2 DEF StyledElements, OwnIsKnown, NoDisplay, defaultDisplay, isHidden, Display
  <2> HIDE DEF known
  <2> QED
    BY <1>1, <2>1, <2>3 DEF StyledElements, OwnIsKnown, NoDisplay, isHidden, Display
<1>2. CASE ~ way
  <2>1. showHide(e, way) = [kept EXCEPT !.style = "none"]
    BY <1>2 DEF showHide
  <2>2. /\ kept \in StyledElements /\ kept.opacity = e.opacity /\ kept.dataShow = e.dataShow
        /\ own = "flex" => kept.olddisplay = "flex"
        /\ OwnIsKnown(kept)
    BY DEF StyledElements, OwnIsKnown, NoDisplay, isHidden, Display
  <2> HIDE DEF kept
  <2> QED
    BY <1>2, <2>1, <2>2 DEF StyledElements, OwnIsKnown, NoDisplay, isHidden, Display
<1> QED
  BY <1>1, <1>2

(* What a fade starts with.                                                 *)
Started(s, kind) ==
  LET d == defaultPrefilter(s, kind)
  IN  [d EXCEPT !.element.opacity = d.fade.start, !.verdict.aim = Aim(s, kind)]

(* Two fields changed, one after the other.                                 *)
LEMMA FadeStarted ==
  ASSUME NEW x, NEW f, NEW w, NEW v, NEW o, NEW aim, NEW d,
         d = [element |-> x, fade |-> f, waiting |-> w, verdict |-> v]
  PROVE  [d EXCEPT !.element.opacity = o, !.verdict.aim = aim]
         = [element |-> [x EXCEPT !.opacity = o], fade |-> f, waiting |-> w,
            verdict |-> [v EXCEPT !.aim = aim]]
<1>1. [[element |-> x, fade |-> f, waiting |-> w, verdict |-> v] EXCEPT !.element.opacity = o]
      = [element |-> [x EXCEPT !.opacity = o], fade |-> f, waiting |-> w, verdict |-> v]
  OBVIOUS
<1>2. [[element |-> [x EXCEPT !.opacity = o], fade |-> f, waiting |-> w, verdict |-> v]
         EXCEPT !.verdict.aim = aim]
      = [element |-> [x EXCEPT !.opacity = o], fade |-> f, waiting |-> w,
         verdict |-> [v EXCEPT !.aim = aim]]
  OBVIOUS
<1>3. [d EXCEPT !.element.opacity = o, !.verdict.aim = aim]
      = [[d EXCEPT !.element.opacity = o] EXCEPT !.verdict.aim = aim]
  OBVIOUS
<1> QED
  BY <1>1, <1>2, <1>3, Zenon

(* A fade that begins: between the fades the state is as it was, and the    *)
(* fade is on its way.                                                      *)
LEMMA PrefilterDoes ==
  ASSUME NEW s, BetweenFades(s), NEW kind \in FadeKinds, ~ Noop(s.element, kind),
         sheet \in {"none", "block"}
  PROVE  BetweenFades(Started(s, kind)) /\ OnItsWay(Started(s, kind))
<1> DEFINE e == s.element
           left == e.dataShow
           hidden == IF left.hidden # "unknown" THEN left.hidden = "yes"
                     ELSE isHidden(e) \/ kind = "show"
           data == [opacity |-> IF left.opacity = NoOpacity THEN e.opacity ELSE left.opacity,
                    hidden |-> IF kind = "toggle" THEN IF hidden THEN "no" ELSE "yes"
                               ELSE left.hidden]
           out == [e EXCEPT !.dataShow = data]
           seen == IF hidden THEN showHide(out, TRUE) ELSE out
           f == [kind |-> kind,
                 start |-> IF hidden /\ left.opacity = NoOpacity THEN Zero ELSE e.opacity,
                 end |-> IF hidden THEN data.opacity ELSE Zero,
                 hides |-> ~ hidden,
                 orig |-> IF left.opacity \in {NoOpacity, Zero} THEN e.opacity
                          ELSE left.opacity]
           d == defaultPrefilter(s, kind)
           t == Started(s, kind)
<1>1. d = [s EXCEPT !.element = seen, !.fade = f]
  BY Zenon DEF defaultPrefilter
<1>2. /\ e \in StyledElements /\ OwnIsKnown(e) /\ LeftBehind(s)
      /\ s.verdict \in Verdicts /\ s.waiting \in Seq(FadeKinds)
      /\ s = [element |-> e, fade |-> s.fade, waiting |-> s.waiting, verdict |-> s.verdict]
      /\ s.verdict.ended.aim \in {"any", s.verdict.ended.is}
  BY DEF BetweenFades
<1>3. /\ left \in [opacity : {NoOpacity, Whole}, hidden : {"unknown", "yes", "no"}]
      /\ e.opacity \in Opacities
      /\ left.opacity = NoOpacity => e.opacity = Whole /\ left.hidden = "unknown"
      /\ left.hidden = "no" => s.verdict.aim # "hidden"
      /\ left.hidden = "yes" => s.verdict.aim # "shown"
  BY <1>2 DEF StyledElements, LeftBehind, NoShow
<1>4. data \in [opacity : {Whole}, hidden : {"unknown", "yes", "no"}]
  BY <1>3
<1>5. out \in StyledElements /\ OwnIsKnown(out) /\ out.dataShow = data /\ (isHidden(out) = isHidden(e))
  <2> HIDE DEF data
  <2> QED
    BY <1>2, <1>4 DEF StyledElements, OwnIsKnown, isHidden, Display
<1>6. f \in Fadings /\ f # NoFade /\ f.hides = ~ hidden
  <2>1. f.kind # "none"
    BY DEF FadeKinds
  <2>2. f # NoFade
    BY <2>1 DEF NoFade
  <2>3. /\ f.start \in Opacities /\ f.end \in {Zero, Whole} /\ f.orig = Whole
        /\ f.hides \in BOOLEAN /\ f.hides = ~ hidden
    BY <1>3 DEF Opacities, Zero, Whole, Between, NoOpacity
  <2> QED
    BY <2>2, <2>3 DEF Fadings
<1>7. /\ seen \in StyledElements /\ OwnIsKnown(seen) /\ seen.dataShow = data
      /\ hidden => ~ isHidden(seen)
  <2> HIDE DEF out, hidden
  <2> QED
    BY <1>5, ShowHideDoes
<1>8. Aim(s, kind) \in Aims
  BY <1>2, <1>3 DEF Aim, Aims, Verdicts, FadeKinds
<1>9. /\ data.hidden = "no" => Aim(s, kind) # "hidden"
      /\ data.hidden = "yes" => Aim(s, kind) # "shown"
  BY <1>2, <1>3 DEF Aim, Verdicts, Aims, FadeKinds
<1>10. /\ Aim(s, kind) = "shown" => hidden
       /\ Aim(s, kind) = "hidden" => ~ hidden
  BY <1>2, <1>3 DEF Aim, Verdicts, Aims, FadeKinds, Noop
<1>11. t = [element |-> [seen EXCEPT !.opacity = f.start], fade |-> f,
            waiting |-> s.waiting, verdict |-> [s.verdict EXCEPT !.aim = Aim(s, kind)]]
  <2> HIDE DEF seen, f, d
  <2>1. d = [element |-> seen, fade |-> f, waiting |-> s.waiting, verdict |-> s.verdict]
    BY <1>1, <1>2
  <2>2. t = [d EXCEPT !.element.opacity = d.fade.start, !.verdict.aim = Aim(s, kind)]
    BY Zenon DEF Started, d
  <2>3. d.fade = f
    BY <2>1
  <2> HIDE DEF t
  <2> QED
    BY <2>1, <2>2, <2>3, FadeStarted, Zenon
<1> HIDE DEF t, seen, f, data, hidden, d
<1>12. /\ t.element \in StyledElements /\ OwnIsKnown(t.element) /\ t.element.dataShow = data
       /\ hidden => ~ isHidden(t.element)
  BY <1>6, <1>7, <1>11 DEF StyledElements, Fadings, OwnIsKnown, isHidden, Display
<1>13. t.verdict \in Verdicts /\ t.verdict.ended = s.verdict.ended /\ t.verdict.aim = Aim(s, kind)
  BY <1>2, <1>8, <1>11 DEF Verdicts
<1>14. t.fade = f /\ t.waiting = s.waiting
  BY <1>11
<1>15. BetweenFades(t)
  <2>1. LeftBehind(t)
    BY <1>4, <1>9, <1>12, <1>13 DEF LeftBehind, NoOpacity, Whole
  <2>2. t \in [element : StyledElements, fade : Fadings \cup {NoFade}, waiting : Seq(FadeKinds),
               verdict : Verdicts]
    BY <1>2, <1>6, <1>11, <1>12, <1>13, <1>14
  <2> QED
    BY <1>2, <1>12, <1>13, <2>1, <2>2 DEF BetweenFades
<1>16. OnItsWay(t)
  BY <1>4, <1>6, <1>10, <1>12, <1>13, <1>14 DEF OnItsWay
<1> QED
  BY <1>15, <1>16 DEF t, d

(* The first of some places in the queue, and the empty queue.              *)
LEMMA FirstOf ==
  ASSUME NEW T, T \subseteq Nat, T # {}
  PROVE  \E x \in T : \A y \in T : x <= y
<1>1. PICK x \in T : \A y \in T : ~ (<<y, x>> \in OpToRel(<, Nat))
  BY WFMin, NatLessThanWellFounded, Zenon
<1>2. \A y \in T : ~ y < x
  BY <1>1 DEF OpToRel
<1> QED
  BY <1>2

(* No fades.                                                                *)
LEMMA EmptyFades == << >> \in Seq(FadeKinds)
OBVIOUS

(* The next fade.                                                           *)
LEMMA DequeueFadeDoes ==
  ASSUME NEW s, BetweenFades(s), sheet \in {"none", "block"}
  PROVE  BetweenFades(dequeueFade(s)) /\ OnItsWay(dequeueFade(s))
<1> DEFINE doing == {i \in DOMAIN s.waiting : ~ Noop(s.element, s.waiting[i])}
           first == CHOOSE i \in doing : \A j \in doing : i <= j
           rest == SubSeq(s.waiting, first + 1, Len(s.waiting))
           next == [s EXCEPT !.waiting = rest, !.fade = NoFade]
           none == [s EXCEPT !.waiting = << >>, !.fade = NoFade]
<1>1. /\ s.waiting \in Seq(FadeKinds)
      /\ s = [element |-> s.element, fade |-> s.fade, waiting |-> s.waiting, verdict |-> s.verdict]
      /\ s.element \in StyledElements /\ s.verdict \in Verdicts
  BY DEF BetweenFades
<1>2. CASE doing = {}
  <2>1. dequeueFade(s) = none
    BY <1>2, Zenon DEF dequeueFade
  <2>2. /\ none.element = s.element /\ none.verdict = s.verdict /\ none.fade = NoFade
        /\ none \in [element : StyledElements, fade : Fadings \cup {NoFade}, waiting : Seq(FadeKinds),
                     verdict : Verdicts]
    BY <1>1, EmptyFades
  <2> HIDE DEF none
  <2> QED
    BY <2>1, <2>2 DEF BetweenFades, OnItsWay, LeftBehind
<1>3. CASE doing # {}
  <2>6. dequeueFade(s) = Started(next, s.waiting[first])
    BY <1>3, Zenon DEF dequeueFade, Started
  <2>1. first \in doing
    <3>1. doing \subseteq Nat
      BY <1>1
    <3>2. \E x \in doing : \A y \in doing : x <= y
      <4> HIDE DEF doing
      <4> QED
        BY <1>3, <3>1, FirstOf
    <3> QED
      BY <3>2
  <2>2. first \in DOMAIN s.waiting /\ ~ Noop(s.element, s.waiting[first])
    BY <2>1
  <2> HIDE DEF first, doing
  <2>3. /\ next = [element |-> s.element, fade |-> NoFade,
                   waiting |-> rest, verdict |-> s.verdict]
        /\ rest \in Seq(FadeKinds)
        /\ s.waiting[first] \in FadeKinds
    <3>1. /\ first + 1 \in Int /\ Len(s.waiting) \in Int
          /\ \A i \in first + 1 .. Len(s.waiting) : s.waiting[i] \in FadeKinds
      BY <1>1, <2>2
    <3>2. rest \in Seq(FadeKinds)
      BY <3>1, SubSeqProperties
    <3>3. s.waiting[first] \in FadeKinds
      BY <1>1, <2>2
    <3> HIDE DEF rest
    <3>4. next = [element |-> s.element, fade |-> NoFade, waiting |-> rest,
                  verdict |-> s.verdict]
      <4>1. PICK x, f, w, v :
              s = [element |-> x, fade |-> f, waiting |-> w, verdict |-> v]
        BY <1>1
      <4>2. next = [element |-> x, fade |-> NoFade, waiting |-> rest, verdict |-> v]
        <5>1. [s EXCEPT !.waiting = rest]
              = [element |-> x, fade |-> f, waiting |-> rest, verdict |-> v]
          BY <4>1
        <5>2. [[element |-> x, fade |-> f, waiting |-> rest, verdict |-> v]
                 EXCEPT !.fade = NoFade]
              = [element |-> x, fade |-> NoFade, waiting |-> rest, verdict |-> v]
          OBVIOUS
        <5>3. next = [[s EXCEPT !.waiting = rest] EXCEPT !.fade = NoFade]
          OBVIOUS
        <5> QED
          BY <5>1, <5>2, <5>3, Zenon
      <4> HIDE DEF next
      <4> QED
        BY <4>1, <4>2
    <3> QED
      BY <3>2, <3>3, <3>4
  <2> HIDE DEF next
  <2>4. BetweenFades(next)
    <3>1. next.element = s.element /\ next.verdict = s.verdict
      BY <2>3
    <3> QED
      BY <1>1, <2>3, <3>1 DEF BetweenFades, LeftBehind
  <2>5. ~ Noop(next.element, s.waiting[first])
    BY <2>2, <2>3
  <2> QED
    BY <2>3, <2>4, <2>5, <2>6, PrefilterDoes
<1> QED
  BY <1>2, <1>3

(* The end of a fade.                                                       *)
LEMMA ResolveFadeDoes ==
  ASSUME NEW s, BetweenFades(s), OnItsWay(s), s.fade # NoFade, sheet \in {"none", "block"}
  PROVE  BetweenFades(resolveFade(s)) /\ OnItsWay(resolveFade(s))
<1> DEFINE hidden == IF s.fade.hides THEN showHide(s.element, FALSE) ELSE s.element
           done == [hidden EXCEPT !.opacity = s.fade.orig, !.dataShow = NoShow]
           ended == [aim |-> s.verdict.aim, is |-> IF isHidden(done) THEN "hidden" ELSE "shown",
                     opacity |-> done.opacity]
           t == [s EXCEPT !.element = done, !.verdict.ended = ended]
<1>1. /\ s.waiting \in Seq(FadeKinds) /\ s.fade \in Fadings
      /\ s = [element |-> s.element, fade |-> s.fade, waiting |-> s.waiting, verdict |-> s.verdict]
      /\ s.element \in StyledElements /\ OwnIsKnown(s.element) /\ s.verdict \in Verdicts
  BY DEF BetweenFades
<1>2. /\ hidden \in StyledElements /\ OwnIsKnown(hidden)
      /\ s.fade.hides => isHidden(hidden)
      /\ ~ s.fade.hides => hidden = s.element
  BY <1>1, ShowHideDoes
<1>3. NoShow \in [opacity : {NoOpacity, Whole}, hidden : {"unknown", "yes", "no"}]
  BY DEF NoShow
<1>4. /\ done \in StyledElements /\ OwnIsKnown(done) /\ done.opacity = Whole /\ done.dataShow = NoShow
      /\ isHidden(done) = isHidden(hidden)
  <2> HIDE DEF hidden
  <2>1. s.fade.orig = Whole /\ Whole \in Opacities
    BY <1>1 DEF Fadings, Opacities
  <2> QED
    BY <1>2, <1>3, <2>1 DEF StyledElements, OwnIsKnown, isHidden, Display
<1> HIDE DEF done, hidden
<1>5. ended \in [aim : Aims, is : Aims, opacity : {Whole}] /\ ended.aim \in {"any", ended.is}
  <2>1. s.verdict.aim \in Aims
    BY <1>1 DEF Verdicts
  <2>2. /\ s.verdict.aim = "shown" => ~ isHidden(done)
        /\ s.verdict.aim = "hidden" => isHidden(done)
    BY <1>2, <1>4 DEF OnItsWay
  <2> QED
    BY <1>4, <2>1, <2>2 DEF Aims
<1> HIDE DEF ended
<1>6. /\ t.element = done /\ t.waiting = s.waiting /\ t.fade = s.fade
      /\ t.verdict \in Verdicts /\ t.verdict.ended = ended
      /\ t \in [element : StyledElements, fade : Fadings \cup {NoFade}, waiting : Seq(FadeKinds),
                verdict : Verdicts]
  BY <1>1, <1>4, <1>5 DEF Verdicts
<1> HIDE DEF t
<1>7. LeftBehind(t)
  BY <1>4, <1>6 DEF LeftBehind, NoShow
<1>8. BetweenFades(t)
  BY <1>4, <1>5, <1>6, <1>7 DEF BetweenFades
<1>9. resolveFade(s) = dequeueFade(t)
  BY DEF resolveFade, t, ended, done, hidden
<1> QED
  BY <1>8, <1>9, DequeueFadeDoes

-----------------------------------------------------------------------------

(* The invariant holds at first.                                            *)
LEMMA FadesInvInit == FadesInit => FadesInv
<1> SUFFICES ASSUME FadesInit PROVE FadesInv
  OBVIOUS
<1>1. element \in StyledElements /\ element.dataShow = NoShow /\ element.opacity = Whole
  BY DEF FadesInit, StyledElements, NoShow, Opacities
<1>2. verdict \in Verdicts /\ verdict.ended = NoEnd /\ verdict.aim = "any"
  BY DEF FadesInit, Verdicts, NoEnd, Aims
<1>3. OwnIsKnown(element) /\ own \in {"block", "flex"} /\ sheet \in {"none", "block"} /\ asked \in Nat
  <2>1. element.olddisplay = NoDisplay /\ element.style \in {NoDisplay, "none", "flex"}
        /\ own = IF element.style = "flex" THEN element.style ELSE defaultDisplay
    BY DEF FadesInit
  <2> QED
    BY <2>1 DEF FadesInit, OwnIsKnown, defaultDisplay, NoDisplay
<1>4. /\ Now.element = element /\ Now.fade = NoFade /\ Now.verdict = verdict
      /\ Now \in [element : StyledElements, fade : Fadings \cup {NoFade}, waiting : Seq(FadeKinds),
                  verdict : Verdicts]
  BY <1>1, <1>2 DEF FadesInit, Now
<1>5. BetweenFades(Now) /\ OnItsWay(Now)
  BY <1>1, <1>2, <1>3, <1>4 DEF BetweenFades, OnItsWay, LeftBehind, NoShow, NoEnd
<1> QED
  BY <1>3, <1>5 DEF FadesInv

(* A call that leaves s.                                                    *)
LEMMA BecomeKeeps ==
  ASSUME NEW s, BetweenFades(s), OnItsWay(s), Become(s),
         sheet \in {"none", "block"}, own \in {"block", "flex"}, asked' \in Nat
  PROVE  FadesInv'
<1>1. Now' = s
  BY DEF Become, Now, BetweenFades
<1> QED
  BY <1>1 DEF Become, FadesInv, BetweenFades, OnItsWay, OwnIsKnown, LeftBehind, isHidden, Display

(* Every step keeps the invariant.                                          *)
LEMMA FadesInvNext == FadesInv /\ [FadesNext]_fadeVars => FadesInv'
<1> SUFFICES ASSUME FadesInv, [FadesNext]_fadeVars PROVE FadesInv'
  OBVIOUS
<1> USE DEF FadesInv
<1>1. /\ Now.element = element /\ Now.fade = fade /\ Now.waiting = queued /\ Now.verdict = verdict
      /\ Now = [element |-> element, fade |-> fade, waiting |-> queued, verdict |-> verdict]
  BY DEF Now
<1>2. /\ element \in StyledElements /\ fade \in Fadings \cup {NoFade} /\ queued \in Seq(FadeKinds)
      /\ verdict \in Verdicts /\ OwnIsKnown(element)
      /\ verdict.ended.aim \in {"any", verdict.ended.is}
      /\ fade # NoFade => element.dataShow.opacity = Whole
  BY <1>1 DEF BetweenFades, OnItsWay
<1>3. ASSUME NEW kind \in FadeKinds, Fade(kind) PROVE FadesInv'
  <2> DEFINE more == [Now EXCEPT !.waiting = Append(@, kind)]
  <2>1. /\ more.element = element /\ more.fade = fade /\ more.verdict = verdict
        /\ more \in [element : StyledElements, fade : Fadings \cup {NoFade}, waiting : Seq(FadeKinds),
                     verdict : Verdicts]
    BY <1>1, <1>2
  <2>2. Become(IF fade = NoFade THEN dequeueFade(more) ELSE more) /\ asked' \in Nat
    BY <1>3 DEF Fade
  <2> HIDE DEF more
  <2>3. BetweenFades(more) /\ OnItsWay(more)
    BY <1>1, <2>1 DEF BetweenFades, OnItsWay, LeftBehind
  <2> QED
    BY <2>2, <2>3, DequeueFadeDoes, BecomeKeeps
<1>4. CASE Run
  <2>1. CASE Become(resolveFade(Now))
    BY <1>1, <1>4, <2>1, ResolveFadeDoes, BecomeKeeps DEF Run
  <2>2. CASE /\ element' = [element EXCEPT !.opacity = Between]
             /\ UNCHANGED <<sheet, own, fade, queued, verdict>>
    <3>1. /\ element' \in StyledElements /\ element'.dataShow = element.dataShow
          /\ element'.style = element.style /\ element'.olddisplay = element.olddisplay
      BY <1>2, <2>2 DEF StyledElements, Opacities
    <3>2. /\ Now'.element = element' /\ Now'.fade = fade /\ Now'.waiting = queued
          /\ Now'.verdict = verdict
          /\ Now' \in [element : StyledElements, fade : Fadings \cup {NoFade}, waiting : Seq(FadeKinds),
                       verdict : Verdicts]
      BY <1>2, <2>2, <3>1 DEF Now
    <3>3. (BetweenFades(Now))'
      BY <1>1, <1>2, <1>4, <2>2, <3>1, <3>2
      DEF Run, BetweenFades, LeftBehind, OwnIsKnown, NoOpacity, Whole
    <3>4. (OnItsWay(Now))'
      BY <1>1, <2>2, <3>1, <3>2 DEF OnItsWay, isHidden, Display
    <3> QED
      BY <1>4, <2>2, <3>3, <3>4 DEF Run
  <2> QED
    BY <1>4, <2>1, <2>2 DEF Run
<1>5. ASSUME NEW clear \in BOOLEAN, NEW toEnd \in BOOLEAN, stopFade(clear, toEnd)
      PROVE  FadesInv'
  <2> DEFINE cleared == IF clear THEN [Now EXCEPT !.waiting = << >>] ELSE Now
  <2>1. /\ cleared.element = element /\ cleared.fade = fade /\ cleared.verdict = verdict
        /\ cleared \in [element : StyledElements, fade : Fadings \cup {NoFade}, waiting : Seq(FadeKinds),
                        verdict : Verdicts]
    BY <1>1, <1>2, EmptyFades
  <2>2. /\ Become(IF toEnd THEN resolveFade(cleared) ELSE dequeueFade(cleared))
        /\ fade # NoFade /\ asked' = asked
    BY <1>5 DEF stopFade
  <2> HIDE DEF cleared
  <2>3. BetweenFades(cleared) /\ OnItsWay(cleared)
    BY <1>1, <2>1 DEF BetweenFades, OnItsWay, LeftBehind
  <2> QED
    BY <2>1, <2>2, <2>3, DequeueFadeDoes, ResolveFadeDoes, BecomeKeeps
<1>6. CASE show
  <2> DEFINE s == [Now EXCEPT !.element = showHide(element, TRUE)]
  <2>1. /\ showHide(element, TRUE) \in StyledElements /\ OwnIsKnown(showHide(element, TRUE))
        /\ showHide(element, TRUE).dataShow = element.dataShow
        /\ showHide(element, TRUE).opacity = element.opacity
        /\ ~ isHidden(showHide(element, TRUE))
    BY <1>2, ShowHideDoes
  <2>2. /\ s.element = showHide(element, TRUE) /\ s.fade = fade /\ s.waiting = queued
        /\ s.verdict = verdict
        /\ s \in [element : StyledElements, fade : Fadings \cup {NoFade}, waiting : Seq(FadeKinds),
                  verdict : Verdicts]
    BY <1>1, <1>2, <2>1
  <2> HIDE DEF s
  <2>3. BetweenFades(s) /\ OnItsWay(s)
    BY <1>1, <2>1, <2>2 DEF BetweenFades, OnItsWay, LeftBehind
  <2>4. Become(s) /\ asked' = asked
    BY <1>6, <2>2 DEF show, Become
  <2> QED
    BY <2>3, <2>4, BecomeKeeps
<1>7. CASE hide
  <2> DEFINE v == [verdict EXCEPT !.aim = IF @ = "shown" THEN "any" ELSE @]
             s == [Now EXCEPT !.element = showHide(element, FALSE), !.verdict = v]
  <2>1. /\ showHide(element, FALSE) \in StyledElements /\ OwnIsKnown(showHide(element, FALSE))
        /\ showHide(element, FALSE).dataShow = element.dataShow
        /\ showHide(element, FALSE).opacity = element.opacity
    BY <1>2, ShowHideDoes
  <2>2. /\ v \in Verdicts /\ v.ended = verdict.ended
        /\ v.aim = IF verdict.aim = "shown" THEN "any" ELSE verdict.aim
    BY <1>2 DEF Verdicts, Aims
  <2> HIDE DEF v
  <2>3. /\ s.element = showHide(element, FALSE) /\ s.fade = fade /\ s.waiting = queued
        /\ s.verdict = v
        /\ s \in [element : StyledElements, fade : Fadings \cup {NoFade}, waiting : Seq(FadeKinds),
                  verdict : Verdicts]
    BY <1>1, <1>2, <2>1, <2>2
  <2> HIDE DEF s
  <2>4. BetweenFades(s) /\ OnItsWay(s)
    BY <1>1, <2>1, <2>2, <2>3 DEF BetweenFades, OnItsWay, LeftBehind
  <2>5. Become(s) /\ asked' = asked
    BY <1>7, <2>3 DEF hide, Become, v
  <2> QED
    BY <2>4, <2>5, BecomeKeeps
<1>8. CASE UNCHANGED fadeVars
  BY <1>8 DEF fadeVars, Now, BetweenFades, OnItsWay, OwnIsKnown, LeftBehind, isHidden, Display
<1> QED
  BY <1>3, <1>4, <1>5, <1>6, <1>7, <1>8 DEF FadesNext, FadeKinds

(* A fade leaves the element with its own opacity, shown or hidden as it    *)
(* was meant to, and shown with its own display.                            *)
THEOREM FadesEndAsAskedHolds == FadesSpec => []FadesEndAsAsked
<1>1. FadesInv => FadesEndAsAsked
  <2> SUFFICES ASSUME FadesInv PROVE FadesEndAsAsked
    OBVIOUS
  <2>1. /\ Now.element = element /\ Now.fade = fade /\ Now.verdict = verdict
    BY DEF Now
  <2>2. /\ element \in StyledElements /\ OwnIsKnown(element) /\ verdict \in Verdicts
        /\ verdict.ended.aim \in {"any", verdict.ended.is}
        /\ element.dataShow.opacity = NoOpacity => element.opacity = Whole
    BY <2>1 DEF FadesInv, BetweenFades, LeftBehind
  <2>3. verdict.ended.opacity = Whole
    BY <2>2 DEF Verdicts
  <2>4. ~ isHidden(element) => Display(element) = own
    BY <2>2 DEF FadesInv, isHidden, Display, OwnIsKnown, StyledElements, NoDisplay
  <2>5. element.dataShow = NoShow => element.opacity = Whole
    BY <2>2 DEF NoShow
  <2> QED
    BY <2>2, <2>3, <2>4, <2>5 DEF FadesEndAsAsked
<1> QED
  BY <1>1, FadesInvInit, FadesInvNext, PTL DEF FadesSpec

-----------------------------------------------------------------------------
(* Effects. The parts of the invariant are operators on the values they are *)
(* about: p the progress of the items, it what they are, qs the queues, s   *)
(* the stack, ts the timers.                                                *)

FxItems ==
  [Items -> {[kind |-> "none", elem |-> NoItem]}
            \cup [kind : {"fade", "instant", "delay"}, elem : Animated]]
FxProgress == [Items -> {"unused", "queued", "running", "resolved", "rejected"}]
FxQueue == Seq(Items \cup {InProgress})
DequeueCalls == [call : {"dequeue"}, elem : Animated]
ResolveCalls == [call : {"resolve"}, item : Items]
CompleteCalls == [call : {"complete"}]
TickCalls ==
  [call : {"tick"}, over : SUBSET Items, index : Nat \ {0}, timer : Items \cup {NoItem}]
StopCalls ==
  [call : {"stop"}, elem : Animated, gotoEnd : BOOLEAN, dequeue : BOOLEAN, index : Int,
   timer : Items \cup {NoItem}]
PlayCalls == [call : {"play"}, elem : Animated, rest : FxQueue]
FxCallSet ==
  DequeueCalls \cup ResolveCalls \cup CompleteCalls \cup TickCalls \cup StopCalls \cup PlayCalls

FxTypes ==
  /\ item \in FxItems /\ progress \in FxProgress
  /\ queues \in [Animated -> FxQueue] /\ hook \in [Animated -> Items \cup {NoItem}]
  /\ finishing \in [Animated -> BOOLEAN]
  /\ fxTimers \in Seq(Items) /\ timerId \in BOOLEAN /\ timeouts \in SUBSET Items
  /\ fxCalls \in Seq(FxCallSet)
  /\ fxCompleted \in [Items -> Nat] /\ nested \in BOOLEAN

HasStarted(p, i) == i \in Items /\ p[i] \in {"running", "resolved", "rejected"}

(* A list of items that wait for e, each once, perhaps with the sentinel.   *)
Waits(p, it, i, e) ==
  /\ i \in Items /\ p[i] = "queued"
  /\ it[i].elem = e /\ it[i].kind \in {"fade", "instant", "delay"}
ListIs(p, it, q, e) ==
  /\ \A n \in DOMAIN q : (n = 1 /\ q[n] = InProgress) \/ Waits(p, it, q[n], e)
  /\ \A m, n \in DOMAIN q : q[m] = q[n] => m = n
Apart(q, r) == \A m \in DOMAIN q, n \in DOMAIN r : q[m] = r[n] => q[m] = InProgress

(* A call ends only what has started; what finish plays is in no queue.     *)
CallIs(p, it, qs, c) ==
  /\ c.call = "resolve" => HasStarted(p, c.item) /\ it[c.item].kind \in {"fade", "instant"}
  /\ c.call \in {"tick", "stop"} => c.timer = NoItem \/ HasStarted(p, c.timer)
  /\ c.call = "play" =>
       ListIs(p, it, c.rest, c.elem) /\ \A e \in Animated : Apart(qs[e], c.rest)

IsPlay(c) == c.call = "play"
Pends(c) == c.call \in {"tick", "stop"} /\ c.timer # NoItem

(* The loops that wait for an animation to end wait for one that has, but   *)
(* when it is the next to end.                                              *)
StackIs(p, it, qs, s) ==
  /\ \A k \in DOMAIN s : CallIs(p, it, qs, s[k])
  /\ \A k \in DOMAIN s : s[k].call = "tick" => k = Len(s)
  /\ \A k, l \in DOMAIN s :
       k # l /\ IsPlay(s[k]) /\ IsPlay(s[l]) => Apart(s[k].rest, s[l].rest)
  /\ \A k \in DOMAIN s :
       Pends(s[k]) /\ p[s[k].timer] = "running" => s[1] = Resolve(s[k].timer)

ListsAre(p, it, qs) == \A e \in Animated : ListIs(p, it, qs[e], e)
TimersAre(p, it, ts) == \A n \in DOMAIN ts : HasStarted(p, ts[n]) /\ it[ts[n]].kind = "fade"
DelaysAre(p, it, hooks, ds) ==
  /\ \A i \in ds : p[i] = "running" /\ it[i].kind = "delay"
  /\ \A e \in Animated : hooks[e] # NoItem => HasStarted(p, hooks[e]) /\ it[hooks[e]].elem = e

(* While no handler that a stop has called stops more: the loop of stop is  *)
(* where it thinks it is, what runs has its timer, and every queue that is  *)
(* not empty has somebody to take the next item.                            *)
IsStop(c) == c.call = "stop"
LoopsAre(s, ts) ==
  /\ \A k, l \in DOMAIN s : IsStop(s[k]) /\ IsStop(s[l]) => k = l
  /\ \A k \in DOMAIN s :
       IsStop(s[k]) =>
         /\ s[k].index <= Len(ts)
         /\ s[k].timer # NoItem => s[k].index > 0 /\ ts[s[k].index] = s[k].timer
TimedBy(ts, id, i) == id /\ \E n \in DOMAIN ts : ts[n] = i
EndsNext(s, i) == s # << >> /\ s[1] = Resolve(i)
Moves(p, it, ts, id, s) ==
  \A i \in Items :
    p[i] = "running" /\ it[i].kind # "delay" => TimedBy(ts, id, i) \/ EndsNext(s, i)
Takes(c, e) == c = Dequeue(e) \/ (IsStop(c) /\ c.elem = e /\ (c.dequeue \/ ~ c.gotoEnd))
TakenBy(p, it, ds, s, e) ==
  \/ \E i \in Items : p[i] = "running" /\ it[i].elem = e /\ (i \in ds \/ it[i].kind # "delay")
  \/ \E k \in DOMAIN s : Takes(s[k], e)
Taken(p, it, qs, ds, s) == \A e \in Animated : qs[e] # << >> => TakenBy(p, it, ds, s, e)

EffectsInv ==
  /\ FxTypes
  /\ StackIs(progress, item, queues, fxCalls)
  /\ ListsAre(progress, item, queues)
  /\ TimersAre(progress, item, fxTimers)
  /\ DelaysAre(progress, item, hook, timeouts)
  /\ CompletesOnce
  /\ ~ nested =>
       /\ LoopsAre(fxCalls, fxTimers)
       /\ Moves(progress, item, fxTimers, timerId, fxCalls)
       /\ Taken(progress, item, queues, timeouts, fxCalls)

(* Calls are told apart by their names.                                     *)
LEMMA CallKinds ==
  ASSUME NEW c \in FxCallSet
  PROVE  /\ c.call = "dequeue" => c \in DequeueCalls /\ c = Dequeue(c.elem)
         /\ c.call = "resolve" => c \in ResolveCalls /\ c = Resolve(c.item)
         /\ c.call = "complete" => c \in CompleteCalls
         /\ c.call = "tick" => c \in TickCalls
         /\ c.call = "stop" => c \in StopCalls
         /\ c.call = "play" => c \in PlayCalls
<1>1. \/ c \in DequeueCalls \/ c \in ResolveCalls \/ c \in CompleteCalls
      \/ c \in TickCalls \/ c \in StopCalls \/ c \in PlayCalls
  BY DEF FxCallSet
<1>2. CASE c \in DequeueCalls
  BY <1>2 DEF DequeueCalls, Dequeue
<1>3. CASE c \in ResolveCalls
  BY <1>3 DEF ResolveCalls, Resolve
<1>4. CASE c \in CompleteCalls
  BY <1>4 DEF CompleteCalls
<1>5. CASE c \in TickCalls
  BY <1>5 DEF TickCalls
<1>6. CASE c \in StopCalls
  BY <1>6 DEF StopCalls
<1>7. CASE c \in PlayCalls
  BY <1>7 DEF PlayCalls
<1> QED
  BY <1>1, <1>2, <1>3, <1>4, <1>5, <1>6, <1>7

(* The stack after d calls have gone and those above have come.             *)
After(s, above, d, s2) ==
  /\ s2 \in Seq(FxCallSet) /\ Len(s2) = Len(above) + (Len(s) - d)
  /\ \A k \in DOMAIN above : k \in DOMAIN s2 /\ s2[k] = above[k]
  /\ \A k \in DOMAIN s2 :
       IF k <= Len(above) THEN k \in DOMAIN above /\ s2[k] = above[k]
       ELSE /\ k - Len(above) + d \in DOMAIN s /\ k - Len(above) + d > d
            /\ s2[k] = s[k - Len(above) + d]
  /\ \A k \in DOMAIN s :
       k > d => k - d + Len(above) \in DOMAIN s2 /\ s2[k - d + Len(above)] = s[k]

(* What is put above a stack stands on it; nothing has gone.                *)
LEMMA Pushed ==
  ASSUME NEW s \in Seq(FxCallSet), NEW above \in Seq(FxCallSet), NEW s2, s2 = above \o s
  PROVE  After(s, above, 0, s2)
<1>1. /\ s2 \in Seq(FxCallSet) /\ Len(s2) = Len(above) + Len(s)
      /\ \A i \in 1 .. Len(above) + Len(s) :
           s2[i] = IF i <= Len(above) THEN above[i] ELSE s[i - Len(above)]
  BY ConcatProperties
<1>2. /\ Len(s) \in Nat /\ Len(above) \in Nat
      /\ DOMAIN s = 1 .. Len(s) /\ DOMAIN above = 1 .. Len(above) /\ DOMAIN s2 = 1 .. Len(s2)
  BY <1>1, LenProperties
<1> QED
  BY <1>1, <1>2 DEF After

(* The innermost call has returned, and what is above came in its place.    *)
LEMMA Returned ==
  ASSUME NEW s \in Seq(FxCallSet), s # << >>, NEW above \in Seq(FxCallSet),
         NEW s2, s2 = above \o Tail(s)
  PROVE  After(s, above, 1, s2)
<1>1. /\ Tail(s) \in Seq(FxCallSet) /\ Len(Tail(s)) = Len(s) - 1
      /\ \A i \in 1 .. Len(Tail(s)) : Tail(s)[i] = s[i + 1]
  BY HeadTailProperties
<1>2. /\ s2 \in Seq(FxCallSet) /\ Len(s2) = Len(above) + Len(Tail(s))
      /\ \A i \in 1 .. Len(above) + Len(Tail(s)) :
           s2[i] = IF i <= Len(above) THEN above[i] ELSE Tail(s)[i - Len(above)]
  BY <1>1, ConcatProperties
<1>3. /\ Len(s) \in Nat \ {0} /\ Len(above) \in Nat
      /\ DOMAIN s = 1 .. Len(s) /\ DOMAIN above = 1 .. Len(above) /\ DOMAIN s2 = 1 .. Len(s2)
  BY <1>2, LenProperties, EmptySeq
<1>4. \A k \in DOMAIN s2 :
        k > Len(above) => /\ k - Len(above) + 1 \in DOMAIN s /\ k - Len(above) + 1 > 1
                          /\ s2[k] = s[k - Len(above) + 1]
  BY <1>1, <1>2, <1>3
<1>5. \A k \in DOMAIN s :
        k > 1 => k - 1 + Len(above) \in DOMAIN s2 /\ s2[k - 1 + Len(above)] = s[k]
  <2> SUFFICES ASSUME NEW k \in DOMAIN s, k > 1
               PROVE  k - 1 + Len(above) \in DOMAIN s2 /\ s2[k - 1 + Len(above)] = s[k]
    OBVIOUS
  <2>1. k - 1 \in 1 .. Len(Tail(s)) /\ Tail(s)[k - 1] = s[k]
    BY <1>1, <1>3
  <2>2. k - 1 + Len(above) \in 1 .. Len(above) + Len(Tail(s)) /\ ~ (k - 1 + Len(above) <= Len(above))
        /\ (k - 1 + Len(above)) - Len(above) = k - 1
    BY <1>1, <1>3, <2>1
  <2> QED
    BY <1>2, <1>3, <2>1, <2>2
<1>6. \A k \in DOMAIN above : k \in DOMAIN s2 /\ s2[k] = above[k]
  BY <1>1, <1>2, <1>3
<1>7. \A k \in DOMAIN s2 : k <= Len(above) => k \in DOMAIN above
  BY <1>3
<1>8. s2 \in Seq(FxCallSet) /\ Len(s2) = Len(above) + (Len(s) - 1)
  BY <1>1, <1>2, <1>3
<1>9. \A k \in DOMAIN s2 :
        IF k <= Len(above) THEN k \in DOMAIN above /\ s2[k] = above[k]
        ELSE /\ k - Len(above) + 1 \in DOMAIN s /\ k - Len(above) + 1 > 1
             /\ s2[k] = s[k - Len(above) + 1]
  BY <1>3, <1>4, <1>6, <1>7
<1> QED
  BY <1>5, <1>6, <1>8, <1>9, Zenon DEF After

(* Where a call was before.                                                 *)
At(above, d, k) == k - Len(above) + d
IsNew(above, s2, k) == k \in DOMAIN above /\ s2[k] = above[k]
IsOld(s, above, d, s2, k) ==
  LET l == At(above, d, k) IN l \in DOMAIN s /\ l > d /\ s2[k] = s[l]

(* Where every call of the new stack comes from, and where the old ones     *)
(* are.                                                                     *)
LEMMA AfterIs ==
  ASSUME NEW s \in Seq(FxCallSet), NEW above \in Seq(FxCallSet), NEW d \in {0, 1}, d <= Len(s),
         NEW s2, After(s, above, d, s2)
  PROVE  /\ \A k \in DOMAIN s2 : IsNew(above, s2, k) \/ IsOld(s, above, d, s2, k)
         /\ \A k, l \in DOMAIN s2 : k # l => At(above, d, k) # At(above, d, l)
         /\ \A k \in DOMAIN s2 : At(above, d, k) = Len(s) => k = Len(s2)
         /\ Len(s) = d => Len(s2) = Len(above)
         /\ \A k \in DOMAIN above : k \in DOMAIN s2 /\ s2[k] = above[k]
         /\ \A k \in DOMAIN s : k > d => \E n \in DOMAIN s2 : s2[n] = s[k]
<1>1. /\ Len(s) \in Nat /\ DOMAIN s = 1 .. Len(s)
      /\ Len(above) \in Nat /\ DOMAIN above = 1 .. Len(above)
      /\ s2 \in Seq(FxCallSet) /\ Len(s2) \in Nat /\ DOMAIN s2 = 1 .. Len(s2)
  BY LenProperties DEF After
<1>2. Len(s2) = Len(above) + (Len(s) - d) /\ d \in Int
  BY DEF After
<1>3. \A k \in DOMAIN s2 : IsNew(above, s2, k) \/ IsOld(s, above, d, s2, k)
  BY Zenon DEF After, IsNew, IsOld, At
<1>4. \A k, l \in DOMAIN s2 : k # l => At(above, d, k) # At(above, d, l)
  BY <1>1, <1>2 DEF At
<1>5. \A k \in DOMAIN s2 : At(above, d, k) = Len(s) => k = Len(s2)
  BY <1>1, <1>2 DEF At
<1>6. Len(s) = d => Len(s2) = Len(above)
  BY <1>1, <1>2
<1> QED
  BY <1>3, <1>4, <1>5, <1>6 DEF After

(* What is kept of the stack.                                               *)
Stacked(p, it, qs, s, above, d, s2) ==
  /\ \A k \in DOMAIN above : CallIs(p, it, qs, above[k])
  /\ \A k \in DOMAIN s : k > d => CallIs(p, it, qs, s[k])
  /\ \A k \in DOMAIN above : above[k].call = "tick" => k = Len(above) /\ Len(s) = d
  /\ \A k \in DOMAIN above :
       IsPlay(above[k]) =>
         /\ \A l \in DOMAIN above : IsPlay(above[l]) => l = k
         /\ \A l \in DOMAIN s : l > d /\ IsPlay(s[l]) => Apart(above[k].rest, s[l].rest)
  /\ \A k \in DOMAIN above :
       Pends(above[k]) /\ p[above[k].timer] = "running" => s2[1] = Resolve(above[k].timer)
  /\ \A k \in DOMAIN s : k > d /\ Pends(s[k]) => p[s[k].timer] # "running"

(* The stack is as it should be when the new calls are, and the old ones    *)
(* are still.                                                               *)
LEMMA StackKept ==
  ASSUME NEW p, NEW it, NEW qs, NEW s \in Seq(FxCallSet), NEW p2, NEW it2, NEW qs2, NEW s2,
         NEW above \in Seq(FxCallSet), NEW d \in {0, 1}, d <= Len(s),
         StackIs(p, it, qs, s), After(s, above, d, s2), Stacked(p2, it2, qs2, s, above, d, s2)
  PROVE  StackIs(p2, it2, qs2, s2)
<1> USE DEF Stacked
<1>1. \A k \in DOMAIN s2 : IsNew(above, s2, k) \/ IsOld(s, above, d, s2, k)
  BY AfterIs
<1>2. \A k \in DOMAIN s2 : CallIs(p2, it2, qs2, s2[k])
  BY <1>1 DEF IsNew, IsOld
<1>3. \A k \in DOMAIN s2 : s2[k].call = "tick" => k = Len(s2)
  <2> SUFFICES ASSUME NEW k \in DOMAIN s2, s2[k].call = "tick" PROVE k = Len(s2)
    OBVIOUS
  <2>1. CASE IsNew(above, s2, k)
    <3>1. k = Len(above) /\ Len(s) = d
      BY <2>1 DEF IsNew
    <3>2. Len(s2) = Len(above) + (Len(s) - d)
      BY DEF After
    <3>3. Len(above) \in Int /\ Len(s) \in Int
      BY LenProperties
    <3> QED
      BY <3>1, <3>2, <3>3
  <2>2. CASE IsOld(s, above, d, s2, k)
    <3>1. At(above, d, k) = Len(s)
      BY <2>2 DEF StackIs, IsOld
    <3> QED
      BY <3>1, AfterIs
  <2> QED
    BY <1>1, <2>1, <2>2
<1>4. \A k, l \in DOMAIN s2 :
        k # l /\ IsPlay(s2[k]) /\ IsPlay(s2[l]) => Apart(s2[k].rest, s2[l].rest)
  <2>1. ASSUME NEW k \in DOMAIN s2, NEW l \in DOMAIN s2, k # l, IsPlay(s2[k]), IsPlay(s2[l]),
               IsNew(above, s2, k)
        PROVE  Apart(s2[k].rest, s2[l].rest)
    <3>1. CASE IsNew(above, s2, l)
      BY <2>1, <3>1 DEF IsNew
    <3>2. CASE IsOld(s, above, d, s2, l)
      BY <2>1, <3>2 DEF IsNew, IsOld
    <3> QED
      BY <1>1, <3>1, <3>2
  <2>2. ASSUME NEW k \in DOMAIN s2, NEW l \in DOMAIN s2, k # l, IsPlay(s2[k]), IsPlay(s2[l])
        PROVE  Apart(s2[k].rest, s2[l].rest)
    <3>1. CASE IsNew(above, s2, k)
      BY <2>1, <2>2, <3>1
    <3>2. CASE IsNew(above, s2, l)
      <4>1. Apart(s2[l].rest, s2[k].rest)
        BY <2>1, <2>2, <3>2
      <4> QED
        BY <4>1 DEF Apart
    <3>3. CASE IsOld(s, above, d, s2, k) /\ IsOld(s, above, d, s2, l)
      <4>1. At(above, d, k) # At(above, d, l)
        BY <2>2, AfterIs
      <4> QED
        BY <2>2, <3>3, <4>1 DEF StackIs, IsOld
    <3> QED
      BY <1>1, <3>1, <3>2, <3>3
  <2> QED
    BY <2>2
<1>5. \A k \in DOMAIN s2 :
        Pends(s2[k]) /\ p2[s2[k].timer] = "running" => s2[1] = Resolve(s2[k].timer)
  BY <1>1 DEF IsNew, IsOld
<1> QED
  BY <1>2, <1>3, <1>4, <1>5 DEF StackIs

(* A step that leaves what waits waiting, and empties queues at most.       *)
Keeps(p, it, p2, it2) ==
  \A i \in Items :
    /\ p[i] # "unused" => it2[i] = it[i]
    /\ HasStarted(p, i) => HasStarted(p2, i) /\ (p2[i] = "running" => p[i] = "running")
Quiet(p, it, qs, p2, it2, qs2) ==
  /\ Keeps(p, it, p2, it2)
  /\ \A i \in Items : p[i] = "queued" => p2[i] = "queued"
  /\ \A e \in Animated : qs2[e] \in {qs[e], << >>}

(* A list is one still when nothing in it has been started.                 *)
LEMMA ListKept ==
  ASSUME NEW p, NEW it, NEW p2, NEW it2, NEW q, NEW e, ListIs(p, it, q, e), Keeps(p, it, p2, it2),
         \A n \in DOMAIN q : q[n] \in Items /\ p[q[n]] = "queued" => p2[q[n]] = "queued"
  PROVE  ListIs(p2, it2, q, e)
<1>1. \A n \in DOMAIN q : Waits(p, it, q[n], e) => Waits(p2, it2, q[n], e)
  BY DEF Waits, Keeps
<1> QED
  BY <1>1 DEF ListIs

(* A call is as it should be still; finish when nothing it plays has been   *)
(* started.                                                                 *)
LEMMA CallKept ==
  ASSUME NEW p, NEW it, NEW qs, NEW p2, NEW it2, NEW qs2, NEW c \in FxCallSet,
         CallIs(p, it, qs, c), Keeps(p, it, p2, it2),
         IsPlay(c) =>
           /\ \A n \in DOMAIN c.rest :
                c.rest[n] \in Items /\ p[c.rest[n]] = "queued" => p2[c.rest[n]] = "queued"
           /\ \A e \in Animated : Apart(qs2[e], c.rest)
  PROVE  CallIs(p2, it2, qs2, c)
<1>1. c.call = "resolve" => HasStarted(p2, c.item) /\ it2[c.item].kind \in {"fade", "instant"}
  BY DEF CallIs, Keeps, HasStarted
<1>2. c.call \in {"tick", "stop"} => c.timer = NoItem \/ HasStarted(p2, c.timer)
  BY DEF CallIs, Keeps, HasStarted
<1>3. c.call = "play" => ListIs(p2, it2, c.rest, c.elem)
  BY ListKept DEF CallIs, IsPlay
<1> QED
  BY <1>1, <1>2, <1>3 DEF CallIs, IsPlay

(* When nothing is started or asked for, lists and calls stay as they       *)
(* should be.                                                               *)
LEMMA QuietKeeps ==
  ASSUME NEW p, NEW it, NEW qs, NEW p2, NEW it2, NEW qs2, Quiet(p, it, qs, p2, it2, qs2)
  PROVE  /\ Keeps(p, it, p2, it2)
         /\ ListsAre(p, it, qs) => ListsAre(p2, it2, qs2)
         /\ \A c \in FxCallSet : CallIs(p, it, qs, c) => CallIs(p2, it2, qs2, c)
<1>1. Keeps(p, it, p2, it2)
  BY DEF Quiet
<1>2. ASSUME ListsAre(p, it, qs), NEW e \in Animated PROVE ListIs(p2, it2, qs2[e], e)
  <2>1. ListIs(p2, it2, qs[e], e)
    BY <1>1, <1>2, ListKept DEF Quiet, ListsAre
  <2>2. ListIs(p2, it2, << >>, e)
    BY DEF ListIs
  <2> QED
    BY <2>1, <2>2 DEF Quiet
<1>3. ASSUME NEW c \in FxCallSet, CallIs(p, it, qs, c) PROVE CallIs(p2, it2, qs2, c)
  <2>1. ASSUME IsPlay(c), NEW e \in Animated PROVE Apart(qs2[e], c.rest)
    <3>1. Apart(qs[e], c.rest) /\ Apart(<< >>, c.rest)
      BY <1>3, <2>1 DEF CallIs, IsPlay, Apart
    <3> QED
      BY <3>1 DEF Quiet
  <2> QED
    BY <1>1, <1>3, <2>1, CallKept DEF Quiet
<1> QED
  BY <1>1, <1>2, <1>3 DEF ListsAre

(* The loops that wait do not wait for what runs on.                        *)
Settled(p, s) == s # << >> => s[1].call # "resolve" \/ p[s[1].item] # "running"

(* A loop that waits for an end waits for one that has been.                *)
LEMMA PendingKept ==
  ASSUME NEW p, NEW it, NEW qs, NEW s \in Seq(FxCallSet), NEW p2, NEW it2,
         StackIs(p, it, qs, s), Keeps(p, it, p2, it2),
         Settled(p2, s),
         NEW k \in DOMAIN s, Pends(s[k])
  PROVE  p2[s[k].timer] # "running"
<1> SUFFICES ASSUME p2[s[k].timer] = "running" PROVE FALSE
  OBVIOUS
<1>1. HasStarted(p, s[k].timer)
  BY DEF StackIs, CallIs, Pends
<1>2. p[s[k].timer] = "running"
  BY <1>1 DEF Keeps, HasStarted
<1>3. s[1] = Resolve(s[k].timer)
  BY <1>2 DEF StackIs
<1>4. s # << >>
  BY EmptySeq, LenProperties
<1> QED
  BY <1>2, <1>3, <1>4 DEF Resolve, Settled

(* Timers.                                                                  *)
LEMMA TimersKept ==
  ASSUME NEW p, NEW it, NEW ts, NEW p2, NEW it2, NEW ts2, TimersAre(p, it, ts),
         Keeps(p, it, p2, it2),
         \A n \in DOMAIN ts2 :
           \/ \E m \in DOMAIN ts : ts2[n] = ts[m]
           \/ HasStarted(p2, ts2[n]) /\ it2[ts2[n]].kind = "fade"
  PROVE  TimersAre(p2, it2, ts2)
<1>1. \A m \in DOMAIN ts : HasStarted(p2, ts[m]) /\ it2[ts[m]].kind = "fade"
  BY DEF TimersAre, Keeps, HasStarted
<1> QED
  BY <1>1 DEF TimersAre

(* What is in a sequence from which one place has been removed.             *)
LEMMA RemovedAt ==
  ASSUME NEW S, NEW ts \in Seq(S), NEW x \in DOMAIN ts
  PROVE  /\ RemoveAt(ts, x) \in Seq(S) /\ Len(RemoveAt(ts, x)) = Len(ts) - 1
         /\ \A n \in DOMAIN RemoveAt(ts, x) : \E m \in DOMAIN ts : RemoveAt(ts, x)[n] = ts[m]
         /\ \A m \in DOMAIN ts :
              m # x => \E n \in DOMAIN RemoveAt(ts, x) : RemoveAt(ts, x)[n] = ts[m]
<1> DEFINE a == SubSeq(ts, 1, x - 1)
           b == SubSeq(ts, x + 1, Len(ts))
<1>1. Len(ts) \in Nat /\ DOMAIN ts = 1 .. Len(ts) /\ x \in 1 .. Len(ts)
      /\ \A n \in 1 .. Len(ts) : ts[n] \in S
  BY LenProperties, ElementOfSeq
<1>2. /\ a \in Seq(S) /\ Len(a) = x - 1 /\ \A n \in 1 .. x - 1 : a[n] = ts[n]
  <2>1. \A n \in 1 .. x - 1 : ts[n] \in S
    BY <1>1
  <2> QED
    BY <1>1, <2>1, SubSeqProperties
<1>3. /\ b \in Seq(S) /\ Len(b) = Len(ts) - x /\ \A n \in 1 .. Len(ts) - x : b[n] = ts[x + n]
  <2>1. \A n \in x + 1 .. Len(ts) : ts[n] \in S
    BY <1>1
  <2> QED
    BY <1>1, <2>1, SubSeqProperties
<1> HIDE DEF a, b
<1>4. /\ a \o b \in Seq(S) /\ Len(a \o b) = Len(ts) - 1 /\ DOMAIN (a \o b) = 1 .. Len(ts) - 1
      /\ \A n \in 1 .. Len(ts) - 1 : (a \o b)[n] = IF n < x THEN ts[n] ELSE ts[n + 1]
  <2>1. /\ a \o b \in Seq(S) /\ Len(a \o b) = Len(a) + Len(b)
        /\ \A n \in 1 .. Len(a) + Len(b) :
             (a \o b)[n] = IF n <= Len(a) THEN a[n] ELSE b[n - Len(a)]
    BY <1>2, <1>3, ConcatProperties
  <2>2. Len(a) + Len(b) = Len(ts) - 1
    BY <1>1, <1>2, <1>3
  <2>3. DOMAIN (a \o b) = 1 .. Len(ts) - 1
    BY <2>1, <2>2, LenProperties
  <2>4. ASSUME NEW n \in 1 .. Len(ts) - 1, n < x PROVE (a \o b)[n] = ts[n]
    <3>1. n \in 1 .. x - 1 /\ n <= Len(a) /\ n \in 1 .. Len(a) + Len(b)
      BY <1>1, <1>2, <2>2, <2>4
    <3> QED
      BY <1>2, <2>1, <3>1
  <2>5. ASSUME NEW n \in 1 .. Len(ts) - 1, ~ n < x PROVE (a \o b)[n] = ts[n + 1]
    <3>1. n - Len(a) \in 1 .. Len(ts) - x /\ ~ (n <= Len(a)) /\ n \in 1 .. Len(a) + Len(b)
          /\ x + (n - Len(a)) = n + 1
      BY <1>1, <1>2, <2>2, <2>5
    <3> QED
      BY <1>3, <2>1, <3>1
  <2> QED
    BY <2>1, <2>2, <2>3, <2>4, <2>5
<1>5. RemoveAt(ts, x) = a \o b
  BY DEF RemoveAt, a, b
<1> DEFINE r == a \o b
<1>6. r \in Seq(S) /\ Len(r) = Len(ts) - 1 /\ DOMAIN r = 1 .. Len(ts) - 1
      /\ \A n \in 1 .. Len(ts) - 1 : r[n] = IF n < x THEN ts[n] ELSE ts[n + 1]
  BY <1>4
<1>7. RemoveAt(ts, x) = r
  BY <1>5
<1> HIDE DEF r
<1>8. \A n \in DOMAIN r : \E m \in DOMAIN ts : r[n] = ts[m]
  <2> SUFFICES ASSUME NEW n \in DOMAIN r PROVE \E m \in DOMAIN ts : r[n] = ts[m]
    OBVIOUS
  <2>1. n \in DOMAIN ts /\ n + 1 \in DOMAIN ts
    BY <1>1, <1>6
  <2> QED
    BY <1>6, <2>1
<1>9. \A m \in DOMAIN ts : m # x => \E n \in DOMAIN r : r[n] = ts[m]
  <2> SUFFICES ASSUME NEW m \in DOMAIN ts, m # x PROVE \E n \in DOMAIN r : r[n] = ts[m]
    OBVIOUS
  <2>1. CASE m < x
    <3>1. m \in 1 .. Len(ts) - 1
      BY <1>1, <2>1
    <3> QED
      BY <1>6, <2>1, <3>1
  <2>2. CASE m > x
    <3>1. m - 1 \in 1 .. Len(ts) - 1 /\ ~ (m - 1 < x) /\ (m - 1) + 1 = m
      BY <1>1, <2>2
    <3> QED
      BY <1>6, <3>1
  <2> QED
    BY <1>1, <2>1, <2>2
<1> QED
  BY <1>6, <1>7, <1>8, <1>9

(* A step that leaves what waits waiting keeps the calls below.             *)
Added(p, it, qs, s, above, d, s2) ==
  /\ \A k \in DOMAIN above : CallIs(p, it, qs, above[k]) /\ ~ IsPlay(above[k])
  /\ \A k \in DOMAIN above : above[k].call = "tick" => k = Len(above) /\ Len(s) = d
  /\ \A k \in DOMAIN above :
       Pends(above[k]) /\ p[above[k].timer] = "running" => s2[1] = Resolve(above[k].timer)

(* No call need be as it should be when none is added.                      *)
LEMMA NoneAdded ==
  ASSUME NEW p, NEW it, NEW qs, NEW s, NEW d, NEW s2
  PROVE  Added(p, it, qs, s, << >>, d, s2)
BY DEF Added

(* The stack is as it should be when nothing is started and what is added   *)
(* is.                                                                      *)
LEMMA QuietStack ==
  ASSUME NEW p, NEW it, NEW qs, NEW s \in Seq(FxCallSet), NEW p2, NEW it2, NEW qs2, NEW s2,
         NEW above \in Seq(FxCallSet), NEW d \in {0, 1}, d <= Len(s),
         StackIs(p, it, qs, s), After(s, above, d, s2), Quiet(p, it, qs, p2, it2, qs2),
         Added(p2, it2, qs2, s, above, d, s2),
         Settled(p2, s)
  PROVE  StackIs(p2, it2, qs2, s2)
<1>1. \A k \in DOMAIN s : CallIs(p2, it2, qs2, s[k])
  BY QuietKeeps, ElementOfSeq DEF StackIs
<1>2. \A k \in DOMAIN s : Pends(s[k]) => p2[s[k].timer] # "running"
  <2>1. Keeps(p, it, p2, it2)
    BY DEF Quiet
  <2> QED
    BY <2>1, PendingKept
<1>3. Stacked(p2, it2, qs2, s, above, d, s2)
  BY <1>1, <1>2 DEF Stacked, Added
<1> QED
  BY <1>3, StackKept

(* The loops of stop.                                                       *)
LoopIs(c, ts) ==
  /\ c.index <= Len(ts)
  /\ c.timer # NoItem => c.index > 0 /\ ts[c.index] = c.timer

Longer(ts, ts2) == Len(ts) <= Len(ts2) /\ \A n \in DOMAIN ts : ts2[n] = ts[n]

(* The loops of stop are where they think they are when timers are only     *)
(* added.                                                                   *)
LEMMA LoopsKept ==
  ASSUME NEW s \in Seq(FxCallSet), NEW s2, NEW above \in Seq(FxCallSet),
         NEW d \in {0, 1}, d <= Len(s), After(s, above, d, s2),
         NEW ts \in Seq(Items), NEW ts2 \in Seq(Items), LoopsAre(s, ts),
         \A k \in DOMAIN above : ~ IsStop(above[k]),
         Longer(ts, ts2)
  PROVE  LoopsAre(s2, ts2)
<1>1. \A k \in DOMAIN s2 : IsStop(s2[k]) => IsOld(s, above, d, s2, k)
  BY AfterIs DEF IsNew
<1>2. \A k, l \in DOMAIN s2 : IsStop(s2[k]) /\ IsStop(s2[l]) => k = l
  <2> SUFFICES ASSUME NEW k \in DOMAIN s2, NEW l \in DOMAIN s2, IsStop(s2[k]), IsStop(s2[l])
               PROVE  k = l
    OBVIOUS
  <2>1. At(above, d, k) = At(above, d, l)
    BY <1>1 DEF LoopsAre, IsOld
  <2> QED
    BY <2>1, AfterIs
<1>3. \A k \in DOMAIN s2 : IsStop(s2[k]) => LoopIs(s2[k], ts2)
  <2> SUFFICES ASSUME NEW k \in DOMAIN s2, IsStop(s2[k]) PROVE LoopIs(s2[k], ts2)
    OBVIOUS
  <2>1. PICK l \in DOMAIN s : s2[k] = s[l]
    BY <1>1 DEF IsOld
  <2>2. /\ s[l].index <= Len(ts)
        /\ s[l].timer # NoItem => s[l].index > 0 /\ ts[s[l].index] = s[l].timer
    BY <2>1 DEF LoopsAre
  <2>3. s[l] \in StopCalls
    BY <2>1, CallKinds, ElementOfSeq DEF IsStop
  <2>4. s[l].index \in Int /\ Len(ts) \in Nat /\ Len(ts2) \in Nat /\ DOMAIN ts = 1 .. Len(ts)
    BY <2>3, LenProperties DEF StopCalls
  <2> QED
    BY <2>1, <2>2, <2>4 DEF LoopIs, Longer
<1> QED
  BY <1>2, <1>3 DEF LoopsAre, LoopIs

(* So they are when the only one is among the calls that are new.           *)
LEMMA LoopsTop ==
  ASSUME NEW s \in Seq(FxCallSet), NEW s2, NEW above \in Seq(FxCallSet),
         NEW d \in {0, 1}, d <= Len(s), After(s, above, d, s2), NEW ts2,
         \A k \in DOMAIN s : k > d => ~ IsStop(s[k]),
         \A k, l \in DOMAIN above : IsStop(above[k]) /\ IsStop(above[l]) => k = l,
         \A k \in DOMAIN above : IsStop(above[k]) => LoopIs(above[k], ts2)
  PROVE  LoopsAre(s2, ts2)
<1>1. \A k \in DOMAIN s2 : IsStop(s2[k]) => IsNew(above, s2, k)
  <2> SUFFICES ASSUME NEW k \in DOMAIN s2, IsStop(s2[k]), IsOld(s, above, d, s2, k) PROVE FALSE
    BY AfterIs
  <2> QED
    BY DEF IsOld
<1> QED
  BY <1>1 DEF LoopsAre, LoopIs, IsNew

(* The same timers are as many.                                             *)
LEMMA SameIsLonger ==
  ASSUME NEW ts \in Seq(Items)
  PROVE  Longer(ts, ts)
BY LenProperties DEF Longer

(* Who takes the next item.                                                 *)
Mover(p, it, ds, i, e) ==
  p[i] = "running" /\ it[i].elem = e /\ (i \in ds \/ it[i].kind # "delay")

(* Who took the next item takes it still, but for the call that has         *)
(* returned.                                                                *)
LEMMA TakenKept ==
  ASSUME NEW s \in Seq(FxCallSet), NEW s2, NEW above \in Seq(FxCallSet),
         NEW d \in {0, 1}, d <= Len(s), After(s, above, d, s2),
         NEW p, NEW it, NEW ds, NEW p2, NEW it2, NEW ds2, NEW e,
         TakenBy(p, it, ds, s, e),
         \A i \in Items : Mover(p, it, ds, i, e) => TakenBy(p2, it2, ds2, s2, e),
         d = 1 /\ Takes(s[1], e) => TakenBy(p2, it2, ds2, s2, e)
  PROVE  TakenBy(p2, it2, ds2, s2, e)
<1>1. CASE \E i \in Items : Mover(p, it, ds, i, e)
  BY <1>1
<1>2. CASE \E k \in DOMAIN s : Takes(s[k], e)
  <2>1. PICK k \in DOMAIN s : Takes(s[k], e)
    BY <1>2
  <2>2. CASE k > d
    <3>1. \E n \in DOMAIN s2 : s2[n] = s[k]
      BY <2>2, AfterIs
    <3> QED
      BY <2>1, <3>1 DEF TakenBy
  <2>3. CASE ~ (k > d)
    <3>1. k = 1 /\ d = 1
      BY <2>3, LenProperties
    <3> QED
      BY <2>1, <3>1
  <2> QED
    BY <2>2, <2>3
<1> QED
  BY <1>1, <1>2 DEF TakenBy, Mover

(* What runs takes the next item when it ends.                              *)
LEMMA MoverTakes ==
  ASSUME NEW p, NEW it, NEW ds, NEW s, NEW e, NEW i \in Items, Mover(p, it, ds, i, e)
  PROVE  TakenBy(p, it, ds, s, e)
BY DEF TakenBy, Mover

(* A new call takes the next item.                                          *)
LEMMA CallTakes ==
  ASSUME NEW p, NEW it, NEW ds, NEW s \in Seq(FxCallSet), NEW above \in Seq(FxCallSet),
         NEW d \in {0, 1}, d <= Len(s), NEW s2, After(s, above, d, s2), NEW e,
         NEW k \in DOMAIN above, Takes(above[k], e)
  PROVE  TakenBy(p, it, ds, s2, e)
BY AfterIs DEF TakenBy

(* The call under way.                                                      *)
LEMMA OnTop ==
  ASSUME fxCalls \in Seq(FxCallSet), fxCalls # << >>
  PROVE  /\ 1 \in DOMAIN fxCalls /\ 1 <= Len(fxCalls)
         /\ Head(fxCalls) = fxCalls[1] /\ Head(fxCalls) \in FxCallSet
<1>1. Head(fxCalls) = fxCalls[1] /\ Head(fxCalls) \in FxCallSet
  BY HeadTailProperties
<1>2. Len(fxCalls) \in Nat /\ Len(fxCalls) # 0 /\ DOMAIN fxCalls = 1 .. Len(fxCalls)
  BY LenProperties, EmptySeq
<1> QED
  BY <1>1, <1>2

(* Calls one by one.                                                        *)
LEMMA Frames ==
  /\ \A e \in Animated : Dequeue(e) \in FxCallSet
  /\ \A i \in Items : Resolve(i) \in FxCallSet
  /\ Complete \in FxCallSet
  /\ \A over \in SUBSET Items : Ticking(over) \in FxCallSet
  /\ TickCalls \subseteq FxCallSet /\ StopCalls \subseteq FxCallSet
  /\ PlayCalls \subseteq FxCallSet
BY DEF FxCallSet, DequeueCalls, ResolveCalls, CompleteCalls, TickCalls, Dequeue, Resolve, Complete,
       Ticking

(* The stack of no calls.                                                   *)
LEMMA NoCalls ==
  /\ << >> \in Seq(FxCallSet) /\ Len(<< >>) = 0
  /\ \A k \in DOMAIN << >> : FALSE
OBVIOUS

(* The stack of one call.                                                   *)
LEMMA OneCall ==
  ASSUME NEW c \in FxCallSet
  PROVE  /\ <<c>> \in Seq(FxCallSet) /\ Len(<<c>>) = 1 /\ <<c>>[1] = c
         /\ 1 \in DOMAIN <<c>> /\ \A k \in DOMAIN <<c>> : k = 1 /\ <<c>>[k] = c
OBVIOUS

(* The stack of two calls.                                                  *)
LEMMA TwoCalls ==
  ASSUME NEW c \in FxCallSet, NEW d \in FxCallSet
  PROVE  /\ <<c, d>> \in Seq(FxCallSet) /\ Len(<<c, d>>) = 2
         /\ <<c, d>>[1] = c /\ <<c, d>>[2] = d /\ 1 \in DOMAIN <<c, d>> /\ 2 \in DOMAIN <<c, d>>
         /\ \A k \in DOMAIN <<c, d>> : (k = 1 /\ <<c, d>>[k] = c) \/ (k = 2 /\ <<c, d>>[k] = d)
OBVIOUS

(* What runs is moved still.                                                *)
LEMMA MovesKept ==
  ASSUME NEW p, NEW it, NEW ts, NEW id, NEW s, NEW p2, NEW it2, NEW ts2, NEW id2, NEW s2,
         Moves(p, it, ts, id, s), Keeps(p, it, p2, it2),
         Settled(p2, s),
         \A i \in Items : p2[i] = "running" /\ TimedBy(ts, id, i) => TimedBy(ts2, id2, i),
         \A i \in Items :
           p2[i] = "running" /\ p[i] # "running" /\ it2[i].kind # "delay" =>
             TimedBy(ts2, id2, i) \/ EndsNext(s2, i)
  PROVE  Moves(p2, it2, ts2, id2, s2)
<1> SUFFICES ASSUME NEW i \in Items, p2[i] = "running", it2[i].kind # "delay", p[i] = "running"
             PROVE  TimedBy(ts2, id2, i) \/ EndsNext(s2, i)
  BY DEF Moves
<1>1. it2[i] = it[i]
  BY DEF Keeps
<1>2. ~ EndsNext(s, i)
  BY DEF Resolve, EndsNext, Settled
<1> QED
  BY <1>1, <1>2 DEF Moves

(* Nothing but calls and timers changes.                                    *)
LEMMA SameIsQuiet ==
  ASSUME NEW p, NEW it, NEW qs
  PROVE  Keeps(p, it, p, it) /\ Quiet(p, it, qs, p, it, qs)
BY DEF Keeps, Quiet

(* What runs is left as it is, and queues and hooks are emptied at most:    *)
(* all that matters is who takes the next item.                             *)
GoesOn(above, d) ==
  /\ LoopsAre(fxCalls, fxTimers)'
  /\ \A i \in Items :
       progress[i] = "running" /\ TimedBy(fxTimers, timerId, i) =>
         TimedBy(fxTimers', timerId', i)
  /\ \A e \in Animated :
       queues'[e] # << >> =>
         /\ \A i \in timeouts \ timeouts' :
              item[i].elem = e => TakenBy(progress, item, timeouts', fxCalls', e)
         /\ d = 1 /\ Takes(fxCalls[1], e) => TakenBy(progress, item, timeouts', fxCalls', e)

FewerWait ==
  \A e \in Animated : queues'[e] \in {queues[e], << >>} /\ hook'[e] \in {hook[e], NoItem}

(* The invariant holds after a step that starts and ends nothing, may       *)
(* empty queues and may remove timers or delays, when the stack is right    *)
(* and, while nothing is nested, what moves the rest goes on.               *)
LEMMA SameItems ==
  ASSUME EffectsInv, FxTypes',
         progress' = progress, item' = item, fxCompleted' = fxCompleted, FewerWait,
         ~ nested' => ~ nested,
         NEW above \in Seq(FxCallSet), NEW d \in {0, 1}, d <= Len(fxCalls),
         After(fxCalls, above, d, fxCalls'), Settled(progress, fxCalls),
         StackIs(progress, item, queues, fxCalls)',
         \A n \in DOMAIN fxTimers' : \E m \in DOMAIN fxTimers : fxTimers'[n] = fxTimers[m],
         timeouts' \subseteq timeouts,
         ~ nested' => GoesOn(above, d)
  PROVE  EffectsInv'
<1>1. /\ Quiet(progress, item, queues, progress, item, queues')
      /\ Keeps(progress, item, progress, item)
  BY DEF Quiet, Keeps, FewerWait
<1>2. ListsAre(progress, item, queues)'
  BY <1>1, QuietKeeps DEF EffectsInv
<1>3. TimersAre(progress, item, fxTimers)'
  BY DEF TimersAre, EffectsInv
<1>4. DelaysAre(progress, item, hook, timeouts)' /\ CompletesOnce'
  BY DEF DelaysAre, EffectsInv, CompletesOnce, FewerWait
<1>5. ASSUME ~ nested'
      PROVE  /\ Moves(progress, item, fxTimers, timerId, fxCalls)'
             /\ Taken(progress, item, queues, timeouts, fxCalls)'
  <2>1. Moves(progress, item, fxTimers', timerId', fxCalls')
    <3>1. Moves(progress, item, fxTimers, timerId, fxCalls)
      BY <1>5 DEF EffectsInv
    <3>2. \A i \in Items :
            progress[i] = "running" /\ TimedBy(fxTimers, timerId, i) =>
              TimedBy(fxTimers', timerId', i)
      BY <1>5 DEF GoesOn
    <3> QED
      BY <1>1, <3>1, <3>2, MovesKept
  <2>2. ASSUME NEW e \in Animated, queues'[e] # << >>
        PROVE  TakenBy(progress, item, timeouts', fxCalls', e)
    <3>1. TakenBy(progress, item, timeouts, fxCalls, e)
      BY <1>5, <2>2 DEF EffectsInv, Taken, FewerWait
    <3>2. \A i \in Items :
            Mover(progress, item, timeouts, i, e) => TakenBy(progress, item, timeouts', fxCalls', e)
      <4> SUFFICES ASSUME NEW i \in Items, Mover(progress, item, timeouts, i, e)
                   PROVE  TakenBy(progress, item, timeouts', fxCalls', e)
        OBVIOUS
      <4>1. CASE Mover(progress, item, timeouts', i, e)
        BY <4>1, MoverTakes
      <4>2. CASE ~ Mover(progress, item, timeouts', i, e)
        BY <1>5, <2>2, <4>2 DEF Mover, GoesOn
      <4> QED
        BY <4>1, <4>2
    <3>3. d = 1 /\ Takes(fxCalls[1], e) => TakenBy(progress, item, timeouts', fxCalls', e)
      BY <1>5, <2>2 DEF GoesOn
    <3>4. fxCalls \in Seq(FxCallSet)
      BY DEF EffectsInv, FxTypes
    <3> QED
      BY <3>1, <3>2, <3>3, <3>4, TakenKept
  <2> QED
    BY <2>1, <2>2 DEF Taken
<1> QED
  BY <1>2, <1>3, <1>4, <1>5 DEF EffectsInv, GoesOn

(* So it does when the calls that are added are right.                      *)
LEMMA FewerStack ==
  ASSUME EffectsInv, FxTypes',
         progress' = progress, item' = item, fxCompleted' = fxCompleted, FewerWait,
         ~ nested' => ~ nested,
         NEW above \in Seq(FxCallSet), NEW d \in {0, 1}, d <= Len(fxCalls),
         After(fxCalls, above, d, fxCalls'), Settled(progress, fxCalls),
         Added(progress, item, queues', fxCalls, above, d, fxCalls'),
         \A n \in DOMAIN fxTimers' : \E m \in DOMAIN fxTimers : fxTimers'[n] = fxTimers[m],
         timeouts' \subseteq timeouts,
         ~ nested' => GoesOn(above, d)
  PROVE  EffectsInv'
<1>1. Quiet(progress, item, queues, progress, item, queues')
  BY DEF Quiet, Keeps, FewerWait
<1>2. fxCalls \in Seq(FxCallSet) /\ StackIs(progress, item, queues, fxCalls)
  BY DEF EffectsInv, FxTypes
<1>3. StackIs(progress, item, queues', fxCalls')
  BY <1>1, <1>2, QuietStack
<1>4. StackIs(progress, item, queues, fxCalls)'
  BY <1>3
<1> QED
  BY <1>4, SameItems

(* So it does when the queues stay as they are.                             *)
LEMMA SameStack ==
  ASSUME EffectsInv, FxTypes',
         progress' = progress, item' = item, queues' = queues, hook' = hook,
         fxCompleted' = fxCompleted, nested' = nested,
         NEW above \in Seq(FxCallSet), NEW d \in {0, 1}, d <= Len(fxCalls),
         After(fxCalls, above, d, fxCalls'), Settled(progress, fxCalls),
         Added(progress, item, queues, fxCalls, above, d, fxCalls'),
         \A n \in DOMAIN fxTimers' : \E m \in DOMAIN fxTimers : fxTimers'[n] = fxTimers[m],
         timeouts' \subseteq timeouts,
         ~ nested => GoesOn(above, d)
  PROVE  EffectsInv'
<1>1. FewerWait /\ (~ nested' => ~ nested) /\ (~ nested' => GoesOn(above, d))
  BY DEF FewerWait
<1>2. Added(progress, item, queues', fxCalls, above, d, fxCalls')
  OBVIOUS
<1> QED
  BY <1>1, <1>2, FewerStack

(* So it does when only the stack changes.                                  *)
LEMMA SameTimers ==
  ASSUME EffectsInv,
         UNCHANGED <<item, progress, queueVars, timerVars, stops, fxCompleted, nested>>,
         NEW above \in Seq(FxCallSet), NEW d \in {0, 1}, d <= Len(fxCalls),
         After(fxCalls, above, d, fxCalls'), Settled(progress, fxCalls),
         Added(progress, item, queues, fxCalls, above, d, fxCalls'),
         \A k \in DOMAIN above : above[k].call # "stop",
         d = 1 => fxCalls[1].call \notin {"dequeue", "stop"}
  PROVE  EffectsInv'
<1> USE DEF queueVars, timerVars
<1>1. FxTypes'
  BY DEF EffectsInv, FxTypes, After
<1>2. ASSUME ~ nested PROVE GoesOn(above, d)
  <2>1. LoopsAre(fxCalls, fxTimers)'
    <3>1. \A k \in DOMAIN above : ~ IsStop(above[k])
      BY DEF IsStop
    <3>2. LoopsAre(fxCalls, fxTimers) /\ fxTimers \in Seq(Items) /\ fxCalls \in Seq(FxCallSet)
      BY <1>2 DEF EffectsInv, FxTypes
    <3> QED
      BY <3>1, <3>2, SameIsLonger, LoopsKept
  <2>2. \A e \in Animated : d = 1 => ~ Takes(fxCalls[1], e)
    BY DEF Takes, IsStop, Dequeue
  <2> QED
    BY <2>1, <2>2 DEF GoesOn
<1>3. \A n \in DOMAIN fxTimers' : \E m \in DOMAIN fxTimers : fxTimers'[n] = fxTimers[m]
  OBVIOUS
<1> QED
  BY <1>1, <1>2, <1>3, SameStack

(* A handler returns.                                                       *)
LEMMA CompleteReturnsKeeps ==
  ASSUME EffectsInv, CompleteReturns
  PROVE  EffectsInv'
<1>1. /\ fxCalls \in Seq(FxCallSet) /\ fxCalls # << >> /\ fxCalls[1].call = "complete"
      /\ 1 <= Len(fxCalls)
  BY OnTop DEF EffectsInv, FxTypes, CompleteReturns, Calling
<1>2. After(fxCalls, << >>, 1, fxCalls')
  BY <1>1, NoCalls, Returned DEF CompleteReturns, ReturnWith
<1>3. Settled(progress, fxCalls) /\ fxCalls[1].call \notin {"dequeue", "stop"}
  BY <1>1 DEF Settled
<1>4. UNCHANGED <<item, progress, queueVars, timerVars, stops, fxCompleted, nested>>
  BY DEF CompleteReturns
<1> QED
  BY <1>1, <1>2, <1>3, <1>4, NoCalls, NoneAdded, SameTimers

(* An animation ends, or has ended before.                                  *)
LEMMA ResolveKeeps ==
  ASSUME EffectsInv, resolve
  PROVE  EffectsInv'
<1> DEFINE i == Head(fxCalls).item
<1>1. /\ fxCalls \in Seq(FxCallSet) /\ fxCalls # << >> /\ fxCalls[1] = Resolve(i)
      /\ 1 <= Len(fxCalls) /\ fxCalls[1].call = "resolve" /\ fxCalls[1].item = i
      /\ i \in Items /\ item[i].kind \in {"fade", "instant"} /\ HasStarted(progress, i)
  <2>1. /\ fxCalls \in Seq(FxCallSet) /\ fxCalls # << >> /\ Head(fxCalls).call = "resolve"
    BY DEF EffectsInv, FxTypes, resolve, Calling
  <2>2. /\ 1 \in DOMAIN fxCalls /\ 1 <= Len(fxCalls) /\ Head(fxCalls) = fxCalls[1]
        /\ Head(fxCalls) \in FxCallSet
    BY <2>1, OnTop
  <2>3. Head(fxCalls) \in ResolveCalls /\ Head(fxCalls) = Resolve(i)
    BY <2>1, <2>2, CallKinds
  <2>4. CallIs(progress, item, queues, fxCalls[1])
    BY <2>2 DEF EffectsInv, StackIs
  <2> QED
    BY <2>1, <2>2, <2>3, <2>4 DEF ResolveCalls, CallIs
<1> HIDE DEF i
<1> USE DEF queueVars, timerVars
<1>2. CASE progress[i] = "running"
  <2> DEFINE above == <<Complete, Dequeue(item[i].elem)>>
  <2>1. Completing(i)
    BY <1>2 DEF resolve, Running, i
  <2>2. /\ item[i].elem \in Animated /\ item[i].kind # "delay"
        /\ progress' = [progress EXCEPT ![i] = "resolved"] /\ progress \in FxProgress
    BY <1>1, <2>1 DEF EffectsInv, FxTypes, FxItems, Completing
  <2>3. /\ Complete \in FxCallSet /\ Dequeue(item[i].elem) \in FxCallSet
        /\ Complete.call = "complete" /\ Dequeue(item[i].elem).call = "dequeue"
    BY <2>2, Frames DEF Complete, Dequeue
  <2>4. /\ above \in Seq(FxCallSet) /\ 2 \in DOMAIN above /\ above[2] = Dequeue(item[i].elem)
        /\ \A k \in DOMAIN above : above[k].call \in {"complete", "dequeue"}
    BY <2>3, TwoCalls
  <2>5. After(fxCalls, above, 1, fxCalls')
    BY <1>1, <2>1, <2>4, Returned DEF Completing, ReturnWith
  <2> HIDE DEF above
  <2>6. progress' \in FxProgress /\ progress'[i] = "resolved" /\ item' = item /\ queues' = queues
        /\ \A j \in Items : j # i => progress'[j] = progress[j]
    BY <1>1, <2>1, <2>2 DEF FxProgress, Completing
  <2>16. Settled(progress', fxCalls)
    BY <1>1, <2>6 DEF Settled
  <2>7. Quiet(progress, item, queues, progress', item', queues')
    BY <1>2, <2>6 DEF Quiet, Keeps, HasStarted
  <2>8. FxTypes'
    <3>1. fxCompleted' \in [Items -> Nat]
      BY <1>1, <2>1 DEF Completing, EffectsInv, FxTypes
    <3> QED
      BY <2>1, <2>5, <2>6, <3>1 DEF Completing, EffectsInv, FxTypes, After
  <2>9. StackIs(progress, item, queues, fxCalls)'
    <3>1. \A k \in DOMAIN above :
            /\ CallIs(progress', item', queues', above[k]) /\ ~ IsPlay(above[k])
            /\ above[k].call # "tick" /\ ~ Pends(above[k])
      BY <2>4 DEF CallIs, IsPlay, Pends
    <3>2. Added(progress', item', queues', fxCalls, above, 1, fxCalls')
      BY <3>1 DEF Added
    <3> QED
      BY <1>1, <2>4, <2>5, <2>6, <2>7, <2>16, <3>2, QuietStack DEF EffectsInv
  <2>10. ListsAre(progress, item, queues)'
    BY <2>7, QuietKeeps DEF EffectsInv
  <2>11. TimersAre(progress, item, fxTimers)'
    BY <2>1, <2>7, TimersKept DEF EffectsInv, Completing, Quiet
  <2>12. DelaysAre(progress, item, hook, timeouts)'
    <3>1. \A j \in timeouts : progress'[j] = "running" /\ item[j].kind = "delay"
      BY <2>2, <2>6 DEF EffectsInv, FxTypes, DelaysAre
    <3>2. \A e \in Animated :
            hook[e] # NoItem => HasStarted(progress', hook[e]) /\ item[hook[e]].elem = e
      BY <2>7, <2>6 DEF EffectsInv, DelaysAre, Quiet, Keeps, HasStarted
    <3> QED
      BY <2>1, <3>1, <3>2 DEF DelaysAre, Completing
  <2>13. CompletesOnce'
    <3>1. \A j \in Items : fxCompleted'[j] = IF j = i THEN fxCompleted[i] + 1 ELSE fxCompleted[j]
      BY <1>1, <2>1 DEF Completing, EffectsInv, FxTypes
    <3>2. fxCompleted[i] = 0
      BY <1>1, <1>2 DEF EffectsInv, CompletesOnce
    <3> QED
      BY <1>1, <2>6, <3>1, <3>2 DEF EffectsInv, CompletesOnce
  <2>14. ASSUME ~ nested
         PROVE  /\ LoopsAre(fxCalls, fxTimers)'
                /\ Moves(progress, item, fxTimers, timerId, fxCalls)'
                /\ Taken(progress, item, queues, timeouts, fxCalls)'
    <3>1. LoopsAre(fxCalls, fxTimers)'
      <4>1. \A k \in DOMAIN above : ~ IsStop(above[k])
        BY <2>4 DEF IsStop
      <4>2. fxTimers' = fxTimers /\ fxTimers \in Seq(Items) /\ LoopsAre(fxCalls, fxTimers)
        BY <2>1, <2>14 DEF EffectsInv, FxTypes, Completing
      <4> QED
        BY <1>1, <2>4, <2>5, <4>1, <4>2, SameIsLonger, LoopsKept
    <3>2. Moves(progress, item, fxTimers, timerId, fxCalls)'
      <4>1. /\ fxTimers' = fxTimers /\ timerId' = timerId
            /\ Moves(progress, item, fxTimers, timerId, fxCalls)
        BY <2>1, <2>14 DEF EffectsInv, Completing
      <4>2. Keeps(progress, item, progress', item')
        BY <2>7 DEF Quiet
      <4> QED
        BY <1>1, <2>6, <2>16, <4>1, <4>2, MovesKept
    <3>3. ASSUME NEW e \in Animated, queues[e] # << >>
          PROVE  TakenBy(progress', item', timeouts', fxCalls', e)
      <4>1. TakenBy(progress, item, timeouts, fxCalls, e)
        BY <2>14, <3>3 DEF EffectsInv, Taken
      <4>2. CASE e = item[i].elem
        <5>1. Takes(above[2], e)
          BY <2>4, <4>2 DEF Takes
        <5> QED
          BY <1>1, <2>4, <2>5, <5>1, CallTakes
      <4>3. CASE e # item[i].elem
        <5>1. ~ Takes(fxCalls[1], e)
          BY <1>1 DEF Takes, IsStop, Dequeue
        <5>2. \A j \in Items :
                Mover(progress, item, timeouts, j, e) => Mover(progress', item', timeouts', j, e)
          BY <2>1, <2>6, <4>3 DEF Mover, Completing
        <5> QED
          BY <1>1, <2>4, <2>5, <4>1, <5>1, <5>2, MoverTakes, TakenKept
      <4> QED
        BY <4>2, <4>3
    <3> QED
      BY <2>6, <3>1, <3>2, <3>3 DEF Taken
  <2>15. nested' = nested
    BY <2>1 DEF Completing
  <2> QED
    BY <2>8, <2>9, <2>10, <2>11, <2>12, <2>13, <2>14, <2>15 DEF EffectsInv
<1>3. CASE progress[i] # "running"
  <2>1. /\ fxCalls' = << >> \o Tail(fxCalls)
        /\ UNCHANGED <<item, progress, queueVars, timerVars, stops, fxCompleted, nested>>
    BY <1>3 DEF resolve, Running, ReturnWith, i
  <2>6. Settled(progress, fxCalls)
    BY <1>1, <1>3 DEF Settled
  <2>2. After(fxCalls, << >>, 1, fxCalls')
    BY <1>1, <2>1, NoCalls, Returned
  <2>3. fxCalls[1].call \notin {"dequeue", "stop"}
    BY <1>1
  <2> QED
    BY <1>1, <2>1, <2>2, <2>3, <2>6, NoCalls, NoneAdded, SameTimers
<1> QED
  BY <1>2, <1>3

(* The interval starts its round.                                           *)
LEMMA FirstCall ==
  ASSUME fxCalls = << >>, NEW c \in FxCallSet, fxCalls' = <<c>>
  PROVE  /\ After(fxCalls, <<c>>, 0, fxCalls') /\ Settled(progress, fxCalls)
         /\ fxCalls \in Seq(FxCallSet) /\ Len(fxCalls) = 0
<1>1. <<c>> \in Seq(FxCallSet) /\ fxCalls \in Seq(FxCallSet)
  BY OneCall
<1>2. fxCalls' = <<c>> \o fxCalls
  BY <1>1, ConcatEmptySeq
<1> QED
  BY <1>1, <1>2, Pushed DEF Settled

(* The interval fires.                                                      *)
LEMMA TickKeeps ==
  ASSUME EffectsInv, tick
  PROVE  EffectsInv'
<1>1. PICK over \in SUBSET {i \in ToSet(fxTimers) : Running(i)} : fxCalls' = <<Ticking(over)>>
  BY DEF tick
<1>2. fxCalls = << >>
      /\ UNCHANGED <<item, progress, queueVars, timerVars, stops, fxCompleted, nested>>
  BY DEF tick
<1>3. over \in SUBSET Items
  <2>1. \A i \in ToSet(fxTimers) : i \in Items
    BY ElementOfSeq DEF ToSet, EffectsInv, FxTypes
  <2> QED
    BY <2>1
<1> DEFINE c == Ticking(over)
<1>4. c \in FxCallSet /\ c.call = "tick" /\ c.timer = NoItem
  BY <1>3, Frames DEF Ticking
<1>5. fxCalls' = <<c>>
  BY <1>1
<1> HIDE DEF c
<1>6. /\ After(fxCalls, <<c>>, 0, fxCalls') /\ Settled(progress, fxCalls)
      /\ Len(fxCalls) = 0
  BY <1>2, <1>4, <1>5, FirstCall
<1>7. /\ <<c>> \in Seq(FxCallSet) /\ Len(<<c>>) = 1
      /\ \A k \in DOMAIN <<c>> : k = 1 /\ <<c>>[k] = c
  BY <1>4, OneCall
<1>8. Added(progress, item, queues, fxCalls, <<c>>, 0, fxCalls')
  BY <1>4, <1>6, <1>7 DEF Added, CallIs, IsPlay, Pends
<1>9. \A k \in DOMAIN <<c>> : <<c>>[k].call # "stop"
  BY <1>4, <1>7
<1>10. 0 <= Len(fxCalls) /\ (0 = 1 => fxCalls[1].call \notin {"dequeue", "stop"})
  BY <1>6
<1> QED
  BY <1>2, <1>6, <1>7, <1>8, <1>9, <1>10, SameTimers

(* A delay is over.                                                         *)
LEMMA DelayEndsKeeps ==
  ASSUME EffectsInv, DelayEnds
  PROVE  EffectsInv'
<1>1. PICK i \in timeouts :
        timeouts' = timeouts \ {i} /\ fxCalls' = <<Dequeue(item[i].elem)>>
  BY DEF DelayEnds
<1>2. /\ fxCalls = << >>
      /\ UNCHANGED <<item, progress, queues, hook, finishing, fxTimers, timerId, stops, fxCompleted,
                     nested>>
  BY DEF DelayEnds, queueVars
<1> DEFINE e == item[i].elem
           c == Dequeue(e)
<1>3. e \in Animated
  <2>1. i \in Items /\ item[i].kind = "delay"
    BY DEF EffectsInv, FxTypes, DelaysAre
  <2>2. item[i] \in {[kind |-> "none", elem |-> NoItem]}
                    \cup [kind : {"fade", "instant", "delay"}, elem : Animated]
    BY <2>1 DEF EffectsInv, FxTypes, FxItems
  <2> QED
    BY <2>1, <2>2
<1> HIDE DEF e
<1>4. c \in FxCallSet /\ c.call = "dequeue" /\ fxCalls' = <<c>> /\ c = Dequeue(e)
  BY <1>1, <1>3, Frames DEF Dequeue, e
<1> HIDE DEF c
<1>5. /\ After(fxCalls, <<c>>, 0, fxCalls') /\ Settled(progress, fxCalls)
      /\ Len(fxCalls) = 0 /\ 0 <= Len(fxCalls) /\ fxCalls \in Seq(FxCallSet)
  BY <1>2, <1>4, FirstCall
<1>6. /\ <<c>> \in Seq(FxCallSet) /\ Len(<<c>>) = 1 /\ <<c>>[1] = c /\ 1 \in DOMAIN <<c>>
      /\ \A k \in DOMAIN <<c>> : k = 1 /\ <<c>>[k] = c
  BY <1>4, OneCall
<1>7. Added(progress, item, queues, fxCalls, <<c>>, 0, fxCalls')
  BY <1>4, <1>6 DEF Added, CallIs, IsPlay, Pends
<1>8. FxTypes'
  BY <1>1, <1>2, <1>5 DEF EffectsInv, FxTypes, After
<1>9. ASSUME ~ nested PROVE GoesOn(<<c>>, 0)
  <2>1. LoopsAre(fxCalls, fxTimers)'
    <3>1. \A k \in DOMAIN <<c>> : ~ IsStop(<<c>>[k])
      BY <1>4, <1>6 DEF IsStop
    <3>2. LoopsAre(fxCalls, fxTimers) /\ fxTimers \in Seq(Items) /\ fxTimers' = fxTimers
      BY <1>2, <1>9 DEF EffectsInv, FxTypes
    <3> QED
      BY <1>5, <1>6, <3>1, <3>2, SameIsLonger, LoopsKept
  <2>2. \A j \in timeouts \ timeouts' : item[j].elem = e
    BY <1>1 DEF e
  <2>3. TakenBy(progress, item, timeouts', fxCalls', e)
    <3>1. Takes(<<c>>[1], e)
      BY <1>4, <1>6 DEF Takes
    <3> QED
      BY <1>5, <1>6, <3>1, CallTakes
  <2> QED
    BY <1>2, <2>1, <2>2, <2>3 DEF GoesOn
<1>10. /\ \A n \in DOMAIN fxTimers' : \E m \in DOMAIN fxTimers : fxTimers'[n] = fxTimers[m]
       /\ timeouts' \subseteq timeouts
  BY <1>1, <1>2
<1> QED
  BY <1>2, <1>5, <1>6, <1>7, <1>8, <1>9, <1>10, SameStack

(* The loops, turn by turn.                                                 *)
LEMMA TickTurns ==
  ASSUME NEW c \in TickCalls, NEW i \in Items
  PROVE  /\ [c EXCEPT !.timer = NoItem] \in TickCalls
         /\ [c EXCEPT !.timer = i] \in TickCalls
         /\ [c EXCEPT !.index = @ + 1, !.timer = NoItem] \in TickCalls
         /\ [c EXCEPT !.timer = NoItem].timer = NoItem
         /\ [c EXCEPT !.timer = i].timer = i
         /\ [c EXCEPT !.index = @ + 1, !.timer = NoItem].timer = NoItem
<1>1. PICK over \in SUBSET Items, index \in Nat \ {0}, timer \in Items \cup {NoItem} :
        c = [call |-> "tick", over |-> over, index |-> index, timer |-> timer]
  BY DEF TickCalls
<1>2. /\ [c EXCEPT !.timer = NoItem] =
           [call |-> "tick", over |-> over, index |-> index, timer |-> NoItem]
      /\ [c EXCEPT !.timer = i] =
           [call |-> "tick", over |-> over, index |-> index, timer |-> i]
  BY <1>1
<1>3. [c EXCEPT !.index = @ + 1, !.timer = NoItem] =
        [call |-> "tick", over |-> over, index |-> index + 1, timer |-> NoItem]
  <2> DEFINE d == [call |-> "tick", over |-> over, index |-> index + 1, timer |-> timer]
  <2>1. [c EXCEPT !.index = @ + 1, !.timer = NoItem] =
          [[c EXCEPT !.index = @ + 1] EXCEPT !.timer = NoItem]
    OBVIOUS
  <2>2. [c EXCEPT !.index = @ + 1] = d
    BY <1>1
  <2>3. [d EXCEPT !.timer = NoItem] =
          [call |-> "tick", over |-> over, index |-> index + 1, timer |-> NoItem]
    OBVIOUS
  <2> HIDE DEF d
  <2> QED
    BY <2>1, <2>2, <2>3, Zenon
<1> QED
  BY <1>2, <1>3 DEF TickCalls

GoesOnLoop(c) == [c EXCEPT !.index = @ - 1, !.timer = NoItem]
WaitsFor(c, i) == [c EXCEPT !.dequeue = FALSE, !.timer = i]
WithoutDequeue(c) == [c EXCEPT !.dequeue = FALSE]

(* The loop of stop at the timer before.                                    *)
LEMMA StopGoesOn ==
  ASSUME NEW c \in StopCalls
  PROVE  LET next == GoesOnLoop(c)
         IN  /\ next \in StopCalls /\ next.index = c.index - 1 /\ next.timer = NoItem
             /\ next.elem = c.elem /\ next.gotoEnd = c.gotoEnd
             /\ \A e : Takes(next, e) <=> Takes(c, e)
<1> DEFINE next == GoesOnLoop(c)
<1>0. next = [c EXCEPT !.index = @ - 1, !.timer = NoItem]
  BY DEF GoesOnLoop
<1> HIDE DEF next
<1>1. /\ next.index = c.index - 1 /\ next.timer = NoItem /\ next.elem = c.elem
      /\ next.dequeue = c.dequeue /\ next.gotoEnd = c.gotoEnd /\ next.call = "stop"
  BY <1>0 DEF StopCalls
<1>2. next \in StopCalls
  <2>1. PICK n \in Int : n = c.index - 1
    BY DEF StopCalls
  <2>2. next = [c EXCEPT !.index = n, !.timer = NoItem]
    BY <1>0, <2>1
  <2> QED
    BY <2>2 DEF StopCalls
<1>3. c.call = "stop"
  BY DEF StopCalls
<1>4. \A e : Takes(next, e) <=> Takes(c, e)
  BY <1>1, <1>3 DEF Takes, IsStop, Dequeue
<1> QED
  BY <1>1, <1>2, <1>4, Zenon DEF next

(* The loop of stop while an animation ends.                                *)
LEMMA StopWaits ==
  ASSUME NEW c \in StopCalls, NEW i \in Items
  PROVE  WaitsFor(c, i) \in StopCalls /\ WaitsFor(c, i).index = c.index /\ WaitsFor(c, i).timer = i
<1>1. ASSUME NEW ends, ends = [c EXCEPT !.dequeue = FALSE, !.timer = i]
      PROVE  ends \in StopCalls /\ ends.index = c.index /\ ends.timer = i
  BY <1>1 DEF StopCalls
<1> QED
  BY <1>1, Zenon DEF WaitsFor

(* The loop of stop when it need not take the next item: it does when it    *)
(* does not go to the end.                                                  *)
LEMMA StopCuts ==
  ASSUME NEW c \in StopCalls
  PROVE  LET cuts == WithoutDequeue(c)
         IN  /\ cuts \in StopCalls /\ cuts.index = c.index /\ cuts.timer = c.timer
             /\ ~ c.gotoEnd => Takes(cuts, c.elem)
<1> DEFINE cuts == WithoutDequeue(c)
<1>1. cuts = [c EXCEPT !.dequeue = FALSE]
  BY DEF WithoutDequeue
<1> HIDE DEF cuts
<1>2. /\ cuts \in StopCalls /\ cuts.index = c.index /\ cuts.timer = c.timer
      /\ cuts.elem = c.elem /\ cuts.gotoEnd = c.gotoEnd /\ cuts.call = "stop"
  BY <1>1 DEF StopCalls
<1>3. ~ c.gotoEnd => Takes(cuts, c.elem)
  BY <1>2 DEF Takes, IsStop
<1> QED
  BY <1>2, <1>3, Zenon DEF cuts

(* A turn of the interval's loop.                                           *)
LEMMA RunTimersKeeps ==
  ASSUME EffectsInv, RunTimers
  PROVE  EffectsInv'
<1> DEFINE c == Head(fxCalls)
           i == fxTimers[c.index]
           there == c.index \in DOMAIN fxTimers
<1>1. /\ fxCalls \in Seq(FxCallSet) /\ fxCalls # << >> /\ fxCalls[1] = c
      /\ 1 <= Len(fxCalls) /\ c.call = "tick" /\ c \in TickCalls /\ 1 = Len(fxCalls)
      /\ c \in FxCallSet
  <2>1. /\ fxCalls \in Seq(FxCallSet) /\ fxCalls # << >> /\ Head(fxCalls).call = "tick"
    BY DEF EffectsInv, FxTypes, RunTimers, Calling
  <2>2. /\ 1 \in DOMAIN fxCalls /\ 1 <= Len(fxCalls) /\ Head(fxCalls) = fxCalls[1]
        /\ Head(fxCalls) \in FxCallSet
    BY <2>1, OnTop
  <2>3. Head(fxCalls) \in TickCalls
    BY <2>1, <2>2, CallKinds
  <2>4. 1 = Len(fxCalls)
    BY <2>1, <2>2 DEF EffectsInv, StackIs
  <2> QED
    BY <2>1, <2>2, <2>3, <2>4
<1>2. /\ Settled(progress, fxCalls) /\ c.call \notin {"dequeue", "stop"}
  BY <1>1 DEF Settled
<1>3. UNCHANGED <<item, progress, queueVars, timeouts, stops, fxCompleted, nested>>
  BY DEF RunTimers
<1>4. /\ c.timer # NoItem => HasStarted(progress, c.timer)
      /\ c.timer # NoItem => progress[c.timer] # "running"
  <2>1. 1 \in DOMAIN fxCalls
    BY <1>1, OnTop
  <2>2. CallIs(progress, item, queues, fxCalls[1])
    BY <2>1 DEF EffectsInv, StackIs
  <2>3. Pends(fxCalls[1]) /\ progress[fxCalls[1].timer] = "running" =>
          fxCalls[1] = Resolve(fxCalls[1].timer)
    BY <2>1 DEF EffectsInv, StackIs
  <2> QED
    BY <1>1, <2>2, <2>3 DEF CallIs, Pends, Resolve
<1> HIDE DEF c
<1>5. ASSUME there PROVE i \in Items /\ HasStarted(progress, i) /\ item[i].kind = "fade"
  BY <1>5 DEF EffectsInv, TimersAre, HasStarted
<1>6. fxTimers \in Seq(Items)
  BY DEF EffectsInv, FxTypes
<1> HIDE DEF i, there
<1> USE DEF queueVars, timerVars
<1>7. ASSUME NEW d \in TickCalls, ReturnWith(<<d>>), UNCHANGED <<fxTimers, timerId>>,
             d.timer = NoItem
      PROVE  EffectsInv'
  <2>1. d \in FxCallSet /\ d.call = "tick"
    BY <1>7, Frames DEF TickCalls
  <2>2. /\ <<d>> \in Seq(FxCallSet) /\ Len(<<d>>) = 1
        /\ \A k \in DOMAIN <<d>> : k = 1 /\ <<d>>[k] = d
    BY <2>1, OneCall
  <2>3. After(fxCalls, <<d>>, 1, fxCalls')
    BY <1>1, <1>7, <2>2, Returned DEF ReturnWith
  <2>4. Added(progress, item, queues, fxCalls, <<d>>, 1, fxCalls')
    BY <1>1, <1>7, <2>1, <2>2 DEF Added, CallIs, IsPlay, Pends
  <2>5. \A k \in DOMAIN <<d>> : <<d>>[k].call # "stop"
    BY <2>1, <2>2
  <2> QED
    BY <1>1, <1>2, <1>3, <1>7, <2>2, <2>3, <2>4, <2>5, SameTimers
<1>8. CASE c.timer # NoItem /\ there /\ i = c.timer /\ fxTimers' = RemoveAt(fxTimers, c.index)
           /\ ReturnWith(<<[c EXCEPT !.timer = NoItem]>>) /\ UNCHANGED timerId
  <2> DEFINE d == [c EXCEPT !.timer = NoItem]
  <2>1. d \in TickCalls /\ d.timer = NoItem /\ ReturnWith(<<d>>)
    BY <1>1, <1>8 DEF TickCalls
  <2> HIDE DEF d
  <2>2. d \in FxCallSet /\ d.call = "tick"
    BY <2>1, Frames DEF TickCalls
  <2>3. /\ <<d>> \in Seq(FxCallSet) /\ Len(<<d>>) = 1
        /\ \A k \in DOMAIN <<d>> : k = 1 /\ <<d>>[k] = d
    BY <2>2, OneCall
  <2>4. After(fxCalls, <<d>>, 1, fxCalls')
    BY <1>1, <2>1, <2>3, Returned DEF ReturnWith
  <2>5. Added(progress, item, queues, fxCalls, <<d>>, 1, fxCalls')
    BY <1>1, <2>1, <2>2, <2>3 DEF Added, CallIs, IsPlay, Pends
  <2>6. /\ fxTimers' \in Seq(Items)
        /\ \A n \in DOMAIN fxTimers' : \E m \in DOMAIN fxTimers : fxTimers'[n] = fxTimers[m]
        /\ \A m \in DOMAIN fxTimers :
             m # c.index => \E n \in DOMAIN fxTimers' : fxTimers'[n] = fxTimers[m]
    BY <1>6, <1>8, RemovedAt DEF there
  <2>7. FxTypes'
    BY <1>3, <1>8, <2>4, <2>6 DEF EffectsInv, FxTypes, After
  <2>8. ASSUME ~ nested PROVE GoesOn(<<d>>, 1)
    <3>1. LoopsAre(fxCalls, fxTimers)'
      <4>1. \A k \in DOMAIN fxCalls : k > 1 => ~ IsStop(fxCalls[k])
        BY <1>1, LenProperties
      <4>2. \A k \in DOMAIN <<d>> : ~ IsStop(<<d>>[k])
        BY <2>2, <2>3 DEF IsStop
      <4> QED
        BY <1>1, <2>3, <2>4, <4>1, <4>2, LoopsTop
    <3>2. \A j \in Items :
            progress[j] = "running" /\ TimedBy(fxTimers, timerId, j) =>
              TimedBy(fxTimers', timerId', j)
      <4> SUFFICES ASSUME NEW j \in Items, progress[j] = "running", TimedBy(fxTimers, timerId, j)
                   PROVE  TimedBy(fxTimers', timerId', j)
        OBVIOUS
      <4>1. PICK m \in DOMAIN fxTimers : fxTimers[m] = j
        BY DEF TimedBy
      <4>2. m # c.index
        BY <1>4, <1>8, <4>1 DEF i
      <4> QED
        BY <1>8, <2>6, <4>1, <4>2 DEF TimedBy
    <3>3. \A e \in Animated : ~ Takes(fxCalls[1], e)
      BY <1>1 DEF Takes, IsStop, Dequeue
    <3> QED
      BY <1>3, <3>1, <3>2, <3>3 DEF GoesOn
  <2>9. timeouts' \subseteq timeouts
    BY <1>3
  <2> QED
    BY <1>1, <1>2, <1>3, <2>3, <2>4, <2>5, <2>6, <2>7, <2>8, <2>9, SameStack
<1>9. CASE ReturnWith(<<[c EXCEPT !.index = @ + 1, !.timer = NoItem]>>)
           /\ UNCHANGED <<fxTimers, timerId>>
  <2> DEFINE d == [c EXCEPT !.index = @ + 1, !.timer = NoItem]
  <2>1. d.timer = NoItem
    BY <1>1 DEF TickCalls
  <2>2. d \in TickCalls
    <3>1. PICK n \in Nat \ {0} : n = c.index + 1
      BY <1>1 DEF TickCalls
    <3>2. d = [c EXCEPT !.index = n, !.timer = NoItem]
      BY <3>1
    <3> QED
      BY <1>1, <3>2 DEF TickCalls
  <2>3. ReturnWith(<<d>>)
    BY <1>9
  <2> HIDE DEF d
  <2> QED
    BY <1>7, <1>9, <2>1, <2>2, <2>3
<1>10. CASE there /\ ReturnWith(<<Resolve(i), [c EXCEPT !.timer = i]>>)
            /\ UNCHANGED <<fxTimers, timerId>>
  <2> DEFINE d == [c EXCEPT !.timer = i]
             r == Resolve(i)
             above == <<r, d>>
  <2>1. d \in TickCalls /\ d.timer = i /\ ReturnWith(above)
    BY <1>1, <1>5, <1>10 DEF TickCalls
  <2>2. /\ d \in FxCallSet /\ d.call = "tick" /\ r \in FxCallSet /\ r.call = "resolve"
        /\ r.item = i
    <3> HIDE DEF d
    <3> QED
      BY <1>5, <1>10, <2>1, Frames DEF TickCalls, Resolve
  <2> HIDE DEF d
  <2>3. r = Resolve(i)
    OBVIOUS
  <2> HIDE DEF r
  <2>4. /\ above \in Seq(FxCallSet) /\ Len(above) = 2 /\ above[1] = r /\ 1 \in DOMAIN above
        /\ \A k \in DOMAIN above : (k = 1 /\ above[k] = r) \/ (k = 2 /\ above[k] = d)
    BY <2>2, TwoCalls
  <2> HIDE DEF above
  <2>5. After(fxCalls, above, 1, fxCalls')
    BY <1>1, <2>1, <2>4, Returned DEF ReturnWith
  <2>6. fxCalls'[1] = r
    BY <2>4, <2>5 DEF After
  <2>7. Added(progress, item, queues, fxCalls, above, 1, fxCalls')
    <3>1. CallIs(progress, item, queues, r) /\ ~ IsPlay(r) /\ ~ Pends(r)
      BY <1>5, <1>10, <2>2 DEF CallIs, IsPlay, Pends
    <3>2. CallIs(progress, item, queues, d) /\ ~ IsPlay(d)
      BY <1>5, <1>10, <2>1, <2>2 DEF CallIs, IsPlay
    <3>3. d.timer = i /\ fxCalls'[1] = Resolve(i) /\ r.call # "tick"
      BY <2>1, <2>2, <2>3, <2>6
    <3> QED
      BY <1>1, <2>4, <3>1, <3>2, <3>3 DEF Added
  <2>8. \A k \in DOMAIN above : above[k].call # "stop"
    BY <2>2, <2>4
  <2> QED
    BY <1>1, <1>2, <1>3, <1>10, <2>4, <2>5, <2>7, <2>8, SameTimers
<1>11. CASE c.timer = NoItem /\ ~ there /\ timerId' = (fxTimers # << >>)
            /\ ReturnWith(<< >>) /\ UNCHANGED fxTimers
  <2>1. After(fxCalls, << >>, 1, fxCalls')
    BY <1>1, <1>11, NoCalls, Returned DEF ReturnWith
  <2>2. FxTypes'
    BY <1>3, <1>11, <2>1 DEF EffectsInv, FxTypes, After
  <2>3. ASSUME ~ nested PROVE GoesOn(<< >>, 1)
    <3>1. LoopsAre(fxCalls, fxTimers)'
      <4>1. LoopsAre(fxCalls, fxTimers)
        BY <2>3 DEF EffectsInv
      <4> QED
        BY <1>1, <1>6, <1>11, <2>1, <4>1, NoCalls, SameIsLonger, LoopsKept
    <3>2. \A j \in Items :
            progress[j] = "running" /\ TimedBy(fxTimers, timerId, j) =>
              TimedBy(fxTimers', timerId', j)
      <4>1. \A n \in DOMAIN fxTimers : fxTimers # << >>
        BY NoCalls
      <4> QED
        BY <1>11, <4>1 DEF TimedBy
    <3>3. \A e \in Animated : ~ Takes(fxCalls[1], e)
      BY <1>1 DEF Takes, IsStop, Dequeue
    <3> QED
      BY <1>3, <3>1, <3>2, <3>3 DEF GoesOn
  <2>4. /\ timeouts' \subseteq timeouts
        /\ \A n \in DOMAIN fxTimers' : \E m \in DOMAIN fxTimers : fxTimers'[n] = fxTimers[m]
    BY <1>3, <1>11
  <2> QED
    BY <1>1, <1>2, <1>3, <2>1, <2>2, <2>3, <2>4, NoCalls, NoneAdded, SameStack
<1> QED
  BY <1>8, <1>9, <1>10, <1>11 DEF RunTimers, c, i, there

(* A turn of stop's loop, and its end.                                      *)
LEMMA StopTimersKeeps ==
  ASSUME EffectsInv, StopTimers
  PROVE  EffectsInv'
<1> DEFINE c == Head(fxCalls)
           i == fxTimers[c.index]
           mine == Running(i) /\ item[i].elem = c.elem
           next == [c EXCEPT !.index = @ - 1, !.timer = NoItem]
           ends == [c EXCEPT !.dequeue = FALSE, !.timer = i]
           cuts == [next EXCEPT !.dequeue = FALSE]
           there == c.timer = NoItem /\ c.index \in DOMAIN fxTimers
<1>1. /\ fxCalls \in Seq(FxCallSet) /\ fxCalls # << >> /\ fxCalls[1] = c /\ 1 \in DOMAIN fxCalls
      /\ 1 <= Len(fxCalls) /\ c.call = "stop" /\ c \in StopCalls /\ c \in FxCallSet
  <2>1. /\ fxCalls \in Seq(FxCallSet) /\ fxCalls # << >> /\ Head(fxCalls).call = "stop"
    BY DEF EffectsInv, FxTypes, StopTimers, Calling
  <2>2. /\ 1 \in DOMAIN fxCalls /\ 1 <= Len(fxCalls) /\ Head(fxCalls) = fxCalls[1]
        /\ Head(fxCalls) \in FxCallSet
    BY <2>1, OnTop
  <2>3. Head(fxCalls) \in StopCalls
    BY <2>1, <2>2, CallKinds
  <2> QED
    BY <2>1, <2>2, <2>3
<1>2. Settled(progress, fxCalls) /\ Settled(progress', fxCalls)
  BY <1>1 DEF Settled
<1>3. UNCHANGED <<item, queueVars, timerId, timeouts, stops, fxCompleted, nested>>
  BY DEF StopTimers
<1>4. c.timer # NoItem => progress[c.timer] # "running"
  <2>1. Pends(fxCalls[1]) /\ progress[fxCalls[1].timer] = "running" =>
          fxCalls[1] = Resolve(fxCalls[1].timer)
    BY <1>1 DEF EffectsInv, StackIs
  <2> QED
    BY <1>1, <2>1 DEF Pends, Resolve
<1>5. /\ fxTimers \in Seq(Items) /\ DOMAIN fxTimers = 1 .. Len(fxTimers) /\ Len(fxTimers) \in Nat
      /\ c.index \in Int
  BY <1>1, LenProperties DEF EffectsInv, FxTypes, StopCalls
<1> HIDE DEF c
<1>6. ASSUME there PROVE i \in Items /\ HasStarted(progress, i) /\ item[i].kind = "fade"
  BY <1>6 DEF EffectsInv, TimersAre, HasStarted
<1>7. ASSUME ~ nested
      PROVE  /\ \A k \in DOMAIN fxCalls : k > 1 => ~ IsStop(fxCalls[k])
             /\ c.index <= Len(fxTimers)
             /\ c.timer # NoItem => c.index \in DOMAIN fxTimers /\ i = c.timer
  <2>1. LoopsAre(fxCalls, fxTimers) /\ IsStop(fxCalls[1])
    BY <1>1, <1>7 DEF EffectsInv, IsStop
  <2>2. \A k \in DOMAIN fxCalls : k > 1 => ~ IsStop(fxCalls[k])
    BY <1>1, <2>1, LenProperties DEF LoopsAre
  <2>3. /\ c.index <= Len(fxTimers)
        /\ c.timer # NoItem => c.index > 0 /\ i = c.timer
    BY <1>1, <2>1 DEF LoopsAre
  <2> QED
    BY <1>5, <2>2, <2>3
<1>19. next = GoesOnLoop(c) /\ ends = WaitsFor(c, i) /\ cuts = WithoutDequeue(next)
  BY Zenon DEF GoesOnLoop, WaitsFor, WithoutDequeue
<1>10. /\ i = fxTimers[c.index] /\ (there <=> c.timer = NoItem /\ c.index \in DOMAIN fxTimers)
       /\ (mine <=> Running(i) /\ item[i].elem = c.elem)
  OBVIOUS
<1>11. \/ c.timer # NoItem /\ ReturnWith(<<next>>) /\ progress' = progress
          /\ fxTimers' = IF c.index \in DOMAIN fxTimers THEN RemoveAt(fxTimers, c.index)
                         ELSE fxTimers
       \/ there /\ mine /\ c.gotoEnd /\ ReturnWith(<<Resolve(i), ends>>)
          /\ progress' = progress /\ fxTimers' = fxTimers
       \/ there /\ mine /\ ~ c.gotoEnd /\ ReturnWith(<<cuts>>)
          /\ progress' = [progress EXCEPT ![i] = "rejected"]
          /\ fxTimers' = RemoveAt(fxTimers, c.index)
       \/ there /\ ReturnWith(<<next>>) /\ progress' = progress /\ fxTimers' = fxTimers
       \/ /\ ReturnWith(IF c.dequeue \/ ~ c.gotoEnd THEN <<Dequeue(c.elem)>> ELSE << >>)
          /\ progress' = progress /\ fxTimers' = fxTimers
       \/ c.index > Len(fxTimers) /\ fxCalls' = << >>
          /\ progress' = progress /\ fxTimers' = fxTimers
  BY DEF StopTimers, c
<1> HIDE DEF i, mine, next, ends, cuts, there
<1>8. /\ next \in StopCalls /\ next.index = c.index - 1 /\ next.timer = NoItem
      /\ next.elem = c.elem /\ next.gotoEnd = c.gotoEnd
      /\ \A e : Takes(next, e) <=> Takes(c, e)
  BY <1>1, <1>19, StopGoesOn
<1>9. ASSUME there
      PROVE  /\ ends \in StopCalls /\ ends.index = c.index /\ ends.timer = i
             /\ cuts \in StopCalls /\ cuts.index = c.index - 1 /\ cuts.timer = NoItem
             /\ ~ c.gotoEnd => Takes(cuts, c.elem)
  <2>1. ends \in StopCalls /\ ends.index = c.index /\ ends.timer = i
    BY <1>1, <1>6, <1>9, <1>19, StopWaits
  <2>2. /\ cuts \in StopCalls /\ cuts.index = next.index /\ cuts.timer = next.timer
        /\ ~ next.gotoEnd => Takes(cuts, next.elem)
    BY <1>8, <1>19, StopCuts
  <2> QED
    BY <1>8, <2>1, <2>2
<1> USE DEF queueVars
<1>12. ASSUME NEW d \in StopCalls, d.timer = NoItem
       PROVE  /\ <<d>> \in Seq(FxCallSet) /\ Len(<<d>>) = 1 /\ 1 \in DOMAIN <<d>> /\ <<d>>[1] = d
              /\ \A k \in DOMAIN <<d>> : k = 1 /\ <<d>>[k] = d
              /\ ReturnWith(<<d>>) => After(fxCalls, <<d>>, 1, fxCalls')
              /\ \A p, it, qs : Added(p, it, qs, fxCalls, <<d>>, 1, fxCalls')
              /\ ~ nested /\ ReturnWith(<<d>>) /\ d.index <= Len(fxTimers') => LoopsAre(fxCalls, fxTimers)'
  <2>1. d \in FxCallSet /\ d.call = "stop"
    BY <1>12, Frames DEF StopCalls
  <2>2. /\ <<d>> \in Seq(FxCallSet) /\ Len(<<d>>) = 1 /\ 1 \in DOMAIN <<d>> /\ <<d>>[1] = d
        /\ \A k \in DOMAIN <<d>> : k = 1 /\ <<d>>[k] = d
    BY <2>1, OneCall
  <2>3. ReturnWith(<<d>>) => After(fxCalls, <<d>>, 1, fxCalls')
    BY <1>1, <2>2, Returned DEF ReturnWith
  <2>4. \A p, it, qs : Added(p, it, qs, fxCalls, <<d>>, 1, fxCalls')
    BY <1>12, <2>1, <2>2 DEF Added, CallIs, IsPlay, Pends
  <2>5. ASSUME ~ nested, ReturnWith(<<d>>), d.index <= Len(fxTimers') PROVE LoopsAre(fxCalls, fxTimers)'
    <3>1. \A k, l \in DOMAIN <<d>> : IsStop(<<d>>[k]) /\ IsStop(<<d>>[l]) => k = l
      BY <2>2
    <3>2. \A k \in DOMAIN <<d>> : IsStop(<<d>>[k]) => LoopIs(<<d>>[k], fxTimers')
      BY <1>12, <2>2, <2>5 DEF LoopIs
    <3> QED
      BY <1>1, <1>7, <2>2, <2>3, <2>5, <3>1, <3>2, LoopsTop
  <2> QED
    BY <2>2, <2>3, <2>4, <2>5
<1>13. CASE /\ ReturnWith(<<next>>) /\ progress' = progress
            /\ \/ fxTimers' = fxTimers
               \/ /\ c.timer # NoItem /\ c.index \in DOMAIN fxTimers
                  /\ fxTimers' = RemoveAt(fxTimers, c.index)
            /\ ~ nested => c.timer = NoItem \/ fxTimers' = RemoveAt(fxTimers, c.index)
  <2>1. /\ fxTimers' \in Seq(Items)
        /\ \A n \in DOMAIN fxTimers' : \E m \in DOMAIN fxTimers : fxTimers'[n] = fxTimers[m]
        /\ \A m \in DOMAIN fxTimers :
             m # c.index \/ fxTimers' = fxTimers =>
               \E n \in DOMAIN fxTimers' : fxTimers'[n] = fxTimers[m]
        /\ fxTimers' = fxTimers \/ Len(fxTimers') = Len(fxTimers) - 1
    <3>1. CASE fxTimers' = fxTimers
      BY <1>5, <3>1
    <3>2. CASE c.index \in DOMAIN fxTimers /\ fxTimers' = RemoveAt(fxTimers, c.index)
      BY <1>5, <3>2, RemovedAt
    <3> QED
      BY <1>13, <3>1, <3>2
  <2>2. /\ <<next>> \in Seq(FxCallSet) /\ 1 \in DOMAIN <<next>> /\ <<next>>[1] = next
        /\ After(fxCalls, <<next>>, 1, fxCalls')
        /\ Added(progress, item, queues, fxCalls, <<next>>, 1, fxCalls')
    BY <1>8, <1>12, <1>13
  <2>3. FxTypes'
    BY <1>3, <1>13, <2>1, <2>2 DEF EffectsInv, FxTypes, After
  <2>4. ASSUME ~ nested PROVE GoesOn(<<next>>, 1)
    <3>1. next.index <= Len(fxTimers')
      <4>1. c.index <= Len(fxTimers) /\ next.index = c.index - 1
        BY <1>7, <1>8, <2>4
      <4>2. fxTimers' = fxTimers \/ Len(fxTimers') = Len(fxTimers) - 1
        BY <2>1
      <4>3. CASE fxTimers' = fxTimers
        BY <1>5, <4>1, <4>3
      <4>4. CASE Len(fxTimers') = Len(fxTimers) - 1
        BY <1>5, <4>1, <4>4
      <4> QED
        BY <4>2, <4>3, <4>4
    <3>2. LoopsAre(fxCalls, fxTimers)'
      BY <1>8, <1>12, <1>13, <2>4, <3>1
    <3>3. \A j \in Items :
            progress[j] = "running" /\ TimedBy(fxTimers, timerId, j) =>
              TimedBy(fxTimers', timerId', j)
      <4> SUFFICES ASSUME NEW j \in Items, progress[j] = "running", TimedBy(fxTimers, timerId, j)
                   PROVE  TimedBy(fxTimers', timerId', j)
        OBVIOUS
      <4>1. PICK m \in DOMAIN fxTimers : fxTimers[m] = j
        BY DEF TimedBy
      <4>2. m # c.index \/ fxTimers' = fxTimers
        BY <1>4, <1>7, <1>10, <1>13, <2>4, <4>1
      <4> QED
        BY <1>3, <2>1, <4>1, <4>2 DEF TimedBy
    <3>4. ASSUME NEW e \in Animated, Takes(fxCalls[1], e)
          PROVE  TakenBy(progress, item, timeouts', fxCalls', e)
      <4>1. Takes(<<next>>[1], e)
        BY <1>1, <1>8, <2>2, <3>4
      <4> QED
        BY <1>1, <2>2, <4>1, CallTakes
    <3> QED
      BY <1>3, <3>2, <3>3, <3>4 DEF GoesOn
  <2>5. timeouts' \subseteq timeouts
    BY <1>3
  <2> QED
    BY <1>1, <1>2, <1>3, <1>13, <2>1, <2>2, <2>3, <2>4, <2>5, SameStack
<1>14. CASE /\ there /\ mine /\ ReturnWith(<<Resolve(i), ends>>)
            /\ progress' = progress /\ fxTimers' = fxTimers
  <2> DEFINE r == Resolve(i)
             above == <<r, ends>>
  <2>1. /\ ends \in StopCalls /\ ends.index = c.index /\ ends.timer = i /\ i \in Items
        /\ HasStarted(progress, i) /\ item[i].kind = "fade"
        /\ progress[i] = "running" /\ item[i].elem = c.elem
    BY <1>6, <1>9, <1>10, <1>14 DEF Running
  <2>2. /\ ends \in FxCallSet /\ ends.call = "stop" /\ r \in FxCallSet /\ r.call = "resolve"
        /\ r.item = i
    BY <2>1, Frames DEF StopCalls, Resolve
  <2>3. r = Resolve(i)
    OBVIOUS
  <2> HIDE DEF r
  <2>4. /\ above \in Seq(FxCallSet) /\ Len(above) = 2 /\ above[1] = r /\ 1 \in DOMAIN above
        /\ \A k \in DOMAIN above : (k = 1 /\ above[k] = r) \/ (k = 2 /\ above[k] = ends)
    BY <2>2, TwoCalls
  <2>5. After(fxCalls, above, 1, fxCalls')
    BY <1>1, <1>14, <2>3, <2>4, Returned DEF ReturnWith
  <2> HIDE DEF above
  <2>6. fxCalls'[1] = r
    BY <2>4, <2>5 DEF After
  <2>7. Added(progress, item, queues, fxCalls, above, 1, fxCalls')
    <3>1. CallIs(progress, item, queues, r) /\ ~ IsPlay(r) /\ ~ Pends(r)
      BY <2>1, <2>2 DEF CallIs, IsPlay, Pends
    <3>2. CallIs(progress, item, queues, ends) /\ ~ IsPlay(ends)
      BY <2>1, <2>2 DEF CallIs, IsPlay
    <3>3. ends.timer = i /\ fxCalls'[1] = Resolve(i) /\ r.call # "tick" /\ ends.call # "tick"
      BY <2>1, <2>2, <2>3, <2>6
    <3> QED
      BY <2>4, <3>1, <3>2, <3>3 DEF Added
  <2>8. FxTypes'
    BY <1>3, <1>14, <2>5 DEF EffectsInv, FxTypes, After
  <2>9. ASSUME ~ nested PROVE GoesOn(above, 1)
    <3>1. LoopsAre(fxCalls, fxTimers)'
      <4>1. \A k \in DOMAIN above : IsStop(above[k]) => k = 2 /\ above[k] = ends
        BY <2>2, <2>4 DEF IsStop
      <4>2. LoopIs(ends, fxTimers')
        BY <1>5, <1>10, <1>14, <2>1 DEF LoopIs
      <4>3. /\ \A k, l \in DOMAIN above : IsStop(above[k]) /\ IsStop(above[l]) => k = l
            /\ \A k \in DOMAIN above : IsStop(above[k]) => LoopIs(above[k], fxTimers')
        BY <4>1, <4>2
      <4> QED
        BY <1>1, <1>7, <2>4, <2>5, <2>9, <4>3, LoopsTop
    <3>2. ASSUME NEW e \in Animated, Takes(fxCalls[1], e)
          PROVE  TakenBy(progress, item, timeouts', fxCalls', e)
      <4>1. Mover(progress, item, timeouts', i, e)
        BY <1>1, <2>1, <3>2 DEF Takes, Dequeue, Mover
      <4> QED
        BY <2>1, <4>1, MoverTakes
    <3> QED
      BY <1>3, <1>14, <3>1, <3>2 DEF GoesOn
  <2>10. timeouts' \subseteq timeouts
         /\ \A n \in DOMAIN fxTimers' : \E m \in DOMAIN fxTimers : fxTimers'[n] = fxTimers[m]
    BY <1>3, <1>14
  <2> QED
    BY <1>1, <1>2, <1>3, <1>14, <2>4, <2>5, <2>7, <2>8, <2>9, <2>10, SameStack
<1>15. CASE /\ there /\ mine /\ ~ c.gotoEnd /\ ReturnWith(<<cuts>>)
            /\ progress' = [progress EXCEPT ![i] = "rejected"]
            /\ fxTimers' = RemoveAt(fxTimers, c.index)
  <2>1. /\ cuts \in StopCalls /\ cuts.index = c.index - 1 /\ cuts.timer = NoItem
        /\ Takes(cuts, c.elem) /\ i \in Items /\ HasStarted(progress, i) /\ item[i].kind = "fade"
        /\ progress[i] = "running" /\ item[i].elem = c.elem /\ c.index \in DOMAIN fxTimers
    BY <1>6, <1>9, <1>10, <1>15 DEF Running
  <2>2. /\ <<cuts>> \in Seq(FxCallSet) /\ 1 \in DOMAIN <<cuts>> /\ <<cuts>>[1] = cuts
        /\ After(fxCalls, <<cuts>>, 1, fxCalls')
        /\ Added(progress', item', queues', fxCalls, <<cuts>>, 1, fxCalls')
    BY <1>12, <1>15, <2>1
  <2>3. /\ fxTimers' \in Seq(Items) /\ Len(fxTimers') = Len(fxTimers) - 1
        /\ \A n \in DOMAIN fxTimers' : \E m \in DOMAIN fxTimers : fxTimers'[n] = fxTimers[m]
        /\ \A m \in DOMAIN fxTimers :
             m # c.index => \E n \in DOMAIN fxTimers' : fxTimers'[n] = fxTimers[m]
    BY <1>5, <1>15, <2>1, RemovedAt
  <2>4. /\ progress' \in FxProgress /\ progress'[i] = "rejected"
        /\ \A j \in Items : j # i => progress'[j] = progress[j]
    BY <1>15, <2>1 DEF FxProgress, EffectsInv, FxTypes
  <2>5. Quiet(progress, item, queues, progress', item', queues')
    BY <1>3, <2>1, <2>4 DEF Quiet, Keeps, HasStarted
  <2>6. FxTypes'
    BY <1>3, <2>2, <2>3, <2>4 DEF EffectsInv, FxTypes, After
  <2>7. StackIs(progress, item, queues, fxCalls)'
    BY <1>1, <1>2, <2>2, <2>5, QuietStack DEF EffectsInv
  <2>8. ListsAre(progress, item, queues)'
    BY <2>5, QuietKeeps DEF EffectsInv
  <2>9. TimersAre(progress, item, fxTimers)'
    BY <2>3, <2>5, TimersKept DEF EffectsInv, Quiet
  <2>10. DelaysAre(progress, item, hook, timeouts)'
    <3>1. \A j \in timeouts : progress'[j] = "running" /\ item[j].kind = "delay"
      BY <2>1, <2>4 DEF EffectsInv, FxTypes, DelaysAre
    <3>2. \A e \in Animated :
            hook[e] # NoItem => HasStarted(progress', hook[e]) /\ item[hook[e]].elem = e
      BY <2>4, <2>5 DEF EffectsInv, DelaysAre, Quiet, Keeps, HasStarted
    <3> QED
      BY <1>3, <3>1, <3>2 DEF DelaysAre
  <2>11. CompletesOnce'
    BY <1>3, <2>1, <2>4 DEF EffectsInv, CompletesOnce
  <2>12. ASSUME ~ nested
         PROVE  /\ LoopsAre(fxCalls, fxTimers)'
                /\ Moves(progress, item, fxTimers, timerId, fxCalls)'
                /\ Taken(progress, item, queues, timeouts, fxCalls)'
    <3>1. cuts.index <= Len(fxTimers')
      BY <1>5, <1>7, <2>1, <2>3, <2>12
    <3>2. LoopsAre(fxCalls, fxTimers)'
      BY <1>12, <1>15, <2>1, <2>12, <3>1
    <3>3. Moves(progress, item, fxTimers, timerId, fxCalls)'
      <4>1. Moves(progress, item, fxTimers, timerId, fxCalls) /\ timerId' = timerId
        BY <1>3, <2>12 DEF EffectsInv
      <4>2. \A j \in Items :
              progress'[j] = "running" /\ TimedBy(fxTimers, timerId, j) =>
                TimedBy(fxTimers', timerId', j)
        BY <1>10, <2>3, <2>4, <4>1 DEF TimedBy
      <4>3. Keeps(progress, item, progress', item')
        BY <2>5 DEF Quiet
      <4>4. \A j \in Items : progress'[j] = "running" => progress[j] = "running"
        BY <2>4
      <4> QED
        BY <1>2, <4>1, <4>2, <4>3, <4>4, MovesKept
    <3>4. ASSUME NEW e \in Animated, queues[e] # << >>
          PROVE  TakenBy(progress', item', timeouts', fxCalls', e)
      <4>1. TakenBy(progress, item, timeouts, fxCalls, e)
        BY <2>12, <3>4 DEF EffectsInv, Taken
      <4>2. CASE e = c.elem
        <5>1. Takes(<<cuts>>[1], e)
          BY <2>1, <2>2, <4>2
        <5> QED
          BY <1>1, <2>2, <5>1, CallTakes
      <4>3. CASE e # c.elem
        <5>1. ~ Takes(fxCalls[1], e)
          BY <1>1, <4>3 DEF Takes, IsStop, Dequeue
        <5>2. \A j \in Items :
                Mover(progress, item, timeouts, j, e) => Mover(progress', item', timeouts', j, e)
          BY <1>3, <2>1, <2>4, <4>3 DEF Mover
        <5> QED
          BY <1>1, <2>2, <4>1, <5>1, <5>2, MoverTakes, TakenKept
      <4> QED
        BY <4>2, <4>3
    <3> QED
      BY <1>3, <3>2, <3>3, <3>4 DEF Taken
  <2> QED
    BY <1>3, <2>6, <2>7, <2>8, <2>9, <2>10, <2>11, <2>12 DEF EffectsInv
<1>16. CASE /\ ReturnWith(IF c.dequeue \/ ~ c.gotoEnd THEN <<Dequeue(c.elem)>> ELSE << >>)
            /\ progress' = progress /\ fxTimers' = fxTimers
  <2> DEFINE d == Dequeue(c.elem)
             above == IF c.dequeue \/ ~ c.gotoEnd THEN <<d>> ELSE << >>
  <2>1. d \in FxCallSet /\ d.call = "dequeue" /\ d = Dequeue(c.elem)
    BY <1>1, Frames DEF StopCalls, Dequeue
  <2> HIDE DEF d
  <2>2. /\ above \in Seq(FxCallSet) /\ \A k \in DOMAIN above : above[k] = d
        /\ c.dequeue \/ ~ c.gotoEnd => 1 \in DOMAIN above
    BY <2>1, NoCalls, OneCall
  <2>3. ReturnWith(above)
    BY <1>16 DEF d
  <2> HIDE DEF above
  <2>4. After(fxCalls, above, 1, fxCalls')
    BY <1>1, <2>2, <2>3, Returned DEF ReturnWith
  <2>5. Added(progress, item, queues, fxCalls, above, 1, fxCalls')
    BY <2>1, <2>2 DEF Added, CallIs, IsPlay, Pends
  <2>6. FxTypes'
    BY <1>3, <1>16, <2>4 DEF EffectsInv, FxTypes, After
  <2>7. ASSUME ~ nested PROVE GoesOn(above, 1)
    <3>1. LoopsAre(fxCalls, fxTimers)'
      <4>1. LoopsAre(fxCalls, fxTimers)
        BY <2>7 DEF EffectsInv
      <4>2. \A k \in DOMAIN above : ~ IsStop(above[k])
        BY <2>1, <2>2 DEF IsStop
      <4> QED
        BY <1>1, <1>5, <1>16, <2>2, <2>4, <4>1, <4>2, SameIsLonger, LoopsKept
    <3>2. ASSUME NEW e \in Animated, Takes(fxCalls[1], e)
          PROVE  TakenBy(progress, item, timeouts', fxCalls', e)
      <4>1. e = c.elem /\ (c.dequeue \/ ~ c.gotoEnd)
        BY <1>1, <3>2 DEF Takes, Dequeue
      <4>2. 1 \in DOMAIN above /\ Takes(above[1], e)
        BY <2>1, <2>2, <4>1 DEF Takes
      <4> QED
        BY <1>1, <2>2, <2>4, <4>2, CallTakes
    <3> QED
      BY <1>3, <1>16, <3>1, <3>2 DEF GoesOn
  <2>8. timeouts' \subseteq timeouts
        /\ \A n \in DOMAIN fxTimers' : \E m \in DOMAIN fxTimers : fxTimers'[n] = fxTimers[m]
    BY <1>3, <1>16
  <2> QED
    BY <1>1, <1>2, <1>3, <1>16, <2>2, <2>4, <2>5, <2>6, <2>7, <2>8, SameStack
<1>17. CASE c.index > Len(fxTimers) /\ fxCalls' = << >>
            /\ progress' = progress /\ fxTimers' = fxTimers
  <2>1. nested
    BY <1>5, <1>7, <1>17
  <2>2. FxTypes'
    BY <1>3, <1>17, NoCalls DEF EffectsInv, FxTypes
  <2>3. StackIs(progress, item, queues, fxCalls)'
    BY <1>17, NoCalls DEF StackIs
  <2> QED
    BY <1>3, <1>17, <2>1, <2>2, <2>3 DEF EffectsInv, CompletesOnce
<1>18. /\ ~ nested => c.timer = NoItem \/ c.index \in DOMAIN fxTimers
  BY <1>7
<1> QED
  BY <1>10, <1>11, <1>13, <1>14, <1>15, <1>16, <1>17, <1>18

(* The page, or a handler, calls.                                           *)
LEMMA InControl ==
  ASSUME EffectsInv, PageInControl
  PROVE  /\ Settled(progress, fxCalls) /\ fxCalls \in Seq(FxCallSet) /\ 0 <= Len(fxCalls)
         /\ \A p : Settled(p, fxCalls)
<1>1. fxCalls \in Seq(FxCallSet) /\ 0 <= Len(fxCalls)
  BY LenProperties DEF EffectsInv, FxTypes
<1>2. fxCalls # << >> => fxCalls[1].call = "complete"
  BY <1>1, OnTop DEF PageInControl, Calling
<1> QED
  BY <1>1, <1>2 DEF Settled

(* A queue is emptied.                                                      *)
LEMMA clearQueueKeeps ==
  ASSUME EffectsInv, NEW e \in Animated, clearQueue(e)
  PROVE  EffectsInv'
<1>1. Settled(progress, fxCalls) /\ fxCalls \in Seq(FxCallSet) /\ 0 <= Len(fxCalls)
  BY InControl DEF clearQueue
<1>2. /\ UNCHANGED <<item, progress, finishing, fxTimers, timerId, timeouts, fxCalls, fxCompleted,
                     nested>>
      /\ queues' = [queues EXCEPT ![e] = << >>] /\ hook' = [hook EXCEPT ![e] = NoItem]
  BY DEF clearQueue, Emptied, timerVars
<1>3. /\ queues \in [Animated -> FxQueue] /\ hook \in [Animated -> Items \cup {NoItem}]
      /\ << >> \in FxQueue
  BY DEF EffectsInv, FxTypes, FxQueue
<1>4. /\ queues' \in [Animated -> FxQueue] /\ hook' \in [Animated -> Items \cup {NoItem}]
  BY <1>2, <1>3
<1>5. FewerWait
  BY <1>2, <1>3 DEF FewerWait
<1>6. FxTypes'
  BY <1>2, <1>4 DEF EffectsInv, FxTypes
<1>7. After(fxCalls, << >>, 0, fxCalls')
  <2>1. fxCalls' = << >> \o fxCalls
    BY <1>1, <1>2, ConcatEmptySeq
  <2> QED
    BY <1>1, <2>1, NoCalls, Pushed
<1>8. ASSUME ~ nested' PROVE GoesOn(<< >>, 0)
  <2>1. LoopsAre(fxCalls, fxTimers)'
    BY <1>2, <1>8 DEF EffectsInv
  <2> QED
    BY <1>2, <2>1 DEF GoesOn
<1>9. /\ ~ nested' => ~ nested
      /\ \A n \in DOMAIN fxTimers' : \E m \in DOMAIN fxTimers : fxTimers'[n] = fxTimers[m]
      /\ timeouts' \subseteq timeouts /\ progress' = progress /\ item' = item
      /\ fxCompleted' = fxCompleted
  BY <1>2
<1> QED
  BY <1>1, <1>5, <1>6, <1>7, <1>8, <1>9, NoCalls, NoneAdded, FewerStack

(* stop begins.                                                             *)
LEMMA StoppedCall ==
  ASSUME EffectsInv, NEW e \in Animated, NEW gotoEnd \in BOOLEAN, NEW deq \in BOOLEAN
  PROVE  LET c == Stopping(e, gotoEnd, deq)
         IN  /\ c \in StopCalls /\ c \in FxCallSet /\ c.call = "stop" /\ c.timer = NoItem
             /\ LoopIs(c, fxTimers) /\ (deq => Takes(c, e))
<1>1. Len(fxTimers) \in Nat
  BY LenProperties DEF EffectsInv, FxTypes
<1> DEFINE c == Stopping(e, gotoEnd, deq)
<1>2. c \in StopCalls /\ c.call = "stop" /\ c.timer = NoItem /\ c.index = Len(fxTimers)
      /\ c.elem = e /\ c.dequeue = deq
  BY <1>1 DEF Stopping, StopCalls
<1> HIDE DEF c
<1>3. c \in FxCallSet
  BY <1>2, Frames
<1>4. LoopIs(c, fxTimers) /\ (deq => Takes(c, e))
  BY <1>1, <1>2 DEF LoopIs, Takes, IsStop
<1> QED
  BY <1>2, <1>3, <1>4, Zenon DEF c

(* The delay that a hook stops is the element's own.                        *)
LEMMA DelayStopped ==
  ASSUME EffectsInv, NEW e \in Animated, NEW i \in timeouts, i = hook[e]
  PROVE  item[i].elem = e
<1>1. i # NoItem
  BY DEF EffectsInv, FxTypes, Items, NoItem
<1> QED
  BY <1>1 DEF EffectsInv, DelaysAre

(* The page, or a handler, stops the animations of an element.              *)
LEMMA StopKeeps ==
  ASSUME EffectsInv, NEW e \in Animated, NEW clear \in BOOLEAN, NEW gotoEnd \in BOOLEAN,
         stop(e, clear, gotoEnd)
  PROVE  EffectsInv'
<1> DEFINE c == Stopping(e, gotoEnd, TRUE)
<1>1. Settled(progress, fxCalls) /\ fxCalls \in Seq(FxCallSet) /\ 0 <= Len(fxCalls)
  BY InControl DEF stop, Stopped, StopCalled
<1>2. /\ UNCHANGED <<item, progress, finishing, fxTimers, timerId, fxCompleted>>
      /\ queues' = IF clear THEN [queues EXCEPT ![e] = << >>] ELSE queues
      /\ hook' = [hook EXCEPT ![e] = NoItem]
      /\ timeouts' = (IF clear THEN timeouts ELSE timeouts \ {hook[e]})
      /\ fxCalls' = <<c>> \o fxCalls
      /\ nested' = (nested \/ \E n \in DOMAIN fxCalls : fxCalls[n].call = "stop")
  BY DEF stop, Stopped, StopCalled
<1>3. /\ c \in FxCallSet /\ c.call = "stop" /\ c.timer = NoItem
      /\ LoopIs(c, fxTimers) /\ Takes(c, e)
  BY StoppedCall
<1> HIDE DEF c
<1>4. /\ queues \in [Animated -> FxQueue] /\ hook \in [Animated -> Items \cup {NoItem}]
      /\ << >> \in FxQueue
  BY DEF EffectsInv, FxTypes, FxQueue
<1>5. /\ queues' \in [Animated -> FxQueue] /\ hook' \in [Animated -> Items \cup {NoItem}]
  BY <1>2, <1>4
<1>6. FewerWait
  BY <1>2, <1>4 DEF FewerWait
<1>7. /\ <<c>> \in Seq(FxCallSet) /\ <<c>>[1] = c /\ 1 \in DOMAIN <<c>>
      /\ \A k \in DOMAIN <<c>> : k = 1 /\ <<c>>[k] = c
  BY <1>3, OneCall
<1>8. After(fxCalls, <<c>>, 0, fxCalls')
  BY <1>1, <1>2, <1>7, Pushed
<1>9. FxTypes'
  <2>1. nested' \in BOOLEAN /\ timeouts' \in SUBSET Items
    BY <1>2 DEF EffectsInv, FxTypes
  <2> QED
    BY <1>2, <1>5, <1>8, <2>1 DEF EffectsInv, FxTypes, After
<1>10. Added(progress, item, queues', fxCalls, <<c>>, 0, fxCalls')
  BY <1>3, <1>7 DEF Added, CallIs, IsPlay, Pends
<1>11. ASSUME ~ nested' PROVE GoesOn(<<c>>, 0)
  <2>1. LoopsAre(fxCalls, fxTimers)'
    <3>1. \A k \in DOMAIN fxCalls : k > 0 => ~ IsStop(fxCalls[k])
      BY <1>2, <1>11 DEF IsStop
    <3>2. /\ \A k, l \in DOMAIN <<c>> : IsStop(<<c>>[k]) /\ IsStop(<<c>>[l]) => k = l
          /\ \A k \in DOMAIN <<c>> : IsStop(<<c>>[k]) => LoopIs(<<c>>[k], fxTimers')
      BY <1>2, <1>3, <1>7
    <3> QED
      BY <1>1, <1>7, <1>8, <3>1, <3>2, LoopsTop
  <2>2. \A i \in timeouts \ timeouts' : item[i].elem = e
    BY <1>2, DelayStopped
  <2>3. TakenBy(progress, item, timeouts', fxCalls', e)
    <3>1. Takes(<<c>>[1], e)
      BY <1>3, <1>7
    <3> QED
      BY <1>1, <1>7, <1>8, <3>1, CallTakes
  <2> QED
    BY <1>2, <2>1, <2>2, <2>3 DEF GoesOn
<1>12. /\ ~ nested' => ~ nested
       /\ \A n \in DOMAIN fxTimers' : \E m \in DOMAIN fxTimers : fxTimers'[n] = fxTimers[m]
       /\ timeouts' \subseteq timeouts /\ progress' = progress /\ item' = item
       /\ fxCompleted' = fxCompleted
  BY <1>2
<1> QED
  BY <1>1, <1>6, <1>7, <1>8, <1>9, <1>10, <1>11, <1>12, FewerStack

(* Items of two queues are of two elements.                                 *)
LEMMA ListsApart ==
  ASSUME NEW p, NEW it, NEW q, NEW r, NEW e, NEW f, e # f, ListIs(p, it, q, e), ListIs(p, it, r, f)
  PROVE  Apart(q, r)
BY DEF Apart, ListIs, Waits

(* finish begins.                                                           *)
LEMMA finishKeeps ==
  ASSUME EffectsInv, NEW e \in Animated, finish(e)
  PROVE  EffectsInv'
<1> DEFINE c == Stopping(e, TRUE, FALSE)
           y == Playing(e, queues[e])
           above == <<c, y>>
<1>1. Settled(progress, fxCalls) /\ fxCalls \in Seq(FxCallSet) /\ 0 <= Len(fxCalls)
  BY InControl DEF finish, StopCalled
<1>2. /\ UNCHANGED <<item, progress, hook, fxTimers, timerId, fxCompleted>>
      /\ queues' = [queues EXCEPT ![e] = << >>] /\ finishing' = [finishing EXCEPT ![e] = TRUE]
      /\ timeouts' = timeouts \ {hook[e]} /\ fxCalls' = above \o fxCalls
      /\ nested' = (nested \/ \E n \in DOMAIN fxCalls : fxCalls[n].call = "stop")
  BY DEF finish, StopCalled
<1>3. /\ c \in FxCallSet /\ c.call = "stop" /\ c.timer = NoItem /\ LoopIs(c, fxTimers)
  BY StoppedCall
<1>4. /\ queues \in [Animated -> FxQueue] /\ << >> \in FxQueue
      /\ finishing \in [Animated -> BOOLEAN]
  BY DEF EffectsInv, FxTypes, FxQueue
<1>5. y \in FxCallSet /\ y.call = "play" /\ y.rest = queues[e] /\ y.elem = e
  <2>1. y \in PlayCalls
    BY <1>4 DEF Playing, PlayCalls
  <2> QED
    BY <2>1, Frames DEF Playing
<1> HIDE DEF c, y
<1>6. /\ above \in Seq(FxCallSet) /\ 1 \in DOMAIN above
      /\ \A k \in DOMAIN above : (k = 1 /\ above[k] = c) \/ (k = 2 /\ above[k] = y)
  BY <1>3, <1>5, TwoCalls
<1> HIDE DEF above
<1>7. /\ queues' \in [Animated -> FxQueue] /\ finishing' \in [Animated -> BOOLEAN]
      /\ queues'[e] = << >> /\ \A f \in Animated : f # e => queues'[f] = queues[f]
  BY <1>2, <1>4
<1>8. FewerWait
  BY <1>2, <1>7 DEF FewerWait
<1>9. After(fxCalls, above, 0, fxCalls')
  BY <1>1, <1>2, <1>6, Pushed
<1>10. FxTypes'
  <2>1. nested' \in BOOLEAN /\ timeouts' \in SUBSET Items
    BY <1>2 DEF EffectsInv, FxTypes
  <2> QED
    BY <1>2, <1>7, <1>9, <2>1 DEF EffectsInv, FxTypes, After
<1>11. StackIs(progress, item, queues, fxCalls)'
  <2>1. ListIs(progress, item, queues[e], e) /\ StackIs(progress, item, queues, fxCalls)
    BY DEF EffectsInv, ListsAre
  <2>2. \A f \in Animated : Apart(queues'[f], queues[e])
    <3> SUFFICES ASSUME NEW f \in Animated PROVE Apart(queues'[f], queues[e])
      OBVIOUS
    <3>1. CASE f = e
      BY <1>7, <3>1 DEF Apart
    <3>2. CASE f # e
      BY <1>7, <2>1, <3>2, ListsApart DEF EffectsInv, ListsAre
    <3> QED
      BY <3>1, <3>2
  <2>3. CallIs(progress, item, queues', c) /\ CallIs(progress, item, queues', y)
    BY <1>3, <1>5, <2>1, <2>2 DEF CallIs
  <2>4. Quiet(progress, item, queues, progress, item, queues')
    BY <1>8 DEF Quiet, Keeps, FewerWait
  <2>5. \A k \in DOMAIN fxCalls : CallIs(progress, item, queues', fxCalls[k])
    BY <1>1, <2>1, <2>4, QuietKeeps, ElementOfSeq DEF StackIs
  <2>6. \A k \in DOMAIN fxCalls : Pends(fxCalls[k]) => progress[fxCalls[k].timer] # "running"
    <3>1. Keeps(progress, item, progress, item)
      BY DEF Keeps
    <3> QED
      BY <1>1, <2>1, <3>1, PendingKept
  <2>7. \A k \in DOMAIN fxCalls : IsPlay(fxCalls[k]) => Apart(queues[e], fxCalls[k].rest)
    BY <2>1 DEF StackIs, CallIs, IsPlay
  <2>8. Stacked(progress, item, queues', fxCalls, above, 0, fxCalls')
    BY <1>3, <1>5, <1>6, <2>3, <2>5, <2>6, <2>7 DEF Stacked, IsPlay, Pends
  <2>9. StackIs(progress, item, queues', fxCalls')
    BY <1>1, <1>6, <1>9, <2>1, <2>8, StackKept
  <2> QED
    BY <1>2, <2>9
<1>12. ASSUME ~ nested' PROVE GoesOn(above, 0)
  <2>1. LoopsAre(fxCalls, fxTimers)'
    <3>1. \A k \in DOMAIN fxCalls : k > 0 => ~ IsStop(fxCalls[k])
      BY <1>2, <1>12 DEF IsStop
    <3>2. \A k \in DOMAIN above : IsStop(above[k]) => k = 1 /\ above[k] = c
      BY <1>5, <1>6 DEF IsStop
    <3>3. /\ \A k, l \in DOMAIN above : IsStop(above[k]) /\ IsStop(above[l]) => k = l
          /\ \A k \in DOMAIN above : IsStop(above[k]) => LoopIs(above[k], fxTimers')
      BY <1>2, <1>3, <3>2
    <3> QED
      BY <1>1, <1>6, <1>9, <3>1, <3>3, LoopsTop
  <2>2. \A i \in timeouts \ timeouts' : item[i].elem = e
    BY <1>2, DelayStopped
  <2> QED
    BY <1>2, <1>7, <2>1, <2>2 DEF GoesOn
<1>13. /\ ~ nested' => ~ nested
       /\ \A n \in DOMAIN fxTimers' : \E m \in DOMAIN fxTimers : fxTimers'[n] = fxTimers[m]
       /\ timeouts' \subseteq timeouts /\ progress' = progress /\ item' = item
       /\ fxCompleted' = fxCompleted
  BY <1>2
<1> QED
  BY <1>1, <1>6, <1>8, <1>9, <1>10, <1>11, <1>12, <1>13, SameItems

(* Lists without the sentinel.                                              *)
AllWait(p, it, q, e) ==
  /\ q \in FxQueue /\ \A n \in DOMAIN q : Waits(p, it, q[n], e)
  /\ \A m, n \in DOMAIN q : q[m] = q[n] => m = n

(* A list without its first item has no sentinel, and all wait.             *)
LEMMA TailWaits ==
  ASSUME NEW p, NEW it, NEW q \in FxQueue, NEW e, q # << >>, ListIs(p, it, q, e)
  PROVE  /\ AllWait(p, it, Tail(q), e)
         /\ \E m \in DOMAIN q : q[m] = Head(q)
         /\ \A n \in DOMAIN Tail(q) : Tail(q)[n] # Head(q) /\ \E m \in DOMAIN q : q[m] = Tail(q)[n]
<1> DEFINE t == Tail(q)
<1>1. /\ t \in FxQueue /\ Len(t) = Len(q) - 1 /\ Head(q) = q[1]
      /\ \A n \in 1 .. Len(t) : t[n] = q[n + 1]
  BY HeadTailProperties DEF FxQueue
<1>2. /\ Len(q) \in Nat \ {0} /\ DOMAIN q = 1 .. Len(q) /\ DOMAIN t = 1 .. Len(t)
  BY <1>1, LenProperties, EmptySeq DEF FxQueue
<1> HIDE DEF t
<1>3. \A n \in DOMAIN t : n + 1 \in DOMAIN q /\ n + 1 # 1 /\ t[n] = q[n + 1]
  BY <1>1, <1>2
<1>4. 1 \in DOMAIN q /\ \A m, n \in DOMAIN t : m # n => m + 1 # n + 1
  BY <1>1, <1>2
<1>5. AllWait(p, it, t, e)
  BY <1>1, <1>3, <1>4 DEF AllWait, ListIs
<1>6. \A n \in DOMAIN t : t[n] # Head(q) /\ \E m \in DOMAIN q : q[m] = t[n]
  BY <1>1, <1>3, <1>4 DEF ListIs
<1> QED
  BY <1>1, <1>4, <1>5, <1>6 DEF t

LeftOf(q) == IF q # << >> /\ Head(q) = InProgress THEN Tail(q) ELSE q

(* What is left of a queue without its sentinel waits.                      *)
LEMMA LeftWaits ==
  ASSUME NEW p, NEW it, NEW q \in FxQueue, NEW e, ListIs(p, it, q, e)
  PROVE  /\ AllWait(p, it, LeftOf(q), e)
         /\ \A n \in DOMAIN LeftOf(q) : \E m \in DOMAIN q : q[m] = LeftOf(q)[n]
<1>1. CASE q = << >>
  BY <1>1, NoCalls DEF AllWait, LeftOf
<1>2. CASE q # << >> /\ Head(q) = InProgress
  BY <1>2, TailWaits DEF LeftOf
<1>3. CASE q # << >> /\ Head(q) # InProgress
  <2>1. q[1] # InProgress
    BY <1>3, HeadTailProperties DEF FxQueue
  <2> QED
    BY <1>3, <2>1 DEF AllWait, ListIs, LeftOf
<1> QED
  BY <1>1, <1>2, <1>3

(* Items that all wait are a list.                                          *)
LEMMA WaitersList ==
  ASSUME NEW p, NEW it, NEW q, NEW e, AllWait(p, it, q, e)
  PROVE  ListIs(p, it, q, e)
BY DEF AllWait, ListIs

Sealed(t) == <<InProgress>> \o t

(* The sentinel before items that wait makes a list of them.                *)
LEMMA Sentinel ==
  ASSUME NEW p, NEW it, NEW t, NEW e, AllWait(p, it, t, e), NEW q, q = Sealed(t)
  PROVE  /\ q \in FxQueue /\ ListIs(p, it, q, e) /\ q # << >>
         /\ \A n \in DOMAIN q : q[n] = InProgress \/ \E m \in DOMAIN t : q[n] = t[m]
<1>1. t \in FxQueue /\ <<InProgress>> \in FxQueue /\ Len(<<InProgress>>) = 1
      /\ <<InProgress>>[1] = InProgress
  BY DEF AllWait, FxQueue
<1>2. /\ q \in FxQueue /\ Len(q) = 1 + Len(t)
      /\ \A n \in 1 .. 1 + Len(t) : q[n] = IF n <= 1 THEN <<InProgress>>[n] ELSE t[n - 1]
  BY <1>1, ConcatProperties DEF FxQueue, Sealed
<1>3. Len(t) \in Nat /\ DOMAIN t = 1 .. Len(t) /\ DOMAIN q = 1 .. 1 + Len(t)
  BY <1>1, <1>2, LenProperties DEF FxQueue
<1>4. \A n \in DOMAIN q : (n = 1 /\ q[n] = InProgress) \/ (n - 1 \in DOMAIN t /\ q[n] = t[n - 1])
  BY <1>1, <1>2, <1>3
<1>5. \A m, n \in DOMAIN q : m # n => m - 1 # n - 1
  BY <1>3
<1>6. \A n \in DOMAIN t : t[n] # InProgress
  BY DEF AllWait, Waits, Items, InProgress
<1>7. ListIs(p, it, q, e)
  <2>1. \A m, n \in DOMAIN q : q[m] = q[n] => m = n
    <3> SUFFICES ASSUME NEW m \in DOMAIN q, NEW n \in DOMAIN q, q[m] = q[n] PROVE m = n
      OBVIOUS
    <3>1. CASE q[m] = InProgress
      BY <1>4, <1>6, <3>1
    <3>2. CASE q[m] # InProgress
      <4>1. /\ m - 1 \in DOMAIN t /\ q[m] = t[m - 1] /\ n - 1 \in DOMAIN t /\ q[n] = t[n - 1]
        BY <1>4, <3>2
      <4>2. m - 1 = n - 1
        BY <4>1 DEF AllWait
      <4> QED
        BY <1>5, <4>2
    <3> QED
      BY <3>1, <3>2
  <2> QED
    BY <1>4, <2>1 DEF ListIs, AllWait
<1>8. q # << >>
  BY <1>2, <1>3
<1> QED
  BY <1>2, <1>4, <1>7, <1>8

(* A delay or an animation starts.                                          *)
LEMMA StartDoes ==
  ASSUME EffectsInv, NEW e \in Animated, NEW i, Waits(progress, item, i, e), NEW above,
         Start(i, above), item' = item, fxCompleted' = fxCompleted
  PROVE  /\ i \in Items /\ progress' \in FxProgress /\ progress'[i] = "running"
         /\ \A j \in Items : j # i => progress'[j] = progress[j]
         /\ Keeps(progress, item, progress', item)
         /\ fxTimers' \in Seq(Items) /\ Longer(fxTimers, fxTimers')
         /\ TimersAre(progress', item, fxTimers')
         /\ timerId' \in BOOLEAN
         /\ \A j \in Items : TimedBy(fxTimers, timerId, j) => TimedBy(fxTimers', timerId', j)
         /\ timeouts' \in SUBSET Items /\ timeouts \subseteq timeouts'
         /\ \A j \in timeouts' : progress'[j] = "running" /\ item[j].kind = "delay"
         /\ Mover(progress', item, timeouts', i, e)
         /\ \/ /\ ReturnWith(above)
               /\ item[i].kind # "delay" => TimedBy(fxTimers', timerId', i)
            \/ ReturnWith(<<Resolve(i)>> \o above) /\ item[i].kind \in {"fade", "instant"}
         /\ CompletesOnce'
<1>1. /\ i \in Items /\ progress[i] = "queued" /\ item[i].elem = e
      /\ item[i].kind \in {"fade", "instant", "delay"}
  BY DEF Waits
<1>2. /\ progress' = [progress EXCEPT ![i] = "running"]
      /\ timeouts' = IF item[i].kind = "delay" THEN timeouts \cup {i} ELSE timeouts
      /\ fxTimers' = IF item[i].kind = "fade" THEN Append(fxTimers, i) ELSE fxTimers
      /\ timerId' = (timerId \/ item[i].kind = "fade")
      /\ \/ ReturnWith(above) /\ item[i].kind \in {"fade", "delay"}
         \/ ReturnWith(<<Resolve(i)>> \o above) /\ item[i].kind # "delay"
  BY DEF Start, IsDelay
<1>3. /\ progress \in FxProgress /\ fxTimers \in Seq(Items) /\ timerId \in BOOLEAN
      /\ timeouts \in SUBSET Items
  BY DEF EffectsInv, FxTypes
<1>4. /\ progress' \in FxProgress /\ progress'[i] = "running"
      /\ \A j \in Items : j # i => progress'[j] = progress[j]
  BY <1>1, <1>2, <1>3 DEF FxProgress
<1>5. Keeps(progress, item, progress', item)
  BY <1>1, <1>4 DEF Keeps, HasStarted
<1>6. /\ fxTimers' \in Seq(Items) /\ Longer(fxTimers, fxTimers')
      /\ \A n \in DOMAIN fxTimers' :
           (\E m \in DOMAIN fxTimers : fxTimers'[n] = fxTimers[m]) \/
             (item[i].kind = "fade" /\ fxTimers'[n] = i)
      /\ \A n \in DOMAIN fxTimers : \E m \in DOMAIN fxTimers' : fxTimers'[m] = fxTimers[n]
      /\ item[i].kind = "fade" => \E n \in DOMAIN fxTimers' : fxTimers'[n] = i
  <2>1. CASE item[i].kind = "fade"
    <3>1. fxTimers' = Append(fxTimers, i)
      BY <1>2, <2>1
    <3>2. /\ fxTimers' \in Seq(Items) /\ Len(fxTimers') = Len(fxTimers) + 1
          /\ \A n \in 1 .. Len(fxTimers) : fxTimers'[n] = fxTimers[n]
          /\ fxTimers'[Len(fxTimers) + 1] = i
      BY <1>1, <1>3, <3>1, AppendProperties
    <3>3. /\ Len(fxTimers) \in Nat /\ DOMAIN fxTimers = 1 .. Len(fxTimers)
          /\ DOMAIN fxTimers' = 1 .. Len(fxTimers) + 1
      BY <1>3, <3>2, LenProperties
    <3>4. Longer(fxTimers, fxTimers')
      BY <3>2, <3>3 DEF Longer
    <3>5. \A n \in DOMAIN fxTimers' :
            (n \in DOMAIN fxTimers /\ fxTimers'[n] = fxTimers[n]) \/ fxTimers'[n] = i
      BY <3>2, <3>3
    <3>6. \A n \in DOMAIN fxTimers : n \in DOMAIN fxTimers' /\ fxTimers'[n] = fxTimers[n]
      BY <3>2, <3>3
    <3>7. Len(fxTimers) + 1 \in DOMAIN fxTimers'
      BY <3>3
    <3> QED
      BY <2>1, <3>2, <3>4, <3>5, <3>6, <3>7
  <2>2. CASE item[i].kind # "fade"
    <3>1. fxTimers' = fxTimers
      BY <1>2, <2>2
    <3> QED
      BY <1>3, <2>2, <3>1, SameIsLonger
  <2> QED
    BY <2>1, <2>2
<1>7. TimersAre(progress', item, fxTimers')
  <2>1. \A n \in DOMAIN fxTimers :
          HasStarted(progress', fxTimers[n]) /\ item[fxTimers[n]].kind = "fade"
    BY <1>5 DEF EffectsInv, TimersAre, Keeps, HasStarted
  <2>2. HasStarted(progress', i)
    BY <1>1, <1>4 DEF HasStarted
  <2> QED
    BY <1>6, <2>1, <2>2 DEF TimersAre
<1>8. \A j \in Items : TimedBy(fxTimers, timerId, j) => TimedBy(fxTimers', timerId', j)
  BY <1>2, <1>3, <1>6 DEF TimedBy
<1>9. item[i].kind = "fade" => TimedBy(fxTimers', timerId', i)
  BY <1>2, <1>3, <1>6 DEF TimedBy
<1>10. /\ timerId' \in BOOLEAN /\ timeouts' \in SUBSET Items /\ timeouts \subseteq timeouts'
       /\ item[i].kind = "delay" => i \in timeouts'
  BY <1>1, <1>2, <1>3
<1>11. \A j \in timeouts' : progress'[j] = "running" /\ item[j].kind = "delay"
  BY <1>1, <1>2, <1>3, <1>4 DEF EffectsInv, DelaysAre
<1>12. Mover(progress', item, timeouts', i, e)
  BY <1>1, <1>4, <1>10 DEF Mover
<1>13. CompletesOnce'
  BY <1>1, <1>4 DEF EffectsInv, CompletesOnce
<1> QED
  BY <1>1, <1>2, <1>4, <1>5, <1>6, <1>7, <1>8, <1>9, <1>10, <1>11, <1>12, <1>13

(* An item of e has been started: what moves the rest, and who takes the    *)
(* next items, goes on.                                                     *)
LEMMA StartGoesOn ==
  ASSUME EffectsInv, ~ nested, NEW e \in Animated, NEW i \in Items,
         item' = item, Keeps(progress, item, progress', item),
         progress'[i] = "running", \A j \in Items : j # i => progress'[j] = progress[j],
         fxTimers' \in Seq(Items), Longer(fxTimers, fxTimers'),
         \A j \in Items : TimedBy(fxTimers, timerId, j) => TimedBy(fxTimers', timerId', j),
         timeouts \subseteq timeouts', Mover(progress', item, timeouts', i, e),
         NEW above \in Seq(FxCallSet), 1 <= Len(fxCalls), After(fxCalls, above, 1, fxCalls'),
         \A k \in DOMAIN above : ~ IsStop(above[k]),
         item[i].kind # "delay" => TimedBy(fxTimers', timerId', i) \/ EndsNext(fxCalls', i),
         Settled(progress', fxCalls), \A f \in Animated : Takes(fxCalls[1], f) => f = e,
         \A f \in Animated : f # e => queues'[f] = queues[f]
  PROVE  /\ LoopsAre(fxCalls, fxTimers)'
         /\ Moves(progress, item, fxTimers, timerId, fxCalls)'
         /\ Taken(progress, item, queues, timeouts, fxCalls)'
<1>1. /\ fxCalls \in Seq(FxCallSet) /\ fxTimers \in Seq(Items)
      /\ LoopsAre(fxCalls, fxTimers) /\ Moves(progress, item, fxTimers, timerId, fxCalls)
  BY DEF EffectsInv, FxTypes
<1>2. LoopsAre(fxCalls, fxTimers)'
  BY <1>1, LoopsKept
<1>3. Moves(progress, item, fxTimers, timerId, fxCalls)'
  <2>1. \A j \in Items :
          progress'[j] = "running" /\ progress[j] # "running" /\ item[j].kind # "delay" =>
            TimedBy(fxTimers', timerId', j) \/ EndsNext(fxCalls', j)
    OBVIOUS
  <2>2. Moves(progress', item, fxTimers', timerId', fxCalls')
    BY <1>1, <2>1, MovesKept
  <2> QED
    BY <2>2
<1>4. ASSUME NEW f \in Animated, queues'[f] # << >>
      PROVE  TakenBy(progress', item', timeouts', fxCalls', f)
  <2>1. CASE f = e
    BY <2>1, MoverTakes
  <2>2. CASE f # e
    <3>1. TakenBy(progress, item, timeouts, fxCalls, f)
      BY <1>4, <2>2 DEF EffectsInv, Taken
    <3>2. \A j \in Items :
            Mover(progress, item, timeouts, j, f) => TakenBy(progress', item, timeouts', fxCalls', f)
      <4> SUFFICES ASSUME NEW j \in Items, Mover(progress, item, timeouts, j, f)
                   PROVE  Mover(progress', item, timeouts', j, f)
        BY MoverTakes
      <4> QED
        BY DEF Mover
    <3> QED
      BY <1>1, <2>2, <3>1, <3>2, TakenKept
  <2> QED
    BY <2>1, <2>2
<1> QED
  BY <1>2, <1>3, <1>4 DEF Taken

(* The next item of a queue is taken.                                       *)
LEMMA DequeueKeeps ==
  ASSUME EffectsInv, dequeue
  PROVE  EffectsInv'
<1> DEFINE e == Head(fxCalls).elem
           q == queues[e]
           left == IF q # << >> /\ Head(q) = InProgress THEN Tail(q) ELSE q
           i == Head(left)
<1>1. /\ fxCalls \in Seq(FxCallSet) /\ fxCalls # << >> /\ fxCalls[1] = Dequeue(e)
      /\ 1 <= Len(fxCalls) /\ fxCalls[1].call = "dequeue" /\ e \in Animated
  <2>1. /\ fxCalls \in Seq(FxCallSet) /\ fxCalls # << >> /\ Head(fxCalls).call = "dequeue"
    BY DEF EffectsInv, FxTypes, dequeue, Calling
  <2>2. /\ 1 <= Len(fxCalls) /\ Head(fxCalls) = fxCalls[1] /\ Head(fxCalls) \in FxCallSet
    BY <2>1, OnTop
  <2>3. Head(fxCalls) \in DequeueCalls /\ Head(fxCalls) = Dequeue(e)
    BY <2>1, <2>2, CallKinds
  <2> QED
    BY <2>1, <2>2, <2>3 DEF DequeueCalls
<1>2. \/ /\ left = << >> /\ Emptied(e) /\ ReturnWith(<< >>)
         /\ UNCHANGED <<progress, timerVars>>
      \/ /\ left # << >>
         /\ queues' = [queues EXCEPT ![e] = <<InProgress>> \o Tail(left)]
         /\ hook' = [hook EXCEPT ![e] = IF IsDelay(i) THEN i ELSE NoItem]
         /\ Start(i, << >>)
  BY Zenon DEF dequeue
<1>3. UNCHANGED <<item, finishing, stops, fxCompleted, nested>>
  BY DEF dequeue
<1>4. \A f \in Animated : Takes(fxCalls[1], f) => f = e
  BY <1>1 DEF Takes, IsStop, Dequeue
<1>5. Settled(progress, fxCalls) /\ Settled(progress', fxCalls)
  BY <1>1 DEF Settled
<1>6. /\ queues \in [Animated -> FxQueue] /\ hook \in [Animated -> Items \cup {NoItem}]
      /\ << >> \in FxQueue /\ q \in FxQueue /\ ListIs(progress, item, q, e)
  BY <1>1 DEF EffectsInv, FxTypes, FxQueue, ListsAre
<1>7. q = queues[e] /\ left = LeftOf(q)
  BY DEF LeftOf
<1> HIDE DEF e, q, left
<1>8. /\ AllWait(progress, item, left, e)
      /\ \A n \in DOMAIN left : \E m \in DOMAIN q : q[m] = left[n]
  BY <1>6, <1>7, LeftWaits
<1>9. CASE left = << >> /\ Emptied(e) /\ ReturnWith(<< >>) /\ UNCHANGED <<progress, timerVars>>
  <2>1. /\ UNCHANGED <<progress, fxTimers, timerId, timeouts>>
        /\ queues' = [queues EXCEPT ![e] = << >>] /\ hook' = [hook EXCEPT ![e] = NoItem]
    BY <1>9 DEF Emptied, timerVars
  <2>2. /\ queues' \in [Animated -> FxQueue] /\ hook' \in [Animated -> Items \cup {NoItem}]
        /\ queues'[e] = << >>
    BY <1>1, <1>6, <2>1
  <2>3. FewerWait
    BY <1>6, <2>1 DEF FewerWait
  <2>4. After(fxCalls, << >>, 1, fxCalls')
    BY <1>1, <1>9, NoCalls, Returned DEF ReturnWith
  <2>5. FxTypes'
    BY <1>3, <2>1, <2>2, <2>4 DEF EffectsInv, FxTypes, After
  <2>6. ASSUME ~ nested' PROVE GoesOn(<< >>, 1)
    <3>1. LoopsAre(fxCalls, fxTimers)'
      <4>1. LoopsAre(fxCalls, fxTimers) /\ fxTimers \in Seq(Items)
        BY <1>3, <2>6 DEF EffectsInv, FxTypes
      <4> QED
        BY <1>1, <2>1, <2>4, <4>1, NoCalls, SameIsLonger, LoopsKept
    <3> QED
      BY <1>4, <2>1, <2>2, <3>1 DEF GoesOn
  <2>7. /\ ~ nested' => ~ nested
        /\ \A n \in DOMAIN fxTimers' : \E m \in DOMAIN fxTimers : fxTimers'[n] = fxTimers[m]
        /\ timeouts' \subseteq timeouts /\ progress' = progress /\ item' = item
        /\ fxCompleted' = fxCompleted
    BY <1>3, <2>1
  <2> QED
    BY <1>1, <1>5, <2>3, <2>4, <2>5, <2>6, <2>7, NoCalls, NoneAdded, FewerStack
<1>10. CASE /\ left # << >>
            /\ queues' = [queues EXCEPT ![e] = <<InProgress>> \o Tail(left)]
            /\ hook' = [hook EXCEPT ![e] = IF IsDelay(i) THEN i ELSE NoItem]
            /\ Start(i, << >>)
  <2> DEFINE t == Tail(left)
             q2 == <<InProgress>> \o t
  <2>1. ListIs(progress, item, left, e) /\ left \in FxQueue
    BY <1>8, WaitersList DEF AllWait
  <2>2. /\ AllWait(progress, item, t, e) /\ \E m \in DOMAIN left : left[m] = i
        /\ \A n \in DOMAIN t : t[n] # i /\ \E m \in DOMAIN left : left[m] = t[n]
    BY <1>10, <2>1, TailWaits
  <2>3. queues' = [queues EXCEPT ![e] = q2] /\ q2 = Sealed(t)
    BY <1>10 DEF Sealed
  <2> HIDE DEF t, q2
  <2>4. /\ Waits(progress, item, i, e) /\ \E m \in DOMAIN q : q[m] = i
        /\ \A n \in DOMAIN t : \E m \in DOMAIN q : q[m] = t[n]
    BY <1>8, <2>2 DEF AllWait
  <2> HIDE DEF i
  <2>5. /\ i \in Items /\ progress' \in FxProgress /\ progress'[i] = "running"
        /\ \A j \in Items : j # i => progress'[j] = progress[j]
        /\ Keeps(progress, item, progress', item)
        /\ fxTimers' \in Seq(Items) /\ Longer(fxTimers, fxTimers')
        /\ TimersAre(progress', item, fxTimers')
        /\ timerId' \in BOOLEAN
        /\ \A j \in Items : TimedBy(fxTimers, timerId, j) => TimedBy(fxTimers', timerId', j)
        /\ timeouts' \in SUBSET Items /\ timeouts \subseteq timeouts'
        /\ \A j \in timeouts' : progress'[j] = "running" /\ item[j].kind = "delay"
        /\ Mover(progress', item, timeouts', i, e)
        /\ \/ /\ ReturnWith(<< >>)
              /\ item[i].kind # "delay" => TimedBy(fxTimers', timerId', i)
           \/ ReturnWith(<<Resolve(i)>> \o << >>) /\ item[i].kind \in {"fade", "instant"}
        /\ CompletesOnce'
    BY <1>1, <1>3, <1>10, <2>4, StartDoes
  <2>6. PICK above \in {<< >>, <<Resolve(i)>>} :
          /\ ReturnWith(above)
          /\ above = << >> => (item[i].kind # "delay" => TimedBy(fxTimers', timerId', i))
          /\ above # << >> => item[i].kind \in {"fade", "instant"}
    <3>1. Resolve(i) \in FxCallSet
      BY <2>5, Frames
    <3>2. <<Resolve(i)>> \in Seq(FxCallSet) /\ <<Resolve(i)>> # << >>
      BY <3>1, OneCall
    <3>3. <<Resolve(i)>> \o << >> = <<Resolve(i)>>
      BY <3>2, ConcatEmptySeq
    <3> QED
      BY <2>5, <3>2, <3>3
  <2>7. /\ above \in Seq(FxCallSet)
        /\ \A k \in DOMAIN above :
             above[k] = Resolve(i) /\ above[k].call = "resolve" /\ above[k].item = i /\ above # << >>
        /\ above # << >> => 1 \in DOMAIN above
    <3>1. Resolve(i) \in FxCallSet /\ Resolve(i).call = "resolve" /\ Resolve(i).item = i
      BY <2>5, Frames DEF Resolve
    <3>2. CASE above = << >>
      BY <3>2, NoCalls
    <3>3. CASE above = <<Resolve(i)>>
      BY <3>1, <3>3, OneCall
    <3> QED
      BY <2>6, <3>2, <3>3
  <2>8. After(fxCalls, above, 1, fxCalls')
    BY <1>1, <2>6, <2>7, Returned DEF ReturnWith
  <2>9. /\ AllWait(progress', item', t, e)
    BY <1>3, <2>2, <2>5 DEF AllWait, Waits
  <2>10. /\ q2 \in FxQueue /\ ListIs(progress', item', q2, e) /\ q2 # << >>
         /\ \A n \in DOMAIN q2 : q2[n] = InProgress \/ \E m \in DOMAIN q : q2[n] = q[m]
    <3>1. /\ q2 \in FxQueue /\ ListIs(progress', item', q2, e) /\ q2 # << >>
          /\ \A n \in DOMAIN q2 : q2[n] = InProgress \/ \E m \in DOMAIN t : q2[n] = t[m]
      BY <2>3, <2>9, Sentinel
    <3> QED
      BY <2>4, <3>1
  <2>11. /\ queues' \in [Animated -> FxQueue] /\ queues'[e] = q2
         /\ \A f \in Animated : f # e => queues'[f] = queues[f]
    BY <1>1, <1>6, <2>3, <2>10
  <2>12. /\ hook' \in [Animated -> Items \cup {NoItem}] /\ hook'[e] \in {i, NoItem}
         /\ \A f \in Animated : f # e => hook'[f] = hook[f]
    BY <1>1, <1>6, <1>10, <2>5
  <2>13. FxTypes'
    BY <1>3, <2>5, <2>8, <2>11, <2>12 DEF EffectsInv, FxTypes, After
  <2>14. \A f \in Animated : \A r : Apart(queues[f], r) => Apart(queues'[f], r)
    BY <1>7, <2>10, <2>11 DEF Apart
  <2>15. ListsAre(progress, item, queues)'
    <3> SUFFICES ASSUME NEW f \in Animated PROVE ListIs(progress', item', queues'[f], f)
      BY DEF ListsAre
    <3>1. CASE f = e
      BY <2>10, <2>11, <3>1
    <3>2. CASE f # e
      <4>1. ListIs(progress, item, queues[f], f)
        BY DEF EffectsInv, ListsAre
      <4>2. \A n \in DOMAIN queues[f] : queues[f][n] # i
        BY <2>4, <2>5, <3>2, <4>1 DEF ListIs, Waits, Items, InProgress
      <4>3. \A n \in DOMAIN queues[f] :
              queues[f][n] \in Items /\ progress[queues[f][n]] = "queued" =>
                progress'[queues[f][n]] = "queued"
        BY <2>5, <4>2
      <4> QED
        BY <1>3, <2>5, <2>11, <3>2, <4>1, <4>3, ListKept
    <3> QED
      BY <3>1, <3>2
  <2>16. StackIs(progress, item, queues, fxCalls)'
    <3>1. ASSUME NEW k \in DOMAIN fxCalls PROVE CallIs(progress', item', queues', fxCalls[k])
      <4>1. CallIs(progress, item, queues, fxCalls[k]) /\ fxCalls[k] \in FxCallSet
        BY <1>1, <3>1, ElementOfSeq DEF EffectsInv, StackIs
      <4>2. ASSUME IsPlay(fxCalls[k])
            PROVE  /\ \A n \in DOMAIN fxCalls[k].rest : fxCalls[k].rest[n] # i
                   /\ \A f \in Animated : Apart(queues'[f], fxCalls[k].rest)
        <5>1. \A f \in Animated : Apart(queues[f], fxCalls[k].rest)
          BY <4>1, <4>2 DEF CallIs, IsPlay
        <5>2. i # InProgress
          BY <2>5 DEF Items, InProgress
        <5> QED
          BY <1>1, <1>7, <2>4, <2>14, <5>1, <5>2 DEF Apart
      <4>3. IsPlay(fxCalls[k]) =>
              /\ \A n \in DOMAIN fxCalls[k].rest :
                   fxCalls[k].rest[n] \in Items /\ progress[fxCalls[k].rest[n]] = "queued" =>
                     progress'[fxCalls[k].rest[n]] = "queued"
              /\ \A f \in Animated : Apart(queues'[f], fxCalls[k].rest)
        BY <2>5, <4>2
      <4> QED
        BY <1>3, <2>5, <4>1, <4>3, CallKept
    <3>2. \A k \in DOMAIN fxCalls : Pends(fxCalls[k]) => progress'[fxCalls[k].timer] # "running"
      <4>1. StackIs(progress, item, queues, fxCalls)
        BY DEF EffectsInv
      <4> QED
        BY <1>1, <1>5, <2>5, <4>1, PendingKept
    <3>3. \A k \in DOMAIN above :
            /\ CallIs(progress', item', queues', above[k])
            /\ above[k].call # "tick" /\ ~ IsPlay(above[k]) /\ ~ Pends(above[k])
      BY <1>3, <2>5, <2>6, <2>7 DEF CallIs, IsPlay, Pends, HasStarted
    <3>4. Stacked(progress', item', queues', fxCalls, above, 1, fxCalls')
      BY <3>1, <3>2, <3>3 DEF Stacked
    <3> QED
      BY <1>1, <2>7, <2>8, <3>4, StackKept DEF EffectsInv
  <2>17. DelaysAre(progress, item, hook, timeouts)'
    <3>1. \A f \in Animated :
            hook'[f] # NoItem => HasStarted(progress', hook'[f]) /\ item[hook'[f]].elem = f
      <4> SUFFICES ASSUME NEW f \in Animated, hook'[f] # NoItem
                   PROVE  HasStarted(progress', hook'[f]) /\ item[hook'[f]].elem = f
        OBVIOUS
      <4>1. CASE f = e
        BY <2>4, <2>5, <2>12, <4>1 DEF HasStarted, Waits
      <4>2. CASE f # e
        BY <2>5, <2>12, <4>2 DEF EffectsInv, DelaysAre, Keeps, HasStarted
      <4> QED
        BY <4>1, <4>2
    <3> QED
      BY <1>3, <2>5, <3>1 DEF DelaysAre
  <2>18. ASSUME ~ nested
         PROVE  /\ LoopsAre(fxCalls, fxTimers)'
                /\ Moves(progress, item, fxTimers, timerId, fxCalls)'
                /\ Taken(progress, item, queues, timeouts, fxCalls)'
    <3>1. \A k \in DOMAIN above : ~ IsStop(above[k])
      BY <2>7 DEF IsStop
    <3>2. item[i].kind # "delay" => TimedBy(fxTimers', timerId', i) \/ EndsNext(fxCalls', i)
      <4>1. above # << >> => EndsNext(fxCalls', i)
        BY <2>7, <2>8, NoCalls DEF EndsNext, After
      <4> QED
        BY <2>6, <4>1
    <3> QED
      BY <1>1, <1>3, <1>4, <1>5, <2>5, <2>7, <2>8, <2>11, <2>18, <3>1, <3>2, StartGoesOn
  <2> QED
    BY <1>3, <2>5, <2>13, <2>15, <2>16, <2>17, <2>18 DEF EffectsInv
<1> QED
  BY <1>2, <1>9, <1>10 DEF i

(* finish plays what waited.                                                *)
WithoutFirst(c) == [c EXCEPT !.rest = Tail(@)]

(* finish after the first that it plays.                                    *)
LEMMA PlayGoesOn ==
  ASSUME NEW c \in PlayCalls, c.rest # << >>
  PROVE  LET next == WithoutFirst(c)
         IN  /\ next \in PlayCalls /\ next \in FxCallSet /\ next.call = "play"
             /\ next.rest = Tail(c.rest) /\ next.elem = c.elem
<1> DEFINE next == WithoutFirst(c)
<1>1. Tail(c.rest) \in FxQueue
  BY HeadTailProperties DEF PlayCalls, FxQueue
<1>2. next = [c EXCEPT !.rest = Tail(c.rest)]
  BY DEF WithoutFirst
<1> HIDE DEF next
<1>3. next \in PlayCalls /\ next.call = "play" /\ next.rest = Tail(c.rest) /\ next.elem = c.elem
  BY <1>1, <1>2 DEF PlayCalls
<1>4. next \in FxCallSet
  BY <1>3, Frames
<1> QED
  BY <1>3, <1>4, Zenon DEF next

(* The end of what finish has started, and finish.                          *)
LEMMA EndsThenPlays ==
  ASSUME NEW r \in FxCallSet, NEW c \in FxCallSet
  PROVE  <<r>> \o <<c>> = <<r, c>>
<1> DEFINE s == <<r>> \o <<c>>
           t == <<r, c>>
<1>1. /\ <<r>> \in Seq(FxCallSet) /\ Len(<<r>>) = 1 /\ <<r>>[1] = r
      /\ <<c>> \in Seq(FxCallSet) /\ Len(<<c>>) = 1 /\ <<c>>[1] = c
      /\ t \in Seq(FxCallSet) /\ Len(t) = 2 /\ t[1] = r /\ t[2] = c
  OBVIOUS
<1>2. /\ s \in Seq(FxCallSet) /\ Len(s) = 1 + 1
      /\ \A i \in 1 .. 1 + 1 : s[i] = IF i <= 1 THEN <<r>>[i] ELSE <<c>>[i - 1]
  BY <1>1, ConcatProperties
<1> HIDE DEF s, t
<1>3. \A i \in 1 .. Len(s) : s[i] = t[i]
  <2> SUFFICES ASSUME NEW i \in 1 .. Len(s) PROVE s[i] = t[i]
    OBVIOUS
  <2>1. CASE i = 1
    BY <1>1, <1>2, <2>1
  <2>2. CASE i = 2
    BY <1>1, <1>2, <2>2
  <2> QED
    BY <1>2, <2>1, <2>2
<1>4. s = t
  BY <1>1, <1>2, <1>3, SeqEqual
<1> QED
  BY <1>4 DEF s, t

(* The stack is as it should be when finish goes on, below an end or not.   *)
LEMMA PlayStack ==
  ASSUME EffectsInv, NEW c \in PlayCalls, fxCalls # << >>, fxCalls[1] = c, c.call = "play",
         c.rest # << >>, item' = item, queues' = queues,
         Keeps(progress, item, progress', item),
         \A j \in Items : j # Head(c.rest) => progress'[j] = progress[j],
         NEW above \in Seq(FxCallSet), After(fxCalls, above, 1, fxCalls'),
         \A k \in DOMAIN above :
           \/ /\ above[k].call = "resolve"
              /\ CallIs(progress', item, queues, above[k])
           \/ above[k] = WithoutFirst(c) /\ \A l \in DOMAIN above : IsPlay(above[l]) => l = k
  PROVE  StackIs(progress, item, queues, fxCalls)'
<1> DEFINE i == Head(c.rest)
           t == Tail(c.rest)
           next == WithoutFirst(c)
<1>1. /\ fxCalls \in Seq(FxCallSet) /\ 1 \in DOMAIN fxCalls /\ 1 <= Len(fxCalls)
      /\ StackIs(progress, item, queues, fxCalls)
  BY OnTop DEF EffectsInv, FxTypes
<1>2. /\ c.rest \in FxQueue /\ ListIs(progress, item, c.rest, c.elem)
      /\ \A f \in Animated : Apart(queues[f], c.rest)
  <2>1. CallIs(progress, item, queues, c)
    BY <1>1 DEF StackIs
  <2> QED
    BY <2>1 DEF CallIs, PlayCalls
<1>3. /\ AllWait(progress, item, t, c.elem) /\ \E m \in DOMAIN c.rest : c.rest[m] = i
      /\ \A n \in DOMAIN t : t[n] # i /\ \E m \in DOMAIN c.rest : c.rest[m] = t[n]
  BY <1>2, TailWaits
<1>4. /\ next \in FxCallSet /\ next.call = "play" /\ next.rest = t /\ next.elem = c.elem
  BY PlayGoesOn
<1>5. \A j \in Items : j # i => progress'[j] = progress[j]
  OBVIOUS
<1> HIDE DEF i, t, next
<1>6. AllWait(progress', item, t, c.elem)
  BY <1>3, <1>5 DEF AllWait, Waits
<1>7. CallIs(progress', item, queues, next)
  <2>1. ListIs(progress', item, next.rest, next.elem)
    BY <1>4, <1>6, WaitersList
  <2>2. \A f \in Animated : Apart(queues[f], next.rest)
    BY <1>2, <1>3, <1>4 DEF Apart
  <2> QED
    BY <1>4, <2>1, <2>2 DEF CallIs
<1>8. ASSUME NEW k \in DOMAIN fxCalls, k > 1
      PROVE  /\ CallIs(progress', item, queues, fxCalls[k])
             /\ IsPlay(fxCalls[k]) => Apart(next.rest, fxCalls[k].rest)
  <2>1. CallIs(progress, item, queues, fxCalls[k]) /\ fxCalls[k] \in FxCallSet
    BY <1>1, <1>8, ElementOfSeq DEF StackIs
  <2>2. IsPlay(fxCalls[k]) => Apart(c.rest, fxCalls[k].rest)
    BY <1>1, <1>8 DEF StackIs, IsPlay
  <2>3. IsPlay(fxCalls[k]) =>
          /\ \A n \in DOMAIN fxCalls[k].rest :
               fxCalls[k].rest[n] \in Items /\ progress[fxCalls[k].rest[n]] = "queued" =>
                 progress'[fxCalls[k].rest[n]] = "queued"
          /\ \A f \in Animated : Apart(queues[f], fxCalls[k].rest)
    <3>1. InProgress \notin Items
      BY DEF Items, InProgress
    <3>2. IsPlay(fxCalls[k]) => \A f \in Animated : Apart(queues[f], fxCalls[k].rest)
      BY <2>1 DEF CallIs, IsPlay
    <3>3. ASSUME IsPlay(fxCalls[k]), NEW n \in DOMAIN fxCalls[k].rest,
                 fxCalls[k].rest[n] \in Items
          PROVE  fxCalls[k].rest[n] # i
      BY <1>3, <2>2, <3>1, <3>3 DEF Apart
    <3> QED
      BY <1>5, <3>2, <3>3
  <2>4. CallIs(progress', item, queues, fxCalls[k])
    BY <2>1, <2>3, CallKept
  <2>5. IsPlay(fxCalls[k]) => Apart(next.rest, fxCalls[k].rest)
    BY <1>3, <1>4, <2>2 DEF Apart
  <2> QED
    BY <2>4, <2>5
<1>9. \A k \in DOMAIN fxCalls : Pends(fxCalls[k]) => progress'[fxCalls[k].timer] # "running"
  <2>1. Settled(progress', fxCalls)
    BY DEF Settled
  <2> QED
    BY <1>1, <2>1, PendingKept
<1>10. ASSUME NEW k \in DOMAIN above
       PROVE  /\ CallIs(progress', item, queues, above[k])
              /\ above[k].call # "tick" /\ ~ Pends(above[k])
              /\ IsPlay(above[k]) =>
                   /\ above[k] = next /\ \A l \in DOMAIN above : IsPlay(above[l]) => l = k
  <2>1. CASE above[k].call = "resolve" /\ CallIs(progress', item, queues, above[k])
    BY <2>1 DEF IsPlay, Pends
  <2>2. CASE above[k] = next /\ \A l \in DOMAIN above : IsPlay(above[l]) => l = k
    BY <1>4, <1>7, <2>2 DEF Pends
  <2> QED
    BY <2>1, <2>2 DEF next
<1>11. Stacked(progress', item, queues, fxCalls, above, 1, fxCalls')
  BY <1>8, <1>9, <1>10 DEF Stacked
<1>12. StackIs(progress', item, queues, fxCalls')
  BY <1>1, <1>11, StackKept
<1> QED
  BY <1>12

(* finish plays the next animation of those it has found.                   *)
LEMMA PlayKeeps ==
  ASSUME EffectsInv, Play
  PROVE  EffectsInv'
<1> DEFINE c == Head(fxCalls)
           i == Head(c.rest)
           next == [c EXCEPT !.rest = Tail(@)]
           hasFinish == i \in {j \in Items : ~ IsDelay(j)}
<1>1. /\ fxCalls \in Seq(FxCallSet) /\ fxCalls # << >> /\ fxCalls[1] = c /\ 1 \in DOMAIN fxCalls
      /\ 1 <= Len(fxCalls) /\ c.call = "play" /\ c \in PlayCalls /\ c \in FxCallSet
      /\ c.elem \in Animated
  <2>1. /\ fxCalls \in Seq(FxCallSet) /\ fxCalls # << >> /\ Head(fxCalls).call = "play"
    BY DEF EffectsInv, FxTypes, Play, Calling
  <2>2. /\ 1 \in DOMAIN fxCalls /\ 1 <= Len(fxCalls) /\ Head(fxCalls) = fxCalls[1]
        /\ Head(fxCalls) \in FxCallSet
    BY <2>1, OnTop
  <2>3. Head(fxCalls) \in PlayCalls
    BY <2>1, <2>2, CallKinds
  <2> QED
    BY <2>1, <2>2, <2>3 DEF PlayCalls
<1>2. UNCHANGED <<item, queues, hook, stops, fxCompleted, nested>>
  BY DEF Play
<1>3. \/ c.rest # << >> /\ hasFinish /\ Start(i, <<next>>) /\ UNCHANGED finishing
      \/ /\ c.rest # << >> /\ ReturnWith(<<next>>)
         /\ UNCHANGED <<progress, finishing, timerVars>>
      \/ /\ finishing' = [finishing EXCEPT ![c.elem] = FALSE]
         /\ ReturnWith(<< >>) /\ UNCHANGED <<progress, timerVars>>
  BY DEF Play
<1>4. next = WithoutFirst(c) /\ i = Head(c.rest)
  BY Zenon DEF WithoutFirst
<1>5. hasFinish => i \in Items
  OBVIOUS
<1> HIDE DEF c, next, i, hasFinish
<1>6. \A f \in Animated : ~ Takes(fxCalls[1], f)
  BY <1>1 DEF Takes, IsStop, Dequeue
<1>7. Settled(progress, fxCalls) /\ Settled(progress', fxCalls)
  BY <1>1 DEF Settled
<1>8. ASSUME c.rest # << >>
      PROVE  /\ next \in FxCallSet /\ next.call = "play"
             /\ <<next>> \in Seq(FxCallSet) /\ 1 \in DOMAIN <<next>> /\ <<next>>[1] = next
             /\ \A k \in DOMAIN <<next>> : k = 1 /\ <<next>>[k] = next
  <2>1. next \in FxCallSet /\ next.call = "play"
    BY <1>1, <1>4, <1>8, PlayGoesOn
  <2> QED
    BY <2>1, OneCall
<1>9. CASE c.rest # << >> /\ ReturnWith(<<next>>) /\ UNCHANGED <<progress, finishing, timerVars>>
  <2>1. After(fxCalls, <<next>>, 1, fxCalls')
    BY <1>1, <1>8, <1>9, Returned DEF ReturnWith
  <2>2. FxTypes'
    BY <1>2, <1>9, <2>1 DEF EffectsInv, FxTypes, After, timerVars
  <2>3. Keeps(progress, item, progress', item)
    BY <1>9 DEF Keeps
  <2>4. StackIs(progress, item, queues, fxCalls)'
    <3>1. \A k \in DOMAIN <<next>> :
            <<next>>[k] = WithoutFirst(c) /\ \A l \in DOMAIN <<next>> : IsPlay(<<next>>[l]) => l = k
      BY <1>4, <1>8, <1>9
    <3>2. \A j \in Items : j # Head(c.rest) => progress'[j] = progress[j]
      BY <1>9
    <3> QED
      BY <1>1, <1>2, <1>8, <1>9, <2>1, <2>3, <3>1, <3>2, PlayStack
  <2>5. ASSUME ~ nested' PROVE GoesOn(<<next>>, 1)
    <3>1. LoopsAre(fxCalls, fxTimers)'
      <4>1. LoopsAre(fxCalls, fxTimers) /\ fxTimers \in Seq(Items) /\ fxTimers' = fxTimers
        BY <1>2, <1>9, <2>5 DEF EffectsInv, FxTypes, timerVars
      <4>2. \A k \in DOMAIN <<next>> : ~ IsStop(<<next>>[k])
        BY <1>8, <1>9 DEF IsStop
      <4> QED
        BY <1>1, <1>8, <1>9, <2>1, <4>1, <4>2, SameIsLonger, LoopsKept
    <3> QED
      BY <1>6, <1>9, <3>1 DEF GoesOn, timerVars
  <2>6. /\ FewerWait /\ (~ nested' => ~ nested)
        /\ \A n \in DOMAIN fxTimers' : \E m \in DOMAIN fxTimers : fxTimers'[n] = fxTimers[m]
        /\ timeouts' \subseteq timeouts /\ progress' = progress /\ item' = item
        /\ fxCompleted' = fxCompleted
    BY <1>2, <1>9 DEF timerVars, FewerWait
  <2> QED
    BY <1>1, <1>7, <1>8, <1>9, <2>1, <2>2, <2>4, <2>5, <2>6, SameItems
<1>10. CASE /\ finishing' = [finishing EXCEPT ![c.elem] = FALSE]
            /\ ReturnWith(<< >>) /\ UNCHANGED <<progress, timerVars>>
  <2>1. After(fxCalls, << >>, 1, fxCalls')
    BY <1>1, <1>10, NoCalls, Returned DEF ReturnWith
  <2>2. finishing' \in [Animated -> BOOLEAN]
    BY <1>10 DEF EffectsInv, FxTypes
  <2>3. FxTypes'
    BY <1>2, <1>10, <2>1, <2>2 DEF EffectsInv, FxTypes, After, timerVars
  <2>4. ASSUME ~ nested PROVE GoesOn(<< >>, 1)
    <3>1. LoopsAre(fxCalls, fxTimers)'
      <4>1. LoopsAre(fxCalls, fxTimers) /\ fxTimers \in Seq(Items) /\ fxTimers' = fxTimers
        BY <1>10, <2>4 DEF EffectsInv, FxTypes, timerVars
      <4> QED
        BY <1>1, <2>1, <4>1, NoCalls, SameIsLonger, LoopsKept
    <3> QED
      BY <1>6, <1>10, <3>1 DEF GoesOn, timerVars
  <2>5. /\ \A n \in DOMAIN fxTimers' : \E m \in DOMAIN fxTimers : fxTimers'[n] = fxTimers[m]
        /\ timeouts' \subseteq timeouts /\ progress' = progress /\ item' = item
        /\ fxCompleted' = fxCompleted /\ queues' = queues /\ hook' = hook /\ nested' = nested
    BY <1>2, <1>10 DEF timerVars
  <2> QED
    BY <1>1, <1>7, <2>1, <2>3, <2>4, <2>5, NoCalls, NoneAdded, SameStack
<1>11. CASE c.rest # << >> /\ hasFinish /\ Start(i, <<next>>) /\ UNCHANGED finishing
  <2> DEFINE e == c.elem
  <2>1. /\ c.rest \in FxQueue /\ ListIs(progress, item, c.rest, e)
        /\ \A f \in Animated : Apart(queues[f], c.rest)
    <3>1. CallIs(progress, item, queues, c)
      BY <1>1 DEF EffectsInv, StackIs
    <3> QED
      BY <1>1, <3>1 DEF CallIs, PlayCalls
  <2>2. \E m \in DOMAIN c.rest : c.rest[m] = i
    BY <1>4, <1>11, <2>1, TailWaits
  <2>3. Waits(progress, item, i, e)
    BY <1>5, <1>11, <2>1, <2>2 DEF ListIs, Items, InProgress
  <2>4. e \in Animated
    BY <1>1
  <2> HIDE DEF e
  <2>5. /\ i \in Items /\ progress' \in FxProgress /\ progress'[i] = "running"
        /\ \A j \in Items : j # i => progress'[j] = progress[j]
        /\ Keeps(progress, item, progress', item)
        /\ fxTimers' \in Seq(Items) /\ Longer(fxTimers, fxTimers')
        /\ TimersAre(progress', item, fxTimers')
        /\ timerId' \in BOOLEAN
        /\ \A j \in Items : TimedBy(fxTimers, timerId, j) => TimedBy(fxTimers', timerId', j)
        /\ timeouts' \in SUBSET Items /\ timeouts \subseteq timeouts'
        /\ \A j \in timeouts' : progress'[j] = "running" /\ item[j].kind = "delay"
        /\ Mover(progress', item, timeouts', i, e)
        /\ \/ /\ ReturnWith(<<next>>)
              /\ item[i].kind # "delay" => TimedBy(fxTimers', timerId', i)
           \/ ReturnWith(<<Resolve(i)>> \o <<next>>) /\ item[i].kind \in {"fade", "instant"}
        /\ CompletesOnce'
    BY <1>2, <1>11, <2>3, <2>4, StartDoes
  <2>6. PICK above \in Seq(FxCallSet) :
          /\ ReturnWith(above)
          /\ item[i].kind # "delay" => TimedBy(fxTimers', timerId', i) \/ EndsNext(fxCalls', i)
          /\ \A k \in DOMAIN above :
               \/ /\ above[k].call = "resolve"
                  /\ CallIs(progress', item, queues, above[k])
               \/ above[k] = next /\ \A l \in DOMAIN above : IsPlay(above[l]) => l = k
    <3>1. CASE ReturnWith(<<next>>) /\ (item[i].kind # "delay" => TimedBy(fxTimers', timerId', i))
      <4>1. \A k \in DOMAIN <<next>> :
              <<next>>[k] = next /\ \A l \in DOMAIN <<next>> : IsPlay(<<next>>[l]) => l = k
        BY <1>8, <1>11
      <4> QED
        BY <1>8, <1>11, <3>1, <4>1
    <3>2. CASE ReturnWith(<<Resolve(i)>> \o <<next>>) /\ item[i].kind \in {"fade", "instant"}
      <4> DEFINE r == Resolve(i)
                 above == <<r, next>>
      <4>1. r \in FxCallSet /\ r.call = "resolve" /\ r.item = i
        BY <2>5, Frames DEF Resolve
      <4>2. CallIs(progress', item, queues, r)
        BY <2>5, <3>2, <4>1 DEF CallIs, HasStarted
      <4>3. ReturnWith(<<r>> \o <<next>>) /\ r = Resolve(i)
        BY <3>2
      <4> HIDE DEF r
      <4>4. above \in Seq(FxCallSet) /\ above[1] = r /\ 1 \in DOMAIN above
            /\ \A k \in DOMAIN above : (k = 1 /\ above[k] = r) \/ (k = 2 /\ above[k] = next)
        BY <1>8, <1>11, <4>1, TwoCalls
      <4>5. ReturnWith(above)
        BY <1>8, <1>11, <4>1, <4>3, EndsThenPlays
      <4> HIDE DEF above
      <4>6. After(fxCalls, above, 1, fxCalls')
        BY <1>1, <4>4, <4>5, Returned DEF ReturnWith
      <4>7. EndsNext(fxCalls', i)
        BY <4>3, <4>4, <4>6, NoCalls DEF EndsNext, After
      <4>8. \A l \in DOMAIN above : IsPlay(above[l]) => l = 2
        BY <4>1, <4>4 DEF IsPlay
      <4>9. \A k \in DOMAIN above :
              \/ above[k].call = "resolve" /\ CallIs(progress', item, queues, above[k])
              \/ above[k] = next /\ \A l \in DOMAIN above : IsPlay(above[l]) => l = k
        BY <4>1, <4>2, <4>4, <4>8
      <4> QED
        BY <4>4, <4>5, <4>7, <4>9
    <3> QED
      BY <2>5, <3>1, <3>2
  <2>7. After(fxCalls, above, 1, fxCalls')
    BY <1>1, <2>6, Returned DEF ReturnWith
  <2>8. FxTypes'
    BY <1>2, <1>11, <2>5, <2>7 DEF EffectsInv, FxTypes, After
  <2>9. StackIs(progress, item, queues, fxCalls)'
    <3>1. \A k \in DOMAIN above :
            \/ /\ above[k].call = "resolve"
               /\ CallIs(progress', item, queues, above[k])
            \/ above[k] = WithoutFirst(c) /\ \A l \in DOMAIN above : IsPlay(above[l]) => l = k
      BY <1>4, <2>6
    <3>2. \A j \in Items : j # Head(c.rest) => progress'[j] = progress[j]
      BY <1>4, <2>5
    <3> QED
      BY <1>1, <1>2, <1>11, <2>5, <2>7, <3>1, <3>2, PlayStack
  <2>10. ListsAre(progress, item, queues)'
    <3> SUFFICES ASSUME NEW f \in Animated PROVE ListIs(progress', item', queues'[f], f)
      BY DEF ListsAre
    <3>1. ListIs(progress, item, queues[f], f)
      BY DEF EffectsInv, ListsAre
    <3>2. \A n \in DOMAIN queues[f] : queues[f][n] # i
      BY <2>1, <2>2, <2>5 DEF Apart, Items, InProgress
    <3>3. \A n \in DOMAIN queues[f] :
            queues[f][n] \in Items /\ progress[queues[f][n]] = "queued" =>
              progress'[queues[f][n]] = "queued"
      BY <2>5, <3>2
    <3> QED
      BY <1>2, <2>5, <3>1, <3>3, ListKept
  <2>11. DelaysAre(progress, item, hook, timeouts)'
    BY <1>2, <2>5 DEF EffectsInv, DelaysAre, Keeps, HasStarted
  <2>12. ASSUME ~ nested
         PROVE  /\ LoopsAre(fxCalls, fxTimers)'
                /\ Moves(progress, item, fxTimers, timerId, fxCalls)'
                /\ Taken(progress, item, queues, timeouts, fxCalls)'
    <3>1. \A k \in DOMAIN above : ~ IsStop(above[k])
      BY <1>8, <1>11, <2>6 DEF IsStop
    <3>2. /\ \A f \in Animated : f # e => queues'[f] = queues[f]
          /\ \A f \in Animated : Takes(fxCalls[1], f) => f = e
      BY <1>2, <1>6
    <3> QED
      BY <1>1, <1>2, <1>7, <2>4, <2>5, <2>6, <2>7, <2>12, <3>1, <3>2, StartGoesOn
  <2> QED
    BY <1>2, <2>5, <2>8, <2>9, <2>10, <2>11, <2>12 DEF EffectsInv
<1> QED
  BY <1>3, <1>9, <1>10, <1>11

(* An item is asked for.                                                    *)
StillQueued(p, p2) == \A j \in Items : p[j] = "queued" => p2[j] = "queued"
OneMore(q, r, i) == \A n \in DOMAIN r : r[n] = i \/ \E m \in DOMAIN q : r[n] = q[m]

(* An item that waits is added at the end of a list.                        *)
LEMMA Queued ==
  ASSUME NEW p, NEW it, NEW q \in FxQueue, NEW e, ListIs(p, it, q, e), NEW i \in Items,
         p[i] = "unused", NEW p2, NEW it2, Keeps(p, it, p2, it2), Waits(p2, it2, i, e),
         StillQueued(p, p2), NEW r, r = Append(q, i)
  PROVE  /\ r \in FxQueue /\ ListIs(p2, it2, r, e) /\ OneMore(q, r, i)
         /\ Head(r) = InProgress => q # << >>
<1> USE DEF StillQueued
<1>1. /\ r \in FxQueue /\ Len(r) = Len(q) + 1
      /\ \A n \in 1 .. Len(q) : r[n] = q[n]
      /\ r[Len(q) + 1] = i
  BY AppendProperties DEF FxQueue
<1>2. Len(q) \in Nat /\ DOMAIN q = 1 .. Len(q) /\ DOMAIN r = 1 .. Len(q) + 1
  BY <1>1, LenProperties DEF FxQueue
<1>3. Head(r) = r[1]
  <2>1. r # << >>
    BY <1>1, <1>2
  <2> QED
    BY <1>1, <2>1, HeadTailProperties DEF FxQueue
<1>4. \A n \in DOMAIN r : (n \in DOMAIN q /\ r[n] = q[n]) \/ (n = Len(q) + 1 /\ r[n] = i)
  BY <1>1, <1>2
<1>5. ListIs(p2, it2, q, e)
  BY ListKept
<1>6. \A n \in DOMAIN q : q[n] # i
  BY DEF ListIs, Waits, Items, InProgress
<1>7. ListIs(p2, it2, r, e)
  BY <1>4, <1>5, <1>6 DEF ListIs
<1>8. Head(r) = InProgress => q # << >>
  <2> SUFFICES ASSUME Head(r) = InProgress, q = << >> PROVE FALSE
    OBVIOUS
  <2>1. Len(q) + 1 = 1
    BY <1>2
  <2> QED
    BY <1>1, <1>3, <2>1 DEF Items, InProgress
<1> QED
  BY <1>1, <1>4, <1>7, <1>8 DEF OneMore

(* An animation or a delay is asked for.                                    *)
LEMMA animateKeeps ==
  ASSUME EffectsInv, NEW e \in Animated, NEW kind \in {"fade", "instant", "delay"},
         animate(e, kind)
  PROVE  EffectsInv'
<1>1. PICK i \in Items :
        /\ progress[i] = "unused"
        /\ item' = [item EXCEPT ![i] = [kind |-> kind, elem |-> e]]
        /\ progress' = [progress EXCEPT ![i] = "queued"]
        /\ queues' = [queues EXCEPT ![e] = Append(@, i)]
  BY DEF animate
<1>2. /\ fxCalls' = IF Head(queues'[e]) = InProgress THEN fxCalls ELSE <<Dequeue(e)>> \o fxCalls
      /\ UNCHANGED <<hook, finishing, fxTimers, timerId, timeouts, fxCompleted, nested>>
  BY DEF animate, timerVars
<1>3. /\ fxCalls \in Seq(FxCallSet) /\ 0 <= Len(fxCalls) /\ Settled(progress', fxCalls)
  BY InControl DEF animate
<1>4. /\ item \in FxItems /\ progress \in FxProgress /\ queues \in [Animated -> FxQueue]
      /\ ListIs(progress, item, queues[e], e) /\ queues[e] \in FxQueue
  BY DEF EffectsInv, FxTypes, ListsAre
<1>5. /\ item' \in FxItems /\ item'[i].kind = kind /\ item'[i].elem = e
      /\ \A j \in Items : j # i => item'[j] = item[j]
  <2>1. [kind |-> kind, elem |-> e] \in [kind : {"fade", "instant", "delay"}, elem : Animated]
    OBVIOUS
  <2> QED
    BY <1>1, <1>4, <2>1 DEF FxItems
<1>6. /\ progress' \in FxProgress /\ progress'[i] = "queued"
      /\ \A j \in Items : j # i => progress'[j] = progress[j]
  BY <1>1, <1>4 DEF FxProgress
<1>7. Keeps(progress, item, progress', item')
  BY <1>1, <1>5, <1>6 DEF Keeps, HasStarted
<1>8. StillQueued(progress, progress')
  BY <1>6 DEF StillQueued
<1>9. Waits(progress', item', i, e)
  BY <1>5, <1>6 DEF Waits
<1> DEFINE q2 == Append(queues[e], i)
<1>q. q2 = Append(queues[e], i)
  OBVIOUS
<1>10. /\ q2 \in FxQueue /\ ListIs(progress', item', q2, e)
       /\ OneMore(queues[e], q2, i)
       /\ Head(q2) = InProgress => queues[e] # << >>
  <2> HIDE DEF q2
  <2> QED
    BY <1>1, <1>4, <1>7, <1>8, <1>9, <1>q, Queued
<1>11. queues' = [queues EXCEPT ![e] = q2]
  BY <1>1
<1> HIDE DEF q2
<1>12. /\ queues' \in [Animated -> FxQueue] /\ queues'[e] = q2
       /\ \A f \in Animated : f # e => queues'[f] = queues[f]
  BY <1>4, <1>10, <1>11
<1>13. PICK above \in {<< >>, <<Dequeue(e)>>} :
         /\ above = << >> => queues[e] # << >>
         /\ fxCalls' = above \o fxCalls
  <2>1. fxCalls = << >> \o fxCalls
    BY <1>3, ConcatEmptySeq
  <2> QED
    BY <1>2, <1>10, <1>12, <2>1
<1>14. /\ above \in Seq(FxCallSet)
       /\ \A k \in DOMAIN above : above[k] = Dequeue(e) /\ above[k].call = "dequeue"
       /\ above # << >> => 1 \in DOMAIN above /\ above[1] = Dequeue(e)
  <2>1. Dequeue(e) \in FxCallSet /\ Dequeue(e).call = "dequeue"
    BY Frames DEF Dequeue
  <2>2. CASE above = << >>
    BY <2>2, NoCalls
  <2>3. CASE above = <<Dequeue(e)>>
    BY <2>1, <2>3, OneCall
  <2> QED
    BY <1>13, <2>2, <2>3
<1>15. After(fxCalls, above, 0, fxCalls')
  BY <1>3, <1>13, <1>14, Pushed
<1>16. FxTypes'
  BY <1>2, <1>5, <1>6, <1>12, <1>15 DEF EffectsInv, FxTypes, After
<1>17. ListsAre(progress, item, queues)'
  <2> SUFFICES ASSUME NEW f \in Animated PROVE ListIs(progress', item', queues'[f], f)
    BY DEF ListsAre
  <2>1. CASE f = e
    BY <1>10, <1>12, <2>1 DEF OneMore
  <2>2. CASE f # e
    <3>1. ListIs(progress, item, queues[f], f)
      BY DEF EffectsInv, ListsAre
    <3> QED
      <4>1. \A n \in DOMAIN queues[f] : queues[f][n] \in Items /\ progress[queues[f][n]] = "queued" =>
              progress'[queues[f][n]] = "queued"
        BY <1>8 DEF StillQueued
      <4>2. ListIs(progress', item', queues[f], f)
        BY <1>7, <3>1, <4>1, ListKept
      <4> QED
        BY <1>12, <2>2, <4>2
  <2> QED
    BY <2>1, <2>2
<1>18. StackIs(progress, item, queues, fxCalls)'
  <2>1. StackIs(progress, item, queues, fxCalls)
    BY DEF EffectsInv
  <2>2. ASSUME NEW k \in DOMAIN fxCalls PROVE CallIs(progress', item', queues', fxCalls[k])
    <3>1. CallIs(progress, item, queues, fxCalls[k]) /\ fxCalls[k] \in FxCallSet
      BY <1>3, <2>1, <2>2, ElementOfSeq DEF StackIs
    <3>2. ASSUME IsPlay(fxCalls[k]), NEW f \in Animated PROVE Apart(queues'[f], fxCalls[k].rest)
      <4>1. /\ Apart(queues[f], fxCalls[k].rest)
            /\ ListIs(progress, item, fxCalls[k].rest, fxCalls[k].elem)
        BY <3>1, <3>2 DEF CallIs, IsPlay
      <4>2. \A n \in DOMAIN fxCalls[k].rest : fxCalls[k].rest[n] # i
        BY <1>1, <4>1 DEF ListIs, Waits, Items, InProgress
      <4> QED
        BY <1>10, <1>12, <4>1, <4>2 DEF Apart, OneMore
    <3>3. IsPlay(fxCalls[k]) =>
            /\ \A n \in DOMAIN fxCalls[k].rest :
                 fxCalls[k].rest[n] \in Items /\ progress[fxCalls[k].rest[n]] = "queued" =>
                   progress'[fxCalls[k].rest[n]] = "queued"
            /\ \A f \in Animated : Apart(queues'[f], fxCalls[k].rest)
      BY <1>8, <3>2 DEF StillQueued
    <3> QED
      BY <1>7, <3>1, <3>3, CallKept
  <2>3. \A k \in DOMAIN fxCalls : Pends(fxCalls[k]) => progress'[fxCalls[k].timer] # "running"
    BY <1>3, <1>7, <2>1, PendingKept
  <2>4. \A k \in DOMAIN above :
          /\ CallIs(progress', item', queues', above[k])
          /\ above[k].call # "tick" /\ ~ IsPlay(above[k]) /\ ~ Pends(above[k])
    BY <1>14 DEF CallIs, IsPlay, Pends
  <2>5. Stacked(progress', item', queues', fxCalls, above, 0, fxCalls')
    BY <2>2, <2>3, <2>4 DEF Stacked
  <2>6. StackIs(progress', item', queues', fxCalls')
    BY <1>3, <1>14, <1>15, <2>1, <2>5, StackKept
  <2> QED
    BY <2>6
<1>19. TimersAre(progress, item, fxTimers)'
  BY <1>2, <1>7 DEF EffectsInv, TimersAre, Keeps, HasStarted
<1>20. DelaysAre(progress, item, hook, timeouts)'
  <2>1. \A j \in timeouts : progress'[j] = "running" /\ item'[j].kind = "delay"
    BY <1>1, <1>5, <1>6 DEF EffectsInv, FxTypes, DelaysAre
  <2>2. \A f \in Animated : hook[f] # NoItem => HasStarted(progress', hook[f]) /\ item'[hook[f]].elem = f
    BY <1>7 DEF EffectsInv, DelaysAre, Keeps, HasStarted
  <2> QED
    BY <1>2, <2>1, <2>2 DEF DelaysAre
<1>21. CompletesOnce'
  BY <1>1, <1>2, <1>6 DEF EffectsInv, CompletesOnce
<1>22. ASSUME ~ nested
       PROVE  /\ LoopsAre(fxCalls, fxTimers)'
              /\ Moves(progress, item, fxTimers, timerId, fxCalls)'
              /\ Taken(progress, item, queues, timeouts, fxCalls)'
  <2>1. LoopsAre(fxCalls, fxTimers)'
    <3>1. \A k \in DOMAIN above : ~ IsStop(above[k])
      BY <1>14 DEF IsStop
    <3>2. LoopsAre(fxCalls, fxTimers) /\ fxTimers \in Seq(Items) /\ fxTimers' = fxTimers
      BY <1>2, <1>22 DEF EffectsInv, FxTypes
    <3> QED
      BY <1>3, <1>14, <1>15, <3>1, <3>2, SameIsLonger, LoopsKept
  <2>2. Moves(progress, item, fxTimers, timerId, fxCalls)'
    <3>1. \A j \in Items : progress'[j] = "running" => progress[j] = "running"
      BY <1>6
    <3>2. Moves(progress', item', fxTimers, timerId, fxCalls')
      BY <1>3, <1>7, <1>22, <3>1, MovesKept DEF EffectsInv
    <3> QED
      BY <1>2, <3>2
  <2>3. ASSUME NEW f \in Animated, queues'[f] # << >>
        PROVE  TakenBy(progress', item', timeouts', fxCalls', f)
    <3>1. CASE f = e /\ above # << >>
      <4>1. Takes(above[1], f)
        BY <1>14, <3>1 DEF Takes
      <4> QED
        BY <1>3, <1>14, <1>15, <3>1, <4>1, CallTakes
    <3>2. CASE f # e \/ above = << >>
      <4>1. queues[f] # << >>
        BY <1>12, <1>13, <2>3, <3>2
      <4>2. TakenBy(progress, item, timeouts, fxCalls, f)
        BY <1>22, <4>1 DEF EffectsInv, Taken
      <4>3. \A j \in Items :
              Mover(progress, item, timeouts, j, f) => Mover(progress', item', timeouts', j, f)
        BY <1>1, <1>2, <1>5, <1>6 DEF Mover
      <4>4. \A j \in Items :
              Mover(progress, item, timeouts, j, f) => TakenBy(progress', item', timeouts', fxCalls', f)
        BY <4>3, MoverTakes
      <4> QED
        BY <1>3, <1>14, <1>15, <4>2, <4>4, TakenKept
    <3> QED
      BY <3>1, <3>2
  <2> QED
    BY <2>1, <2>2, <2>3 DEF Taken
<1> QED
  BY <1>2, <1>16, <1>17, <1>18, <1>19, <1>20, <1>21, <1>22 DEF EffectsInv

(* In the beginning nothing runs and nothing waits.                         *)
LEMMA EffectsInvInit ==
  ASSUME EffectsInit
  PROVE  EffectsInv
<1> USE DEF EffectsInit
<1>1. FxTypes
  <2>1. item \in FxItems
    BY DEF FxItems
  <2>2. /\ progress \in FxProgress /\ queues \in [Animated -> FxQueue]
        /\ fxTimers \in Seq(Items) /\ fxCalls \in Seq(FxCallSet)
    BY DEF FxProgress, FxQueue
  <2> QED
    BY <2>1, <2>2 DEF FxTypes
<1>2. StackIs(progress, item, queues, fxCalls) /\ ListsAre(progress, item, queues)
  BY NoCalls DEF StackIs, ListsAre, ListIs
<1>3. TimersAre(progress, item, fxTimers) /\ DelaysAre(progress, item, hook, timeouts)
  BY NoCalls DEF TimersAre, DelaysAre
<1>4. CompletesOnce
  BY DEF CompletesOnce
<1>5. /\ LoopsAre(fxCalls, fxTimers) /\ Moves(progress, item, fxTimers, timerId, fxCalls)
      /\ Taken(progress, item, queues, timeouts, fxCalls)
  BY NoCalls DEF LoopsAre, Moves, Taken
<1> QED
  BY <1>1, <1>2, <1>3, <1>4, <1>5 DEF EffectsInv

(* Every step keeps the invariant.                                          *)
LEMMA EffectsInvNext ==
  ASSUME EffectsInv, [EffectsNext]_fxVars
  PROVE  EffectsInv'
<1>1. CASE UNCHANGED fxVars
  <2>1. /\ item' = item /\ progress' = progress /\ queues' = queues /\ hook' = hook
        /\ finishing' = finishing /\ fxTimers' = fxTimers /\ timerId' = timerId
        /\ timeouts' = timeouts /\ fxCalls' = fxCalls /\ fxCompleted' = fxCompleted
        /\ nested' = nested
    BY <1>1 DEF fxVars, queueVars, timerVars
  <2> QED
    BY <2>1 DEF EffectsInv, FxTypes, CompletesOnce
<1>2. CASE EffectsNext
  BY <1>2, TickKeeps, RunTimersKeeps, DelayEndsKeeps, DequeueKeeps, ResolveKeeps,
     CompleteReturnsKeeps, StopTimersKeeps, PlayKeeps, animateKeeps, StopKeeps, finishKeeps,
     clearQueueKeeps DEF EffectsNext
<1> QED
  BY <1>1, <1>2

(* A queue never stands still, and who waits for an end hears of it once.   *)
THEOREM EffectsEndHolds == EffectsSpec => []EffectsEnd
<1>1. ASSUME EffectsInv PROVE EffectsEnd
  <2>1. CompletesOnce
    BY <1>1 DEF EffectsInv
  <2>2. ASSUME fxCalls = << >>, ~ nested
        PROVE  /\ \A e \in Animated :
                    queues[e] # << >> =>
                      \E i \in timeouts \cup ToSet(fxTimers) : Running(i) /\ item[i].elem = e
               /\ \A i \in Items :
                    Running(i) /\ ~ IsDelay(i) => timerId /\ i \in ToSet(fxTimers)
    <3>1. \A i \in Items :
            Running(i) /\ ~ IsDelay(i) => timerId /\ i \in ToSet(fxTimers)
      BY <1>1, <2>2 DEF EffectsInv, Moves, TimedBy, EndsNext, Running, IsDelay, ToSet
    <3>2. ASSUME NEW e \in Animated, queues[e] # << >>
          PROVE  \E i \in timeouts \cup ToSet(fxTimers) : Running(i) /\ item[i].elem = e
      <4>1. TakenBy(progress, item, timeouts, fxCalls, e)
        BY <1>1, <2>2, <3>2 DEF EffectsInv, Taken
      <4>2. PICK i \in Items :
              progress[i] = "running" /\ item[i].elem = e /\ (i \in timeouts \/ item[i].kind # "delay")
        BY <2>2, <4>1, NoCalls DEF TakenBy
      <4> QED
        BY <3>1, <4>2 DEF Running, IsDelay
    <3> QED
      BY <3>1, <3>2
  <2> QED
    BY <2>1, <2>2 DEF EffectsEnd, NothingStalls
<1>2. EffectsSpec => []EffectsInv
  <2>1. EffectsInit => EffectsInv
    BY EffectsInvInit
  <2>2. EffectsInv /\ [EffectsNext]_fxVars => EffectsInv'
    BY EffectsInvNext
  <2> QED
    BY <2>1, <2>2, PTL DEF EffectsSpec
<1> QED
  BY <1>1, <1>2, PTL

-----------------------------------------------------------------------------
(* Selectors: lists without some of their items.                            *)

(* Induction, with a set for the predicate: the numbers that satisfy it.    *)
LEMMA NatSets ==
  ASSUME NEW S, 0 \in S, \A n \in Nat : n \in S => n + 1 \in S
  PROVE  Nat \subseteq S
<1> DEFINE R == OpToRel(<, Nat)
<1>1. IsWellFoundedOn(R, Nat)
  BY NatLessThanWellFounded
<1>2. \A m, n \in Nat : m < n => <<m, n>> \in R
  BY DEF OpToRel
<1> HIDE DEF R
<1> SUFFICES ASSUME Nat \ S # {} PROVE FALSE
  OBVIOUS
<1>3. PICK T : T = Nat \ S
  OBVIOUS
<1>4. PICK x \in T : \A y \in T : ~ (<<y, x>> \in R)
  BY <1>1, <1>3, WFMin
<1>5. x # 0 /\ x \in Nat
  BY <1>3, <1>4
<1>6. x - 1 \in Nat /\ x - 1 < x
  BY <1>5
<1>7. x - 1 \notin T
  BY <1>2, <1>4, <1>5, <1>6
<1>8. x \in S
  BY <1>3, <1>5, <1>6, <1>7
<1> QED
  BY <1>3, <1>4, <1>8

(* The first n steps of Without's recursion.                                *)
KeepsUpto(K, q, gone, n) ==
  /\ K[0] = << >>
  /\ \A i \in 1 .. n :
       K[i] = IF q[i] \in gone THEN K[i - 1] ELSE Append(K[i - 1], q[i])

(* There is such a function for every list.                                 *)
LEMMA KeepsExists ==
  ASSUME NEW q, NEW gone
  PROVE  \A n \in Nat : \E K : K = [i \in 0 .. n |-> K[i]] /\ KeepsUpto(K, q, gone, n)
<1> DEFINE S == {n \in Nat : \E K : K = [i \in 0 .. n |-> K[i]] /\ KeepsUpto(K, q, gone, n)}
<1>1. 0 \in S
  <2>1. PICK K : K = [i \in 0 .. 0 |-> << >>]
    OBVIOUS
  <2>2. K = [i \in 0 .. 0 |-> K[i]] /\ KeepsUpto(K, q, gone, 0)
    BY <2>1 DEF KeepsUpto
  <2> QED
    BY <2>2
<1>2. ASSUME NEW n \in Nat, n \in S
      PROVE  n + 1 \in S
  <2>1. PICK K : K = [i \in 0 .. n |-> K[i]] /\ KeepsUpto(K, q, gone, n)
    BY <1>2
  <2>2. PICK M : M = [i \in 0 .. n + 1 |->
                        IF i <= n THEN K[i]
                        ELSE IF q[n + 1] \in gone THEN K[n] ELSE Append(K[n], q[n + 1])]
    OBVIOUS
  <2>3. M = [i \in 0 .. n + 1 |-> M[i]]
    BY <2>2
  <2>4. \A i \in 0 .. n : M[i] = K[i]
    BY <2>2
  <2>5. M[n + 1] = IF q[n + 1] \in gone THEN M[n] ELSE Append(M[n], q[n + 1])
    BY <2>2, <2>4
  <2>6. KeepsUpto(M, q, gone, n + 1)
    <3>1. M[0] = << >>
      BY <2>1, <2>4 DEF KeepsUpto
    <3>2. ASSUME NEW i \in 1 .. n + 1
          PROVE  M[i] = IF q[i] \in gone THEN M[i - 1] ELSE Append(M[i - 1], q[i])
      <4>1. CASE i = n + 1
        BY <4>1, <2>5
      <4>2. CASE i # n + 1
        <5>1. i \in 1 .. n /\ i \in 0 .. n /\ i - 1 \in 0 .. n
          BY <4>2
        <5> QED
          BY <5>1, <2>1, <2>4 DEF KeepsUpto
      <4> QED
        BY <4>1, <4>2
    <3> QED
      BY <3>1, <3>2 DEF KeepsUpto
  <2> QED
    BY <2>3, <2>6
<1> HIDE DEF S
<1>3. Nat \subseteq S
  BY <1>1, <1>2, NatSets
<1> QED
  BY <1>3 DEF S

(* So Without is the last of the lists that the function builds.            *)
LEMMA WithoutKeeps ==
  ASSUME NEW S, NEW q \in Seq(S), NEW gone
  PROVE  \E K : KeepsUpto(K, q, gone, Len(q)) /\ Without(q, gone) = K[Len(q)]
<1>1. Len(q) \in Nat
  OBVIOUS
<1>2. PICK K : K = [i \in 0 .. Len(q) |-> K[i]] /\ KeepsUpto(K, q, gone, Len(q))
  BY <1>1, KeepsExists
<1> DEFINE Kept[i \in 0 .. Len(q)] ==
        IF i = 0 THEN << >>
        ELSE IF q[i] \in gone THEN Kept[i - 1] ELSE Append(Kept[i - 1], q[i])
<1>3. K = [i \in 0 .. Len(q) |-> 
        IF i = 0 THEN << >>
        ELSE IF q[i] \in gone THEN K[i - 1] ELSE Append(K[i - 1], q[i])]
  BY <1>1, <1>2 DEF KeepsUpto
<1>4. Kept = [i \in 0 .. Len(q) |-> 
        IF i = 0 THEN << >>
        ELSE IF q[i] \in gone THEN Kept[i - 1] ELSE Append(Kept[i - 1], q[i])]
  BY <1>3
<1>5. Without(q, gone) = Kept[Len(q)]
  BY DEF Without
<1> HIDE DEF Kept
<1>6. KeepsUpto(Kept, q, gone, Len(q))
  <2>1. Kept[0] = << >>
    BY <1>1, <1>4
  <2>2. ASSUME NEW i \in 1 .. Len(q)
        PROVE  Kept[i] = IF q[i] \in gone THEN Kept[i - 1] ELSE Append(Kept[i - 1], q[i])
    <3>1. i \in 0 .. Len(q) /\ i # 0
      BY <1>1
    <3> QED
      BY <1>4, <3>1
  <2> QED
    BY <2>1, <2>2 DEF KeepsUpto
<1> QED
  BY <1>5, <1>6

(* Two computations that see the same items agree.                          *)
LEMMA KeepsAgree ==
  ASSUME NEW gone, NEW n \in Nat, NEW q, NEW K, KeepsUpto(K, q, gone, n),
         NEW r, NEW M, KeepsUpto(M, r, gone, n), \A i \in 1 .. n : q[i] = r[i]
  PROVE  K[n] = M[n]
<1> DEFINE S == {m \in Nat : m <= n => K[m] = M[m]}
<1>1. 0 \in S
  BY DEF KeepsUpto
<1>2. ASSUME NEW m \in Nat, m \in S
      PROVE  m + 1 \in S
  <2>1. CASE m + 1 <= n
    <3>1. m + 1 \in 1 .. n /\ (m + 1) - 1 = m /\ m <= n
      BY <2>1
    <3>2. K[m] = M[m] /\ q[m + 1] = r[m + 1]
      BY <3>1, <1>2
    <3>3. K[m + 1] = IF q[m + 1] \in gone THEN K[m] ELSE Append(K[m], q[m + 1])
      BY <3>1 DEF KeepsUpto
    <3>4. M[m + 1] = IF r[m + 1] \in gone THEN M[m] ELSE Append(M[m], r[m + 1])
      BY <3>1 DEF KeepsUpto
    <3> QED
      BY <3>2, <3>3, <3>4
  <2>2. CASE ~ m + 1 <= n
    BY <2>2
  <2> QED
    BY <2>1, <2>2
<1> HIDE DEF S
<1>3. n \in S
  BY <1>1, <1>2, NatSets
<1> QED
  BY <1>3 DEF S

(* What Without does with the empty list, and with a list one longer.       *)
LEMMA WithoutEmpty == ASSUME NEW gone PROVE Without(<< >>, gone) = << >>
<1>1. PICK e \in Seq({}) : e = << >>
  <2>1. << >> \in Seq({})
    OBVIOUS
  <2> QED
    BY <2>1
<1>2. PICK K : KeepsUpto(K, e, gone, Len(e)) /\ Without(e, gone) = K[Len(e)]
  BY WithoutKeeps
<1>3. Len(e) = 0
  BY <1>1
<1> QED
  BY <1>1, <1>2, <1>3 DEF KeepsUpto

(* A list one longer: its last element stays or goes.                       *)
LEMMA WithoutAppend ==
  ASSUME NEW S, NEW q \in Seq(S), NEW e \in S, NEW gone
  PROVE  Without(Append(q, e), gone) =
           IF e \in gone THEN Without(q, gone) ELSE Append(Without(q, gone), e)
<1>1. PICK r \in Seq(S) : r = Append(q, e)
  <2>1. Append(q, e) \in Seq(S)
    OBVIOUS
  <2> QED
    BY <2>1
<1>2. /\ Len(r) = Len(q) + 1 /\ Len(q) \in Nat /\ r[Len(q) + 1] = e
      /\ \A i \in 1 .. Len(q) : r[i] = q[i]
  BY <1>1
<1>3. PICK K : KeepsUpto(K, q, gone, Len(q)) /\ Without(q, gone) = K[Len(q)]
  BY WithoutKeeps
<1>4. PICK M : KeepsUpto(M, r, gone, Len(r)) /\ Without(r, gone) = M[Len(r)]
  BY WithoutKeeps
<1>5. KeepsUpto(M, r, gone, Len(q))
  BY <1>2, <1>4 DEF KeepsUpto
<1>6. M[Len(q)] = K[Len(q)]
  BY <1>2, <1>3, <1>5, KeepsAgree
<1>7. M[Len(q) + 1] = IF r[Len(q) + 1] \in gone THEN M[Len(q)] ELSE Append(M[Len(q)], r[Len(q) + 1])
  <2>1. Len(q) + 1 \in 1 .. Len(r) /\ (Len(q) + 1) - 1 = Len(q)
    BY <1>2
  <2> QED
    BY <1>4, <2>1 DEF KeepsUpto
<1> QED
  BY <1>1, <1>2, <1>3, <1>4, <1>6, <1>7

(* Induction over the lists of S: a set of lists that has the empty one, and*)
(* with a list all that are one longer, has all.                            *)
LEMMA ListSets ==
  ASSUME NEW S, NEW T, << >> \in T,
         \A q \in Seq(S), e \in S : q \in T => Append(q, e) \in T
  PROVE  Seq(S) \subseteq T
<1> DEFINE N == {n \in Nat : \A q \in Seq(S) : Len(q) = n => q \in T}
<1>1. 0 \in N
  <2>1. \A q \in Seq(S) : Len(q) = 0 => q = << >>
    BY EmptySeq
  <2> QED
    BY <2>1
<1>2. ASSUME NEW n \in Nat, n \in N
      PROVE  n + 1 \in N
  <2>1. ASSUME NEW q \in Seq(S), Len(q) = n + 1
        PROVE  q \in T
    <3>1. PICK f \in Seq(S), e \in S : f = SubSeq(q, 1, n) /\ e = q[n + 1]
      <4>1. SubSeq(q, 1, n) \in Seq(S)
        BY <2>1
      <4>2. q[n + 1] \in S
        BY <2>1
      <4> QED
        BY <4>1, <4>2
    <3>2. q = Append(f, e) /\ Len(f) = n
      BY <2>1, <3>1
    <3> QED
      BY <1>2, <3>1, <3>2
  <2> QED
    BY <2>1
<1> HIDE DEF N
<1>3. Nat \subseteq N
  BY <1>1, <1>2, NatSets
<1> QED
  <2>1. \A q \in Seq(S) : Len(q) \in Nat
    OBVIOUS
  <2> QED
    BY <1>3, <2>1 DEF N

(* What stays are elements of the list.                                     *)
LEMMA WithoutType ==
  ASSUME NEW S, NEW gone
  PROVE  \A q \in Seq(S) : /\ Without(q, gone) \in Seq(S)
                          /\ \A i \in DOMAIN Without(q, gone) : Without(q, gone)[i] \notin gone
<1> DEFINE T == {q \in Seq(S) : /\ Without(q, gone) \in Seq(S)
                     /\ \A i \in DOMAIN Without(q, gone) : Without(q, gone)[i] \notin gone}
<1>1. << >> \in T
  <2>1. << >> \in Seq(S) /\ DOMAIN << >> = {}
    OBVIOUS
  <2> QED
    BY <2>1, WithoutEmpty
<1>2. ASSUME NEW q \in Seq(S), NEW e \in S, q \in T
      PROVE  Append(q, e) \in T
  <2>1. Append(q, e) \in Seq(S)
    OBVIOUS
  <2>2. PICK w \in Seq(S) : w = Without(q, gone)
    BY <1>2
  <2>3. \A i \in DOMAIN w : w[i] \notin gone
    BY <1>2, <2>2
  <2>4. Without(Append(q, e), gone) = IF e \in gone THEN w ELSE Append(w, e)
    BY <2>2, WithoutAppend
  <2>5. ASSUME e \notin gone, NEW i \in DOMAIN Append(w, e)
        PROVE  Append(w, e)[i] \notin gone
    BY <2>3, <2>5
  <2> QED
    BY <2>1, <2>3, <2>4, <2>5
<1> HIDE DEF T
<1>3. Seq(S) \subseteq T
  BY <1>1, <1>2, ListSets
<1> QED
  BY <1>3 DEF T

-----------------------------------------------------------------------------
(* Selectors: the tree.                                                     *)

Dirs == {"parentNode", "previousSibling"}
IsTree(p) ==
  /\ p \in [Elements -> Nat] /\ p[1] = Document
  /\ \A e \in Elements \ {1} : p[e] # Document /\ p[e] < e

(* The document is a node, its elements are the others.                     *)
LEMMA NodesAre ==
  /\ NumElements \in Nat /\ 1 \in Elements /\ Nodes = 0 .. NumElements
  /\ Elements \subseteq Nodes /\ Elements \subseteq Nat
  /\ \A n \in Nodes : n \in Nat /\ (n \in Elements <=> n # Document)
BY DocumentAssumption DEF Nodes, Elements, Document

(* The page's documents are trees.                                          *)
LEMMA TreesAre == \A p \in Trees : IsTree(p)
<1> SUFFICES ASSUME NEW p \in Trees PROVE IsTree(p)
  OBVIOUS
<1>1. /\ p \in [Elements -> 0 .. NumElements - 1] /\ p[1] = Document
      /\ \A e \in Elements \ {1} : p[e] # Document /\ p[e] < e
  BY DEF Trees
<1>2. p \in [Elements -> Nat]
  BY <1>1
<1> QED
  BY <1>1, <1>2 DEF IsTree

(* The parent of an element is a node before it; only the root's is the     *)
(* document.                                                                *)
LEMMA ParentsAre ==
  ASSUME NEW p, IsTree(p), NEW e \in Elements
  PROVE  p[e] \in Nodes /\ p[e] < e /\ (e # 1 => p[e] \in Elements)
<1>1. p[e] \in Nat /\ p[e] < e
  <2>1. CASE e = 1
    BY <2>1 DEF IsTree, Document
  <2>2. CASE e # 1
    BY <2>2 DEF IsTree
  <2> QED
    BY <2>1, <2>2
<1>2. p[e] \in Nodes
  BY <1>1, NodesAre DEF Elements
<1> QED
  BY <1>1, <1>2, NodesAre DEF IsTree

(* One step of the recursion that collects what is above a node.            *)
AboveAt(p, A, e) == IF e = Document THEN {} ELSE {p[e]} \cup A[p[e]]

(* The recursion that collects what is above a node defines a function.     *)
LEMMA AncestorsExist ==
  ASSUME NEW p, IsTree(p)
  PROVE  \A n \in Nat : n <= NumElements => \E A : A = [e \in 0 .. n |-> AboveAt(p, A, e)]
<1> DEFINE S == {n \in Nat : n <= NumElements => \E A : A = [e \in 0 .. n |-> AboveAt(p, A, e)]}
<1>1. 0 \in S
  <2>1. PICK A : A = [e \in 0 .. 0 |-> {}]
    OBVIOUS
  <2>2. A = [e \in 0 .. 0 |-> AboveAt(p, A, e)]
    BY <2>1 DEF AboveAt, Document
  <2> QED
    BY <2>2
<1>2. ASSUME NEW n \in Nat, n \in S
      PROVE  n + 1 \in S
  <2> SUFFICES ASSUME n + 1 <= NumElements
               PROVE  \E A : A = [e \in 0 .. n + 1 |-> AboveAt(p, A, e)]
    OBVIOUS
  <2>0. NumElements \in Nat
    BY NodesAre
  <2>1. PICK A : A = [e \in 0 .. n |-> AboveAt(p, A, e)]
    BY <1>2, <2>0
  <2>2. PICK B : B = [e \in 0 .. n + 1 |-> IF e <= n THEN A[e] ELSE AboveAt(p, A, e)]
    OBVIOUS
  <2>3. ASSUME NEW e \in 0 .. n + 1
        PROVE  B[e] = AboveAt(p, B, e)
    <3>1. B[e] = AboveAt(p, A, e)
      BY <2>1, <2>2
    <3>2. CASE e = 0
      BY <3>1, <3>2 DEF AboveAt, Document
    <3>3. CASE e # 0
      <4>1. e \in Elements
        BY <2>0, <3>3 DEF Elements
      <4>2. p[e] \in 0 .. n
        BY <4>1, ParentsAre, NodesAre
      <4>3. B[p[e]] = A[p[e]]
        BY <2>2, <4>2
      <4> QED
        BY <3>1, <4>3 DEF AboveAt
    <3> QED
      BY <3>2, <3>3
  <2>4. B = [e \in 0 .. n + 1 |-> AboveAt(p, B, e)]
    BY <2>2, <2>3
  <2> QED
    BY <2>4
<1> HIDE DEF S
<1>3. Nat \subseteq S
  BY <1>1, <1>2, NatSets
<1> QED
  BY <1>3 DEF S

(* Above an element are its parent and what is above that.                  *)
LEMMA AncestorsAre ==
  ASSUME NEW p, IsTree(p)
  PROVE  /\ Ancestors(p)[Document] = {}
         /\ \A e \in Elements : Ancestors(p)[e] = {p[e]} \cup Ancestors(p)[p[e]]
<1> DEFINE Above[e \in Nodes] == IF e = Document THEN {} ELSE {p[e]} \cup Above[p[e]]
<1>1. PICK A : A = [e \in 0 .. NumElements |-> AboveAt(p, A, e)]
  BY AncestorsExist, NodesAre
<1>2. A = [e \in Nodes |-> IF e = Document THEN {} ELSE {p[e]} \cup A[p[e]]]
  BY <1>1, NodesAre DEF AboveAt
<1>3. Above = [e \in Nodes |-> IF e = Document THEN {} ELSE {p[e]} \cup Above[p[e]]]
  BY <1>2
<1>4. Ancestors(p) = Above
  BY DEF Ancestors
<1> HIDE DEF Above
<1>5. Document \in Nodes
  BY DEF Nodes
<1> QED
  BY <1>3, <1>4, <1>5, NodesAre

(* Induction over the nodes.                                                *)
LEMMA NodeSets ==
  ASSUME NEW S, \A e \in Nodes : (\A n \in Nodes : n < e => n \in S) => e \in S
  PROVE  Nodes \subseteq S
<1> DEFINE N == {n \in Nat : \A e \in Nodes : e < n => e \in S}
<1>1. 0 \in N
  BY NodesAre
<1>2. ASSUME NEW n \in Nat, n \in N
      PROVE  n + 1 \in N
  BY <1>2, NodesAre
<1> HIDE DEF N
<1>3. Nat \subseteq N
  BY <1>1, <1>2, NatSets
<1>4. NumElements + 1 \in N
  BY <1>3, NodesAre
<1> QED
  BY <1>4, NodesAre DEF N

(* A set of elements has a last one.                                        *)
LEMMA LastOf ==
  ASSUME NEW B, B \subseteq Elements, B # {}
  PROVE  \E m \in B : \A b \in B : b <= m
<1> SUFFICES ASSUME \A m \in B : \E b \in B : ~ b <= m
             PROVE  FALSE
  OBVIOUS
<1> DEFINE N == {n \in Nat : \E b \in B : n <= b}
<1>1. 0 \in N
  <2>1. PICK b \in B : b \in Nat
    BY NodesAre
  <2> QED
    BY <2>1
<1>2. ASSUME NEW n \in Nat, n \in N
      PROVE  n + 1 \in N
  <2>1. PICK b \in B : n <= b
    BY <1>2
  <2>2. PICK c \in B : ~ c <= b
    OBVIOUS
  <2>3. n + 1 <= c
    BY <2>1, <2>2, NodesAre
  <2> QED
    BY <2>3
<1> HIDE DEF N
<1>3. NumElements + 1 \in N
  BY <1>1, <1>2, NatSets, NodesAre
<1> QED
  BY <1>3, NodesAre DEF N, Elements

-----------------------------------------------------------------------------
(* What lies beyond a node in a direction, and the step there.              *)

Beyond(dir, e) == IF dir = "parentNode" THEN Ancestors(parent)[e] ELSE Siblings(e)

(* The next node in a direction is a node before, from which the rest lies  *)
(* beyond.                                                                  *)
LEMMA StepIs ==
  ASSUME IsTree(parent), NEW e \in Nodes, NEW dir \in Dirs
  PROVE  \/ Step(dir, e) = Nobody /\ Beyond(dir, e) = {}
         \/ /\ Step(dir, e) \in Nodes /\ Step(dir, e) < e
            /\ Beyond(dir, e) = {Step(dir, e)} \cup Beyond(dir, Step(dir, e))
<1>1. CASE e = Document
  <2>1. Siblings(e) = {}
    BY <1>1 DEF Siblings
  <2> QED
    BY <1>1, <2>1, AncestorsAre DEF Step, Beyond
<1>2. CASE e # Document /\ dir = "parentNode"
  <2>1. e \in Elements /\ Step(dir, e) = parent[e]
    BY <1>2, NodesAre DEF Step
  <2>2. Ancestors(parent)[e] = {parent[e]} \cup Ancestors(parent)[parent[e]]
    BY <2>1, AncestorsAre
  <2> QED
    BY <1>2, <2>1, <2>2, ParentsAre DEF Beyond
<1>3. CASE e # Document /\ dir # "parentNode" /\ Siblings(e) = {}
  BY <1>3 DEF Step, Beyond
<1>4. CASE e # Document /\ dir # "parentNode" /\ Siblings(e) # {}
  <2> DEFINE n == CHOOSE m \in Siblings(e) : \A b \in Siblings(e) : b <= m
  <2>1. Siblings(e) \subseteq Elements
    BY DEF Siblings
  <2>2. n \in Siblings(e) /\ \A b \in Siblings(e) : b <= n
    BY <1>4, <2>1, LastOf
  <2>3. Step(dir, e) = n
    BY <1>4 DEF Step
  <2> HIDE DEF n
  <2>4. n \in Elements /\ n < e /\ parent[n] = parent[e]
    BY <2>2 DEF Siblings
  <2>5. Siblings(n) = {m \in Elements : m < n /\ parent[m] = parent[e]}
    BY <2>4, NodesAre DEF Siblings
  <2>6. Siblings(e) = {m \in Elements : m < e /\ parent[m] = parent[e]}
    BY <1>4 DEF Siblings
  <2>7. ASSUME NEW m \in Elements
        PROVE  m \in Siblings(e) <=> (m = n \/ m \in Siblings(n))
    BY <2>2, <2>4, <2>5, <2>6, <2>7, NodesAre
  <2>8. Siblings(e) = {n} \cup Siblings(n)
    BY <2>1, <2>4, <2>5, <2>7
  <2> QED
    BY <1>4, <2>3, <2>4, <2>8, NodesAre DEF Beyond
<1> QED
  BY <1>1, <1>2, <1>3, <1>4 DEF Dirs

-----------------------------------------------------------------------------
(* Lists of nodes in document order.                                        *)

Members(q) == {q[i] : i \in DOMAIN q}

(* The members of a longer list.                                            *)
LEMMA MembersAppend ==
  ASSUME NEW S, NEW q \in Seq(S), NEW e
  PROVE  Members(Append(q, e)) = Members(q) \cup {e}
<1>1. /\ DOMAIN q = 1 .. Len(q) /\ Len(q) \in Nat
      /\ DOMAIN Append(q, e) = 1 .. Len(q) + 1
      /\ Append(q, e)[Len(q) + 1] = e
      /\ \A i \in 1 .. Len(q) : Append(q, e)[i] = q[i]
  BY AppendProperties
<1>2. Members(Append(q, e)) \subseteq Members(q) \cup {e}
  <2> SUFFICES ASSUME NEW i \in 1 .. Len(q) + 1 PROVE Append(q, e)[i] \in Members(q) \cup {e}
    BY <1>1 DEF Members
  <2>1. i \in 1 .. Len(q) \/ i = Len(q) + 1
    BY <1>1
  <2> QED
    BY <1>1, <2>1 DEF Members
<1>3. Members(q) \subseteq Members(Append(q, e))
  <2> SUFFICES ASSUME NEW i \in 1 .. Len(q) PROVE q[i] \in Members(Append(q, e))
    BY <1>1 DEF Members
  <2>1. i \in 1 .. Len(q) + 1
    BY <1>1
  <2> QED
    BY <1>1, <2>1 DEF Members
<1>4. e \in Members(Append(q, e))
  BY <1>1 DEF Members
<1> QED
  BY <1>2, <1>3, <1>4

(* Only the empty list has no members.                                      *)
LEMMA MembersEmpty == ASSUME NEW S PROVE \A q \in Seq(S) : Members(q) = {} <=> q = << >>
<1> TAKE q \in Seq(S)
<1>1. q = << >> \/ Len(q) \in Nat \ {0}
  BY EmptySeq
<1>2. Len(q) \in Nat \ {0} => q[1] \in Members(q)
  BY DEF Members
<1>3. q = << >> => Members(q) = {}
  BY DEF Members
<1>4. Len(q) \in Nat \ {0} => q # << >>
  BY EmptySeq
<1> QED
  BY <1>1, <1>2, <1>3, <1>4

(* The members of two lists, one after the other.                           *)
LEMMA MembersConcat ==
  ASSUME NEW S, NEW p \in Seq(S), NEW q \in Seq(S)
  PROVE  Members(p \o q) = Members(p) \cup Members(q)
<1>1. /\ DOMAIN p = 1 .. Len(p) /\ DOMAIN q = 1 .. Len(q) /\ Len(p) \in Nat /\ Len(q) \in Nat
      /\ DOMAIN (p \o q) = 1 .. Len(p) + Len(q)
      /\ \A i \in 1 .. Len(p) + Len(q) :
           (p \o q)[i] = IF i <= Len(p) THEN p[i] ELSE q[i - Len(p)]
  BY ConcatProperties
<1>2. ASSUME NEW i \in 1 .. Len(p) + Len(q)
      PROVE  (p \o q)[i] \in Members(p) \cup Members(q)
  <2>1. CASE i <= Len(p)
    <3>1. i \in 1 .. Len(p) /\ (p \o q)[i] = p[i]
      BY <1>1, <2>1
    <3> QED
      BY <1>1, <3>1 DEF Members
  <2>2. CASE ~ i <= Len(p)
    <3>1. i - Len(p) \in 1 .. Len(q) /\ (p \o q)[i] = q[i - Len(p)]
      BY <1>1, <2>2
    <3> QED
      BY <1>1, <3>1 DEF Members
  <2> QED
    BY <2>1, <2>2
<1>3. ASSUME NEW i \in 1 .. Len(p) PROVE p[i] \in Members(p \o q)
  BY <1>1 DEF Members
<1>4. ASSUME NEW i \in 1 .. Len(q) PROVE q[i] \in Members(p \o q)
  <2>1. Len(p) + i \in 1 .. Len(p) + Len(q) /\ ~ Len(p) + i <= Len(p) /\ (Len(p) + i) - Len(p) = i
    BY <1>1
  <2>2. (p \o q)[Len(p) + i] = q[i]
    BY <1>1, <2>1
  <2> QED
    BY <1>1, <2>1, <2>2 DEF Members
<1> QED
  BY <1>1, <1>2, <1>3, <1>4 DEF Members

(* What stays are the members that do not go.                               *)
LEMMA WithoutMembers ==
  ASSUME NEW S, NEW gone
  PROVE  \A q \in Seq(S) : Members(Without(q, gone)) = Members(q) \ gone
<1> DEFINE T == {q \in Seq(S) : Members(Without(q, gone)) = Members(q) \ gone}
<1>1. << >> \in T
  <2>1. << >> \in Seq(S)
    OBVIOUS
  <2> QED
    BY <2>1, WithoutEmpty, MembersEmpty
<1>2. ASSUME NEW q \in Seq(S), NEW e \in S, q \in T
      PROVE  Append(q, e) \in T
  <2>1. PICK w \in Seq(S) : w = Without(q, gone)
    BY WithoutType
  <2>2. Without(Append(q, e), gone) = IF e \in gone THEN w ELSE Append(w, e)
    BY <2>1, WithoutAppend
  <2>3. Members(Append(q, e)) = Members(q) \cup {e} /\ Members(Append(w, e)) = Members(w) \cup {e}
    BY MembersAppend
  <2>4. Append(q, e) \in Seq(S)
    OBVIOUS
  <2> QED
    BY <1>2, <2>1, <2>2, <2>3, <2>4
<1> HIDE DEF T
<1>3. Seq(S) \subseteq T
  BY <1>1, <1>2, ListSets
<1> QED
  BY <1>3 DEF T

(* Going twice, or by another set that is the same for the list.            *)
LEMMA WithoutTwice ==
  ASSUME NEW S, NEW A, NEW B
  PROVE  \A q \in Seq(S) : Without(Without(q, A), B) = Without(q, A \cup B)
<1> DEFINE T == {q \in Seq(S) : Without(Without(q, A), B) = Without(q, A \cup B)}
<1>1. << >> \in T
  <2>1. << >> \in Seq(S)
    OBVIOUS
  <2> QED
    BY <2>1, WithoutEmpty
<1>2. ASSUME NEW q \in Seq(S), NEW e \in S, q \in T
      PROVE  Append(q, e) \in T
  <2>1. PICK w \in Seq(S) : w = Without(q, A)
    BY WithoutType
  <2>2. Without(Append(q, e), A) = IF e \in A THEN w ELSE Append(w, e)
    BY <2>1, WithoutAppend
  <2>3. Without(Append(w, e), B) = IF e \in B THEN Without(w, B) ELSE Append(Without(w, B), e)
    BY WithoutAppend
  <2>4. Without(Append(q, e), A \cup B) =
          IF e \in A \cup B THEN Without(q, A \cup B) ELSE Append(Without(q, A \cup B), e)
    BY WithoutAppend
  <2>5. Append(q, e) \in Seq(S)
    OBVIOUS
  <2> QED
    BY <1>2, <2>1, <2>2, <2>3, <2>4, <2>5
<1> HIDE DEF T
<1>3. Seq(S) \subseteq T
  BY <1>1, <1>2, ListSets
<1> QED
  BY <1>3 DEF T

(* What goes matters only where it is among what the list may hold.         *)
LEMMA WithoutSame ==
  ASSUME NEW S, NEW A, NEW B, \A e \in S : e \in A <=> e \in B
  PROVE  \A q \in Seq(S) : Without(q, A) = Without(q, B)
<1> DEFINE T == {q \in Seq(S) : Without(q, A) = Without(q, B)}
<1>1. << >> \in T
  <2>1. << >> \in Seq(S)
    OBVIOUS
  <2> QED
    BY <2>1, WithoutEmpty
<1>2. ASSUME NEW q \in Seq(S), NEW e \in S, q \in T
      PROVE  Append(q, e) \in T
  <2>1. Without(Append(q, e), A) = IF e \in A THEN Without(q, A) ELSE Append(Without(q, A), e)
    BY WithoutAppend
  <2>2. Without(Append(q, e), B) = IF e \in B THEN Without(q, B) ELSE Append(Without(q, B), e)
    BY WithoutAppend
  <2>3. Append(q, e) \in Seq(S)
    OBVIOUS
  <2> QED
    BY <1>2, <2>1, <2>2, <2>3
<1> HIDE DEF T
<1>3. Seq(S) \subseteq T
  BY <1>1, <1>2, ListSets
<1> QED
  BY <1>3 DEF T

AllNodes == [i \in 1 .. NumElements + 1 |-> i - 1]

(* InOrder lists a set: its members are the set's; what goes, goes from the *)
(* set.                                                                     *)
LEMMA InOrderIs ==
  ASSUME NEW X, X \subseteq Nodes
  PROVE  /\ InOrder(X) \in Seq(Nodes) /\ Members(InOrder(X)) = X /\ InOrder(X) \in Seq(X)
         /\ \A Y : Without(InOrder(X), Y) = InOrder(X \ Y)
<1>1. AllNodes \in Seq(Nodes) /\ Members(AllNodes) = Nodes
  <2>1. NumElements + 1 \in Nat /\ \A i \in 1 .. NumElements + 1 : i - 1 \in Nodes
    BY NodesAre
  <2>2. AllNodes \in Seq(Nodes) /\ DOMAIN AllNodes = 1 .. NumElements + 1
    BY <2>1, IsASeq DEF AllNodes
  <2>3. \A i \in 1 .. NumElements + 1 : AllNodes[i] = i - 1
    BY DEF AllNodes
  <2>4. Members(AllNodes) \subseteq Nodes
    BY <2>1, <2>2, <2>3 DEF Members
  <2>5. ASSUME NEW n \in Nodes PROVE n \in Members(AllNodes)
    <3>1. n + 1 \in 1 .. NumElements + 1 /\ (n + 1) - 1 = n
      BY NodesAre
    <3>2. AllNodes[n + 1] = n
      BY <2>3, <3>1
    <3> QED
      BY <2>2, <3>1, <3>2 DEF Members
  <2> QED
    BY <2>2, <2>4, <2>5
<1>2. \A Z : InOrder(Z) = Without(AllNodes, Nodes \ Z)
  BY DEF InOrder, AllNodes
<1>3. InOrder(X) \in Seq(Nodes)
  BY <1>1, <1>2, WithoutType
<1>4. Members(InOrder(X)) = X
  <2>1. Members(InOrder(X)) = Members(AllNodes) \ (Nodes \ X)
    BY <1>1, <1>2, WithoutMembers
  <2> QED
    BY <1>1, <2>1
<1>5. InOrder(X) \in Seq(X)
  <2>1. /\ InOrder(X) = [i \in 1 .. Len(InOrder(X)) |-> InOrder(X)[i]]
        /\ Len(InOrder(X)) \in Nat /\ DOMAIN InOrder(X) = 1 .. Len(InOrder(X))
    BY <1>3, LenProperties
  <2>2. \A i \in 1 .. Len(InOrder(X)) : InOrder(X)[i] \in X
    BY <1>4, <2>1 DEF Members
  <2> QED
    BY <2>1, <2>2, IsASeq
<1>6. ASSUME NEW Y
      PROVE  Without(InOrder(X), Y) = InOrder(X \ Y)
  <2>1. Without(Without(AllNodes, Nodes \ X), Y) = Without(AllNodes, (Nodes \ X) \cup Y)
    BY <1>1, WithoutTwice
  <2>2. Without(AllNodes, (Nodes \ X) \cup Y) = Without(AllNodes, Nodes \ (X \ Y))
    BY <1>1, WithoutSame
  <2> QED
    BY <1>2, <2>1, <2>2
<1> QED
  BY <1>3, <1>4, <1>5, <1>6

-----------------------------------------------------------------------------
(* Slots.                                                                   *)

Searches == [groups : Seq(Groups), context : Nodes, run : Nat, fn : Nat]
DoneNames == Nat \X Nat \X Nat
Names(s, slot, g, k) == slot.doneName = <<s.fn, g, k>>

(* The parts of a slot.                                                     *)
LEMMA SlotsAre ==
  \A S \in Slots : \A m \in Nodes, d \in Dirs :
    /\ S[m][d] \in Slot /\ S[m][d].run \in Nat /\ S[m][d].doneName \in DoneNames
    /\ S[m][d].value \in {"pending", "yes", "no"}
BY DEF Slots, Slot, Dirs, DoneNames

(* Only one slot is pending for a search and a combinator.                  *)
LEMMA PendingIs ==
  ASSUME NEW s \in Searches, NEW doneName \in DoneNames
  PROVE  /\ Pending(s, doneName) \in Slot
         /\ \A slot \in Slot : slot = Pending(s, doneName) <=>
              slot.run = s.run /\ slot.doneName = doneName /\ slot.value = "pending"
BY DEF Searches, DoneNames, Pending, Slot

(* Marking a node changes one slot.                                         *)
LEMMA PutIs ==
  ASSUME NEW S \in Slots, NEW n \in Nodes, NEW dir \in Dirs, NEW slot \in Slot
  PROVE  /\ Put(S, n, dir, slot) \in Slots
         /\ \A m \in Nodes, d \in Dirs :
              Put(S, n, dir, slot)[m][d] = IF m = n /\ d = dir THEN slot ELSE S[m][d]
BY DEF Put, Slots, Dirs

SettledSlot(s, doneName, value) == [run |-> s.run, doneName |-> doneName, value |-> value]

(* Settling changes the slots that are pending for the combinator, and no   *)
(* other.                                                                   *)
LEMMA SettleIs ==
  ASSUME NEW s \in Searches, NEW S \in Slots, NEW dir \in Dirs, NEW doneName \in DoneNames,
         NEW value \in {"yes", "no"}
  PROVE  /\ Settle(S, dir, s, doneName, value) \in Slots
         /\ \A m \in Nodes, d \in Dirs :
              Settle(S, dir, s, doneName, value)[m][d] =
                IF d = dir /\ S[m][d] = Pending(s, doneName)
                THEN SettledSlot(s, doneName, value) ELSE S[m][d]
<1> DEFINE T == Settle(S, dir, s, doneName, value)
<1>1. ASSUME NEW m \in Nodes
      PROVE  /\ T[m] \in [Dirs -> Slot]
             /\ \A d \in Dirs : T[m][d] = IF d = dir /\ S[m][d] = Pending(s, doneName)
                                          THEN SettledSlot(s, doneName, value) ELSE S[m][d]
  <2>1. S[m] \in [Dirs -> Slot] /\ S[m][dir] \in Slot
    BY DEF Slots, Dirs
  <2>2. CASE S[m][dir] = Pending(s, doneName)
    <3>1. T[m] = [S[m] EXCEPT ![dir].value = value]
      BY <2>2 DEF Settle
    <3>2. [S[m][dir] EXCEPT !.value = value] = SettledSlot(s, doneName, value)
      BY <2>2 DEF Pending, SettledSlot
    <3>3. SettledSlot(s, doneName, value) \in Slot
      BY DEF SettledSlot, Slot, Searches, DoneNames
    <3>4. T[m] = [S[m] EXCEPT ![dir] = SettledSlot(s, doneName, value)]
      BY <3>1, <3>2
    <3> QED
      BY <2>1, <2>2, <3>3, <3>4
  <2>3. CASE S[m][dir] # Pending(s, doneName)
    <3>1. T[m] = S[m]
      BY <2>3 DEF Settle
    <3> QED
      BY <2>1, <2>3, <3>1
  <2> QED
    BY <2>2, <2>3
<1>2. T = [m \in Nodes |-> T[m]]
  BY DEF Settle
<1> HIDE DEF T
<1>3. T \in Slots
  BY <1>1, <1>2 DEF Slots, Dirs
<1> QED
  BY <1>1, <1>3 DEF T

-----------------------------------------------------------------------------
(* What a group means.                                                      *)

MeantAt(group, context, U, k) ==
  IF k = 0 THEN {e \in Elements : (~ isHTML /\ ~ group.leading)
                                    \/ context \in Related(group.lead, e)}
  ELSE IF group.tokens[k] \in relative
       THEN {e \in Elements : U[k - 1] \cap Related(group.tokens[k], e) # {}}
       ELSE {e \in U[k - 1] : TAG(group.tokens[k], e)}

(* What the beginnings of a group mean is a function.                       *)
LEMMA MeantExists ==
  ASSUME NEW group, NEW context
  PROVE  \A n \in Nat : \E U : U = [k \in 0 .. n |-> MeantAt(group, context, U, k)]
<1> DEFINE S == {n \in Nat : \E U : U = [k \in 0 .. n |-> MeantAt(group, context, U, k)]}
<1>1. 0 \in S
  <2>1. PICK U : U = [k \in 0 .. 0 |-> MeantAt(group, context, << >>, k)]
    OBVIOUS
  <2>2. U = [k \in 0 .. 0 |-> MeantAt(group, context, U, k)]
    BY <2>1 DEF MeantAt
  <2> QED
    BY <2>2
<1>2. ASSUME NEW n \in Nat, n \in S
      PROVE  n + 1 \in S
  <2>1. PICK U : U = [k \in 0 .. n |-> MeantAt(group, context, U, k)]
    BY <1>2
  <2>2. PICK V : V = [k \in 0 .. n + 1 |-> IF k <= n THEN U[k] ELSE MeantAt(group, context, U, k)]
    OBVIOUS
  <2>3. ASSUME NEW k \in 0 .. n + 1
        PROVE  V[k] = MeantAt(group, context, V, k)
    <3>1. V[k] = MeantAt(group, context, U, k)
      BY <2>1, <2>2
    <3>2. k # 0 => V[k - 1] = U[k - 1]
      BY <2>2
    <3> QED
      BY <3>1, <3>2 DEF MeantAt
  <2>4. V = [k \in 0 .. n + 1 |-> MeantAt(group, context, V, k)]
    BY <2>2, <2>3
  <2> QED
    BY <2>4
<1> HIDE DEF S
<1>3. Nat \subseteq S
  BY <1>1, <1>2, NatSets
<1> QED
  BY <1>3 DEF S

(* Each beginning means what follows from the one before it.                *)
LEMMA MeantIs ==
  ASSUME NEW group \in Groups, NEW context
  PROVE  \A k \in 0 .. Len(group.tokens) :
           /\ MeantUpto(group, context)[k] = MeantAt(group, context, MeantUpto(group, context), k)
           /\ MeantUpto(group, context)[k] \subseteq Elements
<1> DEFINE n == Len(group.tokens)
           Upto[k \in 0 .. n] ==
             IF k = 0 THEN {e \in Elements : (~ isHTML /\ ~ group.leading)
                                               \/ context \in Related(group.lead, e)}
             ELSE IF group.tokens[k] \in relative
                  THEN {e \in Elements : Upto[k - 1] \cap Related(group.tokens[k], e) # {}}
                  ELSE {e \in Upto[k - 1] : TAG(group.tokens[k], e)}
<1>0. n \in Nat
  BY DEF Groups
<1>1. PICK U : U = [k \in 0 .. n |-> MeantAt(group, context, U, k)]
  BY <1>0, MeantExists
<1>2. U = [k \in 0 .. n |->
             IF k = 0 THEN {e \in Elements : (~ isHTML /\ ~ group.leading)
                                               \/ context \in Related(group.lead, e)}
             ELSE IF group.tokens[k] \in relative
                  THEN {e \in Elements : U[k - 1] \cap Related(group.tokens[k], e) # {}}
                  ELSE {e \in U[k - 1] : TAG(group.tokens[k], e)}]
  BY <1>1 DEF MeantAt
<1>3. Upto = [k \in 0 .. n |->
             IF k = 0 THEN {e \in Elements : (~ isHTML /\ ~ group.leading)
                                               \/ context \in Related(group.lead, e)}
             ELSE IF group.tokens[k] \in relative
                  THEN {e \in Elements : Upto[k - 1] \cap Related(group.tokens[k], e) # {}}
                  ELSE {e \in Upto[k - 1] : TAG(group.tokens[k], e)}]
  BY <1>2
<1>4. MeantUpto(group, context) = Upto
  BY DEF MeantUpto
<1> HIDE DEF Upto
<1>5. \A k \in 0 .. n : Upto[k] = MeantAt(group, context, Upto, k)
  BY <1>3 DEF MeantAt
<1> DEFINE T == {k \in Nat : k <= n => Upto[k] \subseteq Elements}
<1>6. 0 \in T
  <2>1. 0 \in 0 .. n
    BY <1>0
  <2>2. Upto[0] = MeantAt(group, context, Upto, 0)
    BY <1>5, <2>1
  <2>3. Upto[0] \subseteq Elements
    BY <2>2 DEF MeantAt
  <2> QED
    BY <2>3
<1>7. ASSUME NEW k \in Nat, k \in T
      PROVE  k + 1 \in T
  <2> SUFFICES ASSUME k + 1 <= n PROVE Upto[k + 1] \subseteq Elements
    OBVIOUS
  <2>1. /\ k + 1 \in 0 .. n /\ k + 1 # 0 /\ (k + 1) - 1 = k
        /\ Upto[k] \subseteq Elements /\ Upto[k + 1] = MeantAt(group, context, Upto, k + 1)
    BY <1>0, <1>5, <1>7
  <2> QED
    BY <2>1 DEF MeantAt
<1> HIDE DEF T
<1>8. Nat \subseteq T
  BY <1>6, <1>7, NatSets
<1> QED
  BY <1>0, <1>4, <1>5, <1>8 DEF T

-----------------------------------------------------------------------------
(* Matchers. What is matched before the k-th token; whether a node or       *)
(* something beyond it is among that; and when a slot is right.             *)

Target(s, g, k) == IF k = 0 THEN {s.context} ELSE MeantUpto(s.groups[g], s.context)[k - 1]
Hits(X, dir, e) == \E n \in Beyond(dir, e) : n \in X
Reaches(X, dir, e) == e \in X \/ Hits(X, dir, e)

IsPending(s, slot) == slot.run = s.run /\ slot.value = "pending"
SlotIsRight(s, dir, m, slot) ==
  /\ slot.run <= s.run
  /\ \A g, k \in Nat :
       slot.run = s.run /\ slot.value # "pending" /\ Names(s, slot, g, k) =>
         (slot.value = "yes" <=> Reaches(Target(s, g, k), dir, m))
Right(s, S) == \A m \in Nodes, d \in Dirs : SlotIsRight(s, d, m, S[m][d])

(* The slots that a call may find pending are those of the combinators to   *)
(* its right, and it leaves no other.                                       *)
IsAbove(s, g, k, slot) == \E j \in Nat : j > k /\ Names(s, slot, g, j)
OnlyAbove(s, g, k, S) ==
  \A m \in Nodes, d \in Dirs : IsPending(s, S[m][d]) => IsAbove(s, g, k, S[m][d])
Left(s, S, T) == \A m \in Nodes, d \in Dirs : IsPending(s, T[m][d]) => T[m][d] = S[m][d]

Outcome(s, S, r, yes) ==
  r.slots \in Slots /\ Right(s, r.slots) /\ Left(s, S, r.slots) /\ (r.ok <=> yes)
Contract(s, g, k, D, X, matcher) ==
  \A e \in D : \A S \in Slots :
    Right(s, S) /\ OnlyAbove(s, g, k, S) => Outcome(s, S, matcher[e][S], e \in X)

(* Pending slots of the combinator itself, on the way to e: they wait for   *)
(* what lies beyond e.                                                      *)
IsOnWay(s, g, k, dir, X, e, m, d, slot) ==
  d = dir /\ Names(s, slot, g, k) /\ (Reaches(X, dir, m) <=> Hits(X, dir, e))
Walks(s, g, k, dir, X, e, S) ==
  \A m \in Nodes, d \in Dirs :
    IsPending(s, S[m][d]) =>
      IsAbove(s, g, k, S[m][d]) \/ IsOnWay(s, g, k, dir, X, e, m, d, S[m][d])

Passed(s, g, k, e, S) ==
  \A m \in Nodes, d \in Dirs : IsPending(s, S[m][d]) /\ Names(s, S[m][d], g, k) => m >= e

EndsWith(s, g, k, dir, ok, S) ==
  Result(ok, Settle(S, dir, s, <<s.fn, g, k>>, IF ok THEN "yes" ELSE "no"))

(* A walk that ends settles the slots on its way.                           *)
LEMMA EndsRight ==
  ASSUME NEW s \in Searches, NEW g \in Nat, NEW k \in Nat, NEW dir \in Dirs, NEW e \in Nodes,
         NEW S \in Slots, NEW ok, Right(s, S),
         Walks(s, g, k, dir, Target(s, g, k), e, S), ok <=> Hits(Target(s, g, k), dir, e)
  PROVE  /\ Outcome(s, S, EndsWith(s, g, k, dir, ok, S), Hits(Target(s, g, k), dir, e))
         /\ OnlyAbove(s, g, k, EndsWith(s, g, k, dir, ok, S).slots)
<1> DEFINE value == IF ok THEN "yes" ELSE "no"
           doneName == <<s.fn, g, k>>
           T == Settle(S, dir, s, doneName, value)
           X == Target(s, g, k)
<1>1. doneName \in DoneNames /\ value \in {"yes", "no"}
  BY DEF DoneNames, Searches
<1>2. EndsWith(s, g, k, dir, ok, S) = Result(ok, T)
  BY DEF EndsWith
<1>3. /\ T \in Slots
      /\ \A m \in Nodes, d \in Dirs :
           T[m][d] = IF d = dir /\ S[m][d] = Pending(s, doneName)
                     THEN SettledSlot(s, doneName, value) ELSE S[m][d]
  BY <1>1, SettleIs
<1>4. value = "yes" <=> Hits(X, dir, e)
  OBVIOUS
<1>5. s.run \in Nat /\ s.fn \in Nat
  BY DEF Searches
<1> HIDE DEF T, value, X
<1>6. ASSUME NEW m \in Nodes, NEW d \in Dirs
      PROVE  /\ SlotIsRight(s, d, m, T[m][d])
             /\ IsPending(s, T[m][d]) => T[m][d] = S[m][d] /\ IsAbove(s, g, k, T[m][d])
  <2>1. CASE d = dir /\ S[m][d] = Pending(s, doneName)
    <3>1. T[m][d] = SettledSlot(s, doneName, value)
      BY <1>3, <2>1
    <3>2. /\ T[m][d].run = s.run /\ T[m][d].doneName = doneName /\ T[m][d].value = value
          /\ T[m][d].value # "pending"
      BY <1>1, <3>1 DEF SettledSlot
    <3>3. ~ IsAbove(s, g, k, S[m][d])
      BY <2>1 DEF IsAbove, Names, Pending
    <3>4. IsPending(s, S[m][d])
      BY <2>1 DEF IsPending, Pending
    <3>5. Reaches(X, dir, m) <=> Hits(X, dir, e)
      BY <3>3, <3>4 DEF Walks, IsOnWay, X
    <3>6. ASSUME NEW h \in Nat, NEW j \in Nat, Names(s, T[m][d], h, j)
          PROVE  h = g /\ j = k
      BY <3>2, <3>6 DEF Names
    <3>7. SlotIsRight(s, d, m, T[m][d])
      BY <1>4, <1>5, <2>1, <3>2, <3>5, <3>6 DEF SlotIsRight, X
    <3> QED
      BY <3>2, <3>7 DEF IsPending
  <2>2. CASE ~ (d = dir /\ S[m][d] = Pending(s, doneName))
    <3>1. T[m][d] = S[m][d]
      BY <1>3, <2>2
    <3>2. ASSUME IsPending(s, S[m][d]) PROVE IsAbove(s, g, k, S[m][d])
      <4>1. ~ (d = dir /\ Names(s, S[m][d], g, k))
        BY <1>1, <2>2, <3>2, SlotsAre, PendingIs DEF IsPending, Names
      <4> QED
        BY <3>2, <4>1 DEF Walks, IsOnWay
    <3> QED
      BY <3>1, <3>2 DEF Right
  <2> QED
    BY <2>1, <2>2
<1>7. Right(s, T) /\ Left(s, S, T) /\ OnlyAbove(s, g, k, T)
  BY <1>6 DEF Right, Left, OnlyAbove
<1>8. Result(ok, T).slots = T /\ (Result(ok, T).ok <=> ok)
  BY DEF Result
<1> QED
  BY <1>2, <1>3, <1>7, <1>8 DEF Outcome

-----------------------------------------------------------------------------
(* Combinators. One step of a walk, where W is the walk from n.             *)

IsAt(k, n) == n \in Elements \/ (k = 0 /\ n = Document)
Marked(s, g, k, dir, n, S) ==
  IF isHTML THEN Put(S, n, dir, Pending(s, <<s.fn, g, k>>)) ELSE S
WalkStep(s, g, k, dir, matcher, W, n, S) ==
  IF ~ IsAt(k, n) THEN EndsWith(s, g, k, dir, FALSE, S)
  ELSE IF isHTML /\ Filled(S[n][dir], s, <<s.fn, g, k>>)
       THEN EndsWith(s, g, k, dir, S[n][dir].value = "yes", S)
  ELSE IF matcher[n][Marked(s, g, k, dir, n, S)].ok
       THEN EndsWith(s, g, k, dir, TRUE, matcher[n][Marked(s, g, k, dir, n, S)].slots)
  ELSE W[matcher[n][Marked(s, g, k, dir, n, S)].slots]
WalkAt(s, g, k, dir, matcher, W, e) ==
  [S \in Slots |-> WalkStep(s, g, k, dir, matcher, W[Step(dir, e)], Step(dir, e), S)]

(* A step depends on the walk from the next node only.                      *)
LEMMA WalkSame ==
  ASSUME NEW s, NEW g, NEW k, NEW dir, NEW matcher, NEW V, NEW W, NEW e,
         Step(dir, e) \in Nodes => V[Step(dir, e)] = W[Step(dir, e)]
  PROVE  WalkAt(s, g, k, dir, matcher, V, e) = WalkAt(s, g, k, dir, matcher, W, e)
<1> DEFINE n == Step(dir, e)
<1>1. ASSUME NEW S \in Slots
      PROVE  WalkStep(s, g, k, dir, matcher, V[n], n, S)
               = WalkStep(s, g, k, dir, matcher, W[n], n, S)
  <2>1. CASE n \in Nodes
    <3>1. V[n] = W[n]
      BY <2>1
    <3> QED
      BY <3>1
  <2>2. CASE n \notin Nodes
    <3>1. ~ IsAt(k, n)
      BY <2>2 DEF IsAt, Nodes
    <3> QED
      BY <3>1 DEF WalkStep
  <2> QED
    BY <2>1, <2>2
<1> QED
  BY <1>1 DEF WalkAt

IsWalk(s, g, k, dir, matcher, n, W) == W = [e \in 0 .. n |-> WalkAt(s, g, k, dir, matcher, W, e)]

(* The walks from all nodes are a function.                                 *)
LEMMA WalkExists ==
  ASSUME IsTree(parent), NEW s, NEW g, NEW k, NEW dir \in Dirs, NEW matcher
  PROVE  \A n \in Nat : n <= NumElements => \E W : IsWalk(s, g, k, dir, matcher, n, W)
<1> DEFINE Walk(W, e) == WalkAt(s, g, k, dir, matcher, W, e)
           S == {n \in Nat : n <= NumElements => \E W : W = [e \in 0 .. n |-> Walk(W, e)]}
<1>0. ASSUME NEW V, NEW W, NEW e \in Nodes, \A n \in Nodes : n < e => V[n] = W[n]
      PROVE  Walk(V, e) = Walk(W, e)
  <2>1. Step(dir, e) \in Nodes => Step(dir, e) < e
    BY StepIs, NodesAre DEF Nobody
  <2> QED
    BY <1>0, <2>1, WalkSame
<1> HIDE DEF Walk
<1>1. 0 \in S
  <2>1. PICK W : W = [e \in 0 .. 0 |-> Walk(<< >>, e)]
    OBVIOUS
  <2>2. 0 \in Nodes /\ \A n \in Nodes : ~ n < 0
    BY NodesAre
  <2>3. Walk(<< >>, 0) = Walk(W, 0)
    BY <1>0, <2>2
  <2>4. W = [e \in 0 .. 0 |-> Walk(W, e)]
    BY <2>1, <2>3
  <2> QED
    BY <2>4
<1>2. ASSUME NEW n \in Nat, n \in S
      PROVE  n + 1 \in S
  <2> SUFFICES ASSUME n + 1 <= NumElements
               PROVE  \E W : W = [e \in 0 .. n + 1 |-> Walk(W, e)]
    OBVIOUS
  <2>0. NumElements \in Nat
    BY NodesAre
  <2>1. PICK W : W = [e \in 0 .. n |-> Walk(W, e)]
    BY <1>2, <2>0
  <2>2. PICK V : V = [e \in 0 .. n + 1 |-> IF e <= n THEN W[e] ELSE Walk(W, e)]
    OBVIOUS
  <2>3. ASSUME NEW e \in 0 .. n + 1
        PROVE  V[e] = Walk(V, e)
    <3>1. V[e] = Walk(W, e)
      BY <2>1, <2>2
    <3>2. e \in Nodes /\ \A m \in Nodes : m < e => m \in 0 .. n
      BY <2>0, NodesAre
    <3>3. \A m \in Nodes : m < e => V[m] = W[m]
      BY <2>2, <3>2
    <3> QED
      BY <1>0, <3>1, <3>2, <3>3
  <2>4. V = [e \in 0 .. n + 1 |-> Walk(V, e)]
    BY <2>2, <2>3
  <2> QED
    BY <2>4
<1> HIDE DEF S
<1>3. Nat \subseteq S
  BY <1>1, <1>2, NatSets
<1> QED
  BY <1>3 DEF S, Walk, IsWalk

(* addCombinator, for a combinator that is not of the first kind.           *)
LEMMA AllIs ==
  ASSUME IsTree(parent), NEW s, NEW g, NEW k, NEW combinator, NEW matcher, ~ IsFirst(combinator)
  PROVE  \E W : /\ addCombinator(s, g, k, combinator, matcher) = W
                /\ \A e \in Nodes : W[e] = WalkAt(s, g, k, Dir(combinator), matcher, W, e)
<1> DEFINE dir == Dir(combinator)
      doneName == <<s.fn, g, k>>
      Is(n) == n \in Elements \/ (k = 0 /\ n = Document)
      Ends(ok, S) == Result(ok, Settle(S, dir, s, doneName, IF ok THEN "yes" ELSE "no"))
      Here(n, S) ==
        matcher[n][IF isHTML THEN Put(S, n, dir, Pending(s, doneName)) ELSE S]
      All[e \in Nodes] == [S \in Slots |->
        LET n == Step(dir, e)
            r == Here(n, S)
        IN  IF ~ Is(n) THEN Ends(FALSE, S)
            ELSE IF isHTML /\ Filled(S[n][dir], s, doneName) THEN Ends(S[n][dir].value = "yes", S)
            ELSE IF r.ok THEN Ends(TRUE, r.slots) ELSE All[n][r.slots]]
<1>1. PICK W : IsWalk(s, g, k, dir, matcher, NumElements, W)
  <2>1. dir \in Dirs
    BY DEF Dirs, Dir
  <2>2. NumElements \in Nat /\ NumElements <= NumElements
    BY NodesAre
  <2> HIDE DEF dir
  <2> QED
    BY <2>1, <2>2, WalkExists
<1>2. W = [e \in Nodes |-> [S \in Slots |->
        LET n == Step(dir, e)
            r == Here(n, S)
        IN  IF ~ Is(n) THEN Ends(FALSE, S)
            ELSE IF isHTML /\ Filled(S[n][dir], s, doneName) THEN Ends(S[n][dir].value = "yes", S)
            ELSE IF r.ok THEN Ends(TRUE, r.slots) ELSE W[n][r.slots]]]
  BY <1>1, NodesAre DEF IsWalk, WalkAt, WalkStep, IsAt, EndsWith, Marked
<1>3. All = [e \in Nodes |-> [S \in Slots |->
        LET n == Step(dir, e)
            r == Here(n, S)
        IN  IF ~ Is(n) THEN Ends(FALSE, S)
            ELSE IF isHTML /\ Filled(S[n][dir], s, doneName) THEN Ends(S[n][dir].value = "yes", S)
            ELSE IF r.ok THEN Ends(TRUE, r.slots) ELSE All[n][r.slots]]]
  BY <1>2
<1>4. addCombinator(s, g, k, combinator, matcher) = All
  BY DEF addCombinator
<1> HIDE DEF All
<1>5. All = [e \in Nodes |-> WalkAt(s, g, k, dir, matcher, All, e)]
  BY <1>3 DEF WalkAt, WalkStep, IsAt, EndsWith, Marked
<1> QED
  BY <1>4, <1>5

(* The slot of the next node is marked.                                     *)
MarkedOnly(s, g, k, dir, n, S, T) ==
  \A m \in Nodes, d \in Dirs :
    \/ T[m][d] = S[m][d]
    \/ m = n /\ d = dir /\ IsPending(s, T[m][d]) /\ Names(s, T[m][d], g, k)

(* Marking a node leaves the slots right.                                   *)
LEMMA MarkedIs ==
  ASSUME NEW s \in Searches, NEW g \in Nat, NEW k \in Nat, NEW dir \in Dirs, NEW n \in Nodes,
         NEW S \in Slots, Right(s, S)
  PROVE  LET T == Marked(s, g, k, dir, n, S)
         IN  T \in Slots /\ Right(s, T) /\ MarkedOnly(s, g, k, dir, n, S, T)
<1> DEFINE T == Marked(s, g, k, dir, n, S)
           doneName == <<s.fn, g, k>>
<1>1. doneName \in DoneNames /\ s.run \in Nat
  BY DEF DoneNames, Searches
<1>2. CASE ~ isHTML
  <2>1. T = S
    BY <1>2 DEF Marked
  <2> QED
    BY <2>1 DEF MarkedOnly
<1>3. CASE isHTML
  <2>1. T = Put(S, n, dir, Pending(s, doneName))
    BY <1>3 DEF Marked
  <2> HIDE DEF T, doneName
  <2>2. Pending(s, doneName) \in Slot
    BY <1>1, PendingIs
  <2>3. /\ T \in Slots
        /\ \A m \in Nodes, d \in Dirs :
             T[m][d] = IF m = n /\ d = dir THEN Pending(s, doneName) ELSE S[m][d]
    BY <2>1, <2>2, PutIs
  <2>4. /\ Pending(s, doneName).run = s.run /\ Pending(s, doneName).value = "pending"
        /\ Names(s, Pending(s, doneName), g, k)
    BY DEF Pending, Names, doneName
  <2>5. \A d \in Dirs : SlotIsRight(s, d, n, Pending(s, doneName))
    BY <1>1, <2>4 DEF SlotIsRight
  <2>6. Right(s, T)
    BY <2>3, <2>5 DEF Right
  <2> QED
    BY <2>3, <2>4, <2>6 DEF IsPending, MarkedOnly, T
<1> QED
  BY <1>2, <1>3

(* What a walk leaves pending was so before the mark.                       *)
LEMMA LeftThrough ==
  ASSUME NEW s \in Searches, NEW g \in Nat, NEW k \in Nat, NEW S, NEW T, NEW U, NEW R,
         NEW n, NEW dir, MarkedOnly(s, g, k, dir, n, S, T),
         Left(s, T, U), Left(s, U, R), OnlyAbove(s, g, k, R)
  PROVE  Left(s, S, R)
<1> SUFFICES ASSUME NEW m \in Nodes, NEW d \in Dirs, IsPending(s, R[m][d])
             PROVE  R[m][d] = S[m][d]
  BY DEF Left
<1>1. R[m][d] = U[m][d] /\ U[m][d] = T[m][d]
  BY DEF Left
<1>2. ~ Names(s, R[m][d], g, k)
  <2>1. PICK j \in Nat : j > k /\ Names(s, R[m][d], g, j)
    BY DEF OnlyAbove, IsAbove
  <2> QED
    BY <2>1 DEF Names
<1> QED
  BY <1>1, <1>2 DEF MarkedOnly

Reached(k) == IF k = 0 THEN Nodes ELSE Elements

(* What lies beyond a node is the next node, or lies beyond it.             *)
LEMMA HitsNext ==
  ASSUME IsTree(parent), NEW e \in Nodes, NEW dir \in Dirs, NEW X, NEW k \in Nat,
         X \subseteq Reached(k)
  PROVE  /\ ~ IsAt(k, Step(dir, e)) => ~ Hits(X, dir, e)
         /\ IsAt(k, Step(dir, e)) =>
              /\ Step(dir, e) \in Reached(k) /\ Step(dir, e) \in Nodes /\ Step(dir, e) < e
              /\ Hits(X, dir, e) <=> Reaches(X, dir, Step(dir, e))
<1> DEFINE n == Step(dir, e)
<1>1. CASE n = Nobody /\ Beyond(dir, e) = {}
  <2>1. ~ IsAt(k, n)
    BY <1>1, NodesAre DEF IsAt, Nobody, Document
  <2> QED
    BY <1>1, <2>1 DEF Hits
<1>2. CASE n \in Nodes /\ n < e /\ Beyond(dir, e) = {n} \cup Beyond(dir, n)
  <2>1. Hits(X, dir, e) <=> Reaches(X, dir, n)
    BY <1>2 DEF Hits, Reaches
  <2>2. CASE IsAt(k, n)
    BY <1>2, <2>1, <2>2, NodesAre DEF IsAt, Reached
  <2>3. CASE ~ IsAt(k, n)
    <3>1. n = Document /\ k # 0
      BY <1>2, <2>3, NodesAre DEF IsAt
    <3>2. Beyond(dir, Document) = {}
      <4>1. Document \in Nodes
        BY DEF Nodes
      <4>2. Siblings(Document) = {}
        BY DEF Siblings
      <4> QED
        BY <4>1, <4>2, AncestorsAre DEF Beyond
    <3>3. Document \notin X
      BY <3>1, NodesAre DEF Reached
    <3>4. ~ Hits(X, dir, e)
      BY <2>1, <3>1, <3>2, <3>3 DEF Reaches, Hits
    <3> QED
      BY <2>3, <3>4
  <2> QED
    BY <2>2, <2>3
<1> QED
  BY <1>1, <1>2, StepIs

(* A walk finds out whether something beyond the node is among the target,  *)
(* if the slots that are pending for the combinator are those on its way.   *)
(* It leaves the slots right.                                               *)
LEMMA WalkGoes ==
  ASSUME IsTree(parent), NEW s \in Searches, NEW g \in Nat, NEW k \in Nat, NEW dir \in Dirs,
         NEW matcher, NEW W, Target(s, g, k) \subseteq Reached(k),
         Contract(s, g, k - 1, Reached(k), Target(s, g, k), matcher),
         \A e \in Nodes : W[e] = WalkAt(s, g, k, dir, matcher, W, e)
  PROVE  \A e \in Nodes : \A S \in Slots :
           Right(s, S) /\ Walks(s, g, k, dir, Target(s, g, k), e, S) /\ Passed(s, g, k, e, S) =>
             /\ Outcome(s, S, W[e][S], Hits(Target(s, g, k), dir, e))
             /\ OnlyAbove(s, g, k, W[e][S].slots)
<1> DEFINE X == Target(s, g, k)
           Goes(e) == \A S \in Slots :
             Right(s, S) /\ Walks(s, g, k, dir, X, e, S) /\ Passed(s, g, k, e, S) =>
               Outcome(s, S, W[e][S], Hits(X, dir, e)) /\ OnlyAbove(s, g, k, W[e][S].slots)
           E == {e \in Nodes : Goes(e)}
<1>1. ASSUME NEW e \in Nodes, \A n \in Nodes : n < e => n \in E
      PROVE  e \in E
  <2> SUFFICES ASSUME NEW S \in Slots, Right(s, S), Walks(s, g, k, dir, X, e, S),
                      Passed(s, g, k, e, S)
               PROVE  /\ Outcome(s, S, W[e][S], Hits(X, dir, e))
                      /\ OnlyAbove(s, g, k, W[e][S].slots)
    OBVIOUS
  <2> DEFINE n == Step(dir, e)
             T == Marked(s, g, k, dir, n, S)
             r == matcher[n][T]
             R == W[e][S]
  <2>1. R = WalkStep(s, g, k, dir, matcher, W[n], n, S)
    BY DEF WalkAt
  <2>2. CASE ~ IsAt(k, n)
    <3>1. R = EndsWith(s, g, k, dir, FALSE, S)
      BY <2>1, <2>2 DEF WalkStep
    <3>2. FALSE <=> Hits(X, dir, e)
      BY <2>2, HitsNext
    <3> HIDE DEF R, n
    <3> QED
      BY <3>1, <3>2, EndsRight DEF R
  <2>3. CASE IsAt(k, n) /\ isHTML /\ Filled(S[n][dir], s, <<s.fn, g, k>>)
    <3> DEFINE ok == S[n][dir].value = "yes"
    <3>1. R = EndsWith(s, g, k, dir, ok, S)
      BY <2>1, <2>3 DEF WalkStep
    <3>2. n \in Nodes /\ n < e /\ (Hits(X, dir, e) <=> Reaches(X, dir, n))
      BY <2>3, HitsNext
    <3> HIDE DEF R, n
    <3>3. S[n][dir].run = s.run /\ Names(s, S[n][dir], g, k)
      BY <2>3 DEF Filled, Names
    <3>4. S[n][dir].value # "pending"
      <4> SUFFICES ASSUME IsPending(s, S[n][dir]) PROVE FALSE
        BY <3>3 DEF IsPending
      <4>1. n >= e
        BY <3>2, <3>3 DEF Passed
      <4> QED
        BY <3>2, <4>1, NodesAre
    <3>5. ok <=> Hits(X, dir, e)
      BY <3>2, <3>3, <3>4 DEF Right, SlotIsRight
    <3> HIDE DEF ok
    <3> QED
      BY <3>1, <3>5, EndsRight DEF R
  <2>4. CASE IsAt(k, n) /\ ~ (isHTML /\ Filled(S[n][dir], s, <<s.fn, g, k>>))
    <3>1. /\ n \in Nodes /\ n \in Reached(k) /\ n < e
          /\ Hits(X, dir, e) <=> Reaches(X, dir, n)
      BY <2>4, HitsNext
    <3>2. R = IF r.ok THEN EndsWith(s, g, k, dir, TRUE, r.slots) ELSE W[n][r.slots]
      BY <2>1, <2>4 DEF WalkStep
    <3> HIDE DEF R, n
    <3>3. T \in Slots /\ Right(s, T) /\ MarkedOnly(s, g, k, dir, n, S, T)
      BY <3>1, MarkedIs
    <3> HIDE DEF T
    <3>4. OnlyAbove(s, g, k - 1, T)
      <4> SUFFICES ASSUME NEW m \in Nodes, NEW d \in Dirs, IsPending(s, T[m][d])
                   PROVE  IsAbove(s, g, k - 1, T[m][d])
        BY DEF OnlyAbove
      <4>1. CASE Names(s, T[m][d], g, k)
        BY <4>1 DEF IsAbove
      <4>2. CASE ~ Names(s, T[m][d], g, k)
        <5>1. T[m][d] = S[m][d]
          BY <3>3, <4>2 DEF MarkedOnly
        <5>2. IsAbove(s, g, k, S[m][d])
          BY <4>2, <5>1 DEF Walks, IsOnWay
        <5> QED
          BY <5>1, <5>2 DEF IsAbove
      <4> QED
        BY <4>1, <4>2
    <3>5. Outcome(s, T, r, n \in X)
      BY <3>1, <3>3, <3>4 DEF Contract
    <3> DEFINE U == r.slots
    <3>6. U \in Slots /\ Right(s, U) /\ Left(s, T, U) /\ (r.ok <=> n \in X)
      BY <3>5 DEF Outcome
    <3> HIDE DEF r, U
    <3>7. ASSUME NEW m \in Nodes, NEW d \in Dirs, IsPending(s, U[m][d])
          PROVE  \/ U[m][d] = S[m][d]
                 \/ m = n /\ d = dir /\ Names(s, U[m][d], g, k)
      BY <3>3, <3>6, <3>7 DEF Left, MarkedOnly
    <3>8. CASE r.ok
      <4>1. R = EndsWith(s, g, k, dir, TRUE, U)
        BY <3>2, <3>8 DEF U
      <4>2. TRUE <=> Hits(X, dir, e)
        BY <3>1, <3>6, <3>8 DEF Reaches
      <4>3. Walks(s, g, k, dir, X, e, U)
        <5> SUFFICES ASSUME NEW m \in Nodes, NEW d \in Dirs, IsPending(s, U[m][d])
                     PROVE  \/ IsAbove(s, g, k, U[m][d])
                            \/ IsOnWay(s, g, k, dir, X, e, m, d, U[m][d])
          BY DEF Walks
        <5>1. CASE U[m][d] = S[m][d]
          BY <5>1 DEF Walks
        <5>2. CASE m = n /\ d = dir /\ Names(s, U[m][d], g, k)
          BY <5>2, <3>1 DEF IsOnWay
        <5> QED
          BY <3>7, <5>1, <5>2
      <4>4. Outcome(s, U, R, Hits(X, dir, e)) /\ OnlyAbove(s, g, k, R.slots)
        BY <4>1, <4>2, <4>3, <3>6, EndsRight
      <4>5. Left(s, S, R.slots)
        BY <3>3, <3>6, <4>4, LeftThrough DEF Outcome
      <4> QED
        BY <4>4, <4>5 DEF Outcome, R
    <3>9. CASE ~ r.ok
      <4>1. R = W[n][U]
        BY <3>2, <3>9 DEF U
      <4>2. Hits(X, dir, e) <=> Hits(X, dir, n)
        BY <3>1, <3>6, <3>9 DEF Reaches
      <4>3. Reaches(X, dir, n) <=> Hits(X, dir, n)
        BY <3>6, <3>9 DEF Reaches
      <4>4. Walks(s, g, k, dir, X, n, U)
        <5> SUFFICES ASSUME NEW m \in Nodes, NEW d \in Dirs, IsPending(s, U[m][d])
                     PROVE  \/ IsAbove(s, g, k, U[m][d])
                            \/ IsOnWay(s, g, k, dir, X, n, m, d, U[m][d])
          BY DEF Walks
        <5>1. CASE U[m][d] = S[m][d]
          BY <4>2, <5>1 DEF Walks, IsOnWay
        <5>2. CASE m = n /\ d = dir /\ Names(s, U[m][d], g, k)
          BY <5>2, <4>3 DEF IsOnWay
        <5> QED
          BY <3>7, <5>1, <5>2
      <4>5. Passed(s, g, k, n, U)
        <5> SUFFICES ASSUME NEW m \in Nodes, NEW d \in Dirs, IsPending(s, U[m][d]),
                            Names(s, U[m][d], g, k)
                     PROVE  m >= n
          BY DEF Passed
        <5>1. CASE U[m][d] = S[m][d]
          BY <3>1, <5>1, NodesAre DEF Passed
        <5>2. CASE m = n
          BY <5>2, NodesAre
        <5> QED
          BY <3>7, <5>1, <5>2
      <4>6. Outcome(s, U, R, Hits(X, dir, n)) /\ OnlyAbove(s, g, k, R.slots)
        <5>1. Goes(n)
          BY <1>1, <3>1
        <5> QED
          BY <5>1, <3>6, <4>1, <4>4, <4>5
      <4>7. Left(s, S, R.slots)
        BY <3>3, <3>6, <4>6, LeftThrough DEF Outcome
      <4> QED
        BY <4>2, <4>6, <4>7 DEF Outcome, R
    <3> QED
      BY <3>8, <3>9 DEF R
  <2> QED
    BY <2>2, <2>3, <2>4 DEF R
<1> HIDE DEF E, Goes
<1>2. Nodes \subseteq E
  BY <1>1, NodeSets
<1> QED
  BY <1>2 DEF E, Goes

(* The nodes to which a combinator leads are the next one, or those beyond. *)
LEMMA RelatedIs ==
  ASSUME IsTree(parent), NEW e \in Elements, NEW c \in relative, NEW X, X \subseteq Nodes
  PROVE  X \cap Related(c, e) # {} <=>
           IF IsFirst(c) THEN Step(Dir(c), e) \in X ELSE Hits(X, Dir(c), e)
<1>0. e # Document /\ e \in Nodes
  BY NodesAre
<1>1. CASE c = ">"
  <2>1. Step(Dir(c), e) = parent[e] /\ parent[e] \in Nodes
    BY <1>0, <1>1, ParentsAre DEF Dir, Step
  <2>2. Related(c, e) = {parent[e]}
    BY <1>1, <2>1 DEF Related
  <2> QED
    BY <1>1, <2>1, <2>2 DEF IsFirst
<1>2. CASE c = " "
  BY <1>2 DEF Related, Dir, IsFirst, Hits, Beyond
<1>3. CASE c = "~"
  BY <1>3 DEF Related, Dir, IsFirst, Hits, Beyond
<1>4. CASE c = "+"
  <2>0. Dir(c) = "previousSibling" /\ IsFirst(c) /\ Siblings(e) \subseteq Elements
    BY <1>4 DEF Dir, IsFirst, Siblings
  <2>1. Related(c, e) = {n \in Siblings(e) : \A b \in Siblings(e) : b <= n}
    BY <1>4 DEF Related
  <2>2. CASE Siblings(e) = {}
    <3>1. Step(Dir(c), e) = Nobody
      BY <1>0, <2>0, <2>2 DEF Step
    <3> QED
      BY <2>0, <2>1, <2>2, <3>1, NodesAre DEF Nobody
  <2>3. CASE Siblings(e) # {}
    <3> DEFINE n == CHOOSE m \in Siblings(e) : \A b \in Siblings(e) : b <= m
    <3>1. n \in Siblings(e) /\ \A b \in Siblings(e) : b <= n
      BY <2>0, <2>3, LastOf
    <3>2. Step(Dir(c), e) = n
      BY <1>0, <2>0, <2>3 DEF Step
    <3> HIDE DEF n
    <3>3. ASSUME NEW m \in Related(c, e) PROVE m = n
      <4>1. m \in Siblings(e) /\ n <= m /\ m <= n
        BY <2>1, <3>1
      <4>2. m \in Nat /\ n \in Nat
        BY <2>0, <3>1, <4>1, NodesAre
      <4> QED
        BY <4>1, <4>2
    <3>4. Related(c, e) = {n}
      BY <2>1, <3>1, <3>3
    <3> QED
      BY <2>0, <3>2, <3>4
  <2> QED
    BY <2>2, <2>3
<1> QED
  BY <1>1, <1>2, <1>3, <1>4 DEF relative, rsibling

(* What is pending for combinators to the right of one is so for the one    *)
(* before.                                                                  *)
LEMMA AboveLower ==
  ASSUME NEW s, NEW g, NEW k \in Nat, NEW S, OnlyAbove(s, g, k, S)
  PROVE  OnlyAbove(s, g, k - 1, S)
BY DEF OnlyAbove, IsAbove

(* A result that leaves the slots as they are.                              *)
LEMMA NoMatch ==
  ASSUME NEW s, NEW S \in Slots, Right(s, S), NEW yes \in BOOLEAN
  PROVE  Outcome(s, S, Result(yes, S), yes)
BY DEF Outcome, Result, Left

(* A combinator keeps the contract: if the matcher before it finds the      *)
(* target, it finds the elements from which the combinator leads to the     *)
(* target.                                                                  *)
LEMMA AddsCombinator ==
  ASSUME IsTree(parent), NEW s \in Searches, NEW g \in Nat, NEW k \in Nat, NEW c \in relative,
         NEW matcher, Target(s, g, k) \subseteq Reached(k),
         Contract(s, g, k - 1, Reached(k), Target(s, g, k), matcher)
  PROVE  Contract(s, g, k, Elements, {e \in Elements : Target(s, g, k) \cap Related(c, e) # {}},
                  addCombinator(s, g, k, c, matcher))
<1> DEFINE X == Target(s, g, k)
           Y == {e \in Elements : X \cap Related(c, e) # {}}
           dir == Dir(c)
           added == addCombinator(s, g, k, c, matcher)
<1> SUFFICES ASSUME NEW e \in Elements, NEW S \in Slots, Right(s, S), OnlyAbove(s, g, k, S)
             PROVE  Outcome(s, S, added[e][S], e \in Y)
  BY DEF Contract
<1>1. dir \in Dirs /\ e \in Nodes /\ X \subseteq Nodes
  BY NodesAre DEF Dirs, Dir, Reached
<1>2. e \in Y <=> IF IsFirst(c) THEN Step(dir, e) \in X ELSE Hits(X, dir, e)
  BY <1>1, RelatedIs
<1> HIDE DEF Y
<1>3. CASE IsFirst(c)
  <2> DEFINE n == Step(dir, e)
  <2>1. /\ IsAt(k, n) => added[e][S] = matcher[n][S]
        /\ ~ IsAt(k, n) => added[e][S] = Result(FALSE, S)
    BY <1>1, <1>3 DEF addCombinator, IsAt
  <2> HIDE DEF added, n
  <2>2. CASE IsAt(k, n)
    <3>1. n \in Reached(k)
      BY <2>2, NodesAre DEF IsAt, Reached, Nodes
    <3>2. Outcome(s, S, matcher[n][S], n \in X)
      BY <3>1, AboveLower DEF Contract
    <3> QED
      BY <1>2, <1>3, <2>1, <2>2, <3>2 DEF Outcome, n
  <2>3. CASE ~ IsAt(k, n)
    <3>1. n \notin X
      BY <2>3, NodesAre DEF IsAt, Reached, Nodes
    <3>2. Outcome(s, S, Result(FALSE, S), FALSE)
      BY NoMatch
    <3> QED
      BY <1>2, <1>3, <2>1, <2>3, <3>1, <3>2 DEF Outcome, n
  <2> QED
    BY <2>2, <2>3
<1>4. CASE ~ IsFirst(c)
  <2>1. PICK W : added = W /\ \A m \in Nodes : W[m] = WalkAt(s, g, k, dir, matcher, W, m)
    BY <1>4, AllIs
  <2> HIDE DEF added, dir
  <2>2. Walks(s, g, k, dir, X, e, S)
    BY DEF Walks, OnlyAbove
  <2>3. Passed(s, g, k, e, S)
    BY DEF Passed, OnlyAbove, IsAbove, Names
  <2>4. Outcome(s, S, W[e][S], Hits(X, dir, e))
    BY <1>1, <2>1, <2>2, <2>3, WalkGoes
  <2> QED
    BY <1>2, <1>4, <2>1, <2>4 DEF Outcome
<1> QED
  BY <1>3, <1>4

-----------------------------------------------------------------------------
(* The matchers of a group.                                                 *)

Anything == [e \in Nodes |-> [S \in Slots |-> Result(TRUE, S)]]
IsContext(s) == [e \in Nodes |-> [S \in Slots |-> Result(e = s.context, S)]]
Tagged(t, matcher) ==
  [e \in Nodes |-> [S \in Slots |-> IF TAG(t, e) THEN matcher[e][S] ELSE Result(FALSE, S)]]
MatcherAt(s, g, M, k) ==
  IF k = 0 THEN IF ~ s.groups[g].leading /\ (~ isHTML \/ s.context = Document) THEN Anything
                ELSE addCombinator(s, g, k, s.groups[g].lead, IsContext(s))
  ELSE IF s.groups[g].tokens[k] \in relative
       THEN addCombinator(s, g, k, s.groups[g].tokens[k], M[k - 1])
       ELSE Tagged(s.groups[g].tokens[k], M[k - 1])
AreMatchers(s, g, n, M) == M = [k \in 0 .. n |-> MatcherAt(s, g, M, k)]

(* The matchers of a group's beginnings are a function.                     *)
LEMMA MatchersExist ==
  ASSUME NEW s, NEW g
  PROVE  \A n \in Nat : \E M : AreMatchers(s, g, n, M)
<1> DEFINE Value(M, k) == MatcherAt(s, g, M, k)
           S == {n \in Nat : \E M : M = [k \in 0 .. n |-> Value(M, k)]}
<1>0. ASSUME NEW V, NEW M, NEW k, k # 0 => V[k - 1] = M[k - 1]
      PROVE  Value(V, k) = Value(M, k)
  BY <1>0 DEF MatcherAt
<1> HIDE DEF Value
<1>1. 0 \in S
  <2>1. PICK M : M = [k \in 0 .. 0 |-> Value(<< >>, k)]
    OBVIOUS
  <2>2. Value(<< >>, 0) = Value(M, 0)
    BY <1>0
  <2>3. M = [k \in 0 .. 0 |-> Value(M, k)]
    BY <2>1, <2>2
  <2> QED
    BY <2>3
<1>2. ASSUME NEW n \in Nat, n \in S
      PROVE  n + 1 \in S
  <2>1. PICK M : M = [k \in 0 .. n |-> Value(M, k)]
    BY <1>2
  <2>2. PICK V : V = [k \in 0 .. n + 1 |-> IF k <= n THEN M[k] ELSE Value(M, k)]
    OBVIOUS
  <2>3. ASSUME NEW k \in 0 .. n + 1
        PROVE  V[k] = Value(V, k)
    <3>1. V[k] = Value(M, k)
      BY <2>1, <2>2
    <3>2. k # 0 => V[k - 1] = M[k - 1]
      BY <2>2
    <3> QED
      BY <1>0, <3>1, <3>2
  <2>4. V = [k \in 0 .. n + 1 |-> Value(V, k)]
    BY <2>2, <2>3
  <2> QED
    BY <2>4
<1> HIDE DEF S
<1>3. Nat \subseteq S
  BY <1>1, <1>2, NatSets
<1> QED
  BY <1>3 DEF S, Value, AreMatchers

(* Each matcher is made from the one before it.                             *)
LEMMA MatchersAre ==
  ASSUME NEW s, NEW g, Len(s.groups[g].tokens) \in Nat
  PROVE  \A k \in 0 .. Len(s.groups[g].tokens) :
           matchers(s, g)[k] = MatcherAt(s, g, matchers(s, g), k)
<1> DEFINE
      group == s.groups[g]
      Whatever == [e \in Nodes |-> [S \in Slots |-> Result(TRUE, S)]]
      Context == [e \in Nodes |-> [S \in Slots |-> Result(e = s.context, S)]]
      With[k \in 0 .. Len(group.tokens)] ==
        IF k = 0 THEN IF ~ group.leading /\ (~ isHTML \/ s.context = Document) THEN Whatever
                      ELSE addCombinator(s, g, k, group.lead, Context)
        ELSE IF group.tokens[k] \in relative
             THEN addCombinator(s, g, k, group.tokens[k], With[k - 1])
             ELSE [e \in Nodes |-> [S \in Slots |->
                     IF TAG(group.tokens[k], e) THEN With[k - 1][e][S] ELSE Result(FALSE, S)]]
<1>1. PICK M : AreMatchers(s, g, Len(group.tokens), M)
  <2>1. Len(group.tokens) \in Nat
    OBVIOUS
  <2> QED
    BY <2>1, MatchersExist
<1>2. M = [k \in 0 .. Len(group.tokens) |->
        IF k = 0 THEN IF ~ group.leading /\ (~ isHTML \/ s.context = Document) THEN Whatever
                      ELSE addCombinator(s, g, k, group.lead, Context)
        ELSE IF group.tokens[k] \in relative
             THEN addCombinator(s, g, k, group.tokens[k], M[k - 1])
             ELSE [e \in Nodes |-> [S \in Slots |->
                     IF TAG(group.tokens[k], e) THEN M[k - 1][e][S] ELSE Result(FALSE, S)]]]
  BY <1>1 DEF AreMatchers, MatcherAt, Anything, IsContext, Tagged
<1>3. With = [k \in 0 .. Len(group.tokens) |->
        IF k = 0 THEN IF ~ group.leading /\ (~ isHTML \/ s.context = Document) THEN Whatever
                      ELSE addCombinator(s, g, k, group.lead, Context)
        ELSE IF group.tokens[k] \in relative
             THEN addCombinator(s, g, k, group.tokens[k], With[k - 1])
             ELSE [e \in Nodes |-> [S \in Slots |->
                     IF TAG(group.tokens[k], e) THEN With[k - 1][e][S] ELSE Result(FALSE, S)]]]
  BY <1>2
<1>4. matchers(s, g) = With
  BY DEF matchers
<1> HIDE DEF With
<1>5. With = [k \in 0 .. Len(group.tokens) |-> MatcherAt(s, g, With, k)]
  BY <1>3 DEF MatcherAt, Anything, IsContext, Tagged
<1> QED
  BY <1>4, <1>5

Proper(groups) == \A i \in DOMAIN groups : ~ groups[i].leading => groups[i].lead = " "

(* The document is above every element.                                     *)
LEMMA DocumentAbove ==
  ASSUME IsTree(parent)
  PROVE  \A e \in Elements : Document \in Ancestors(parent)[e]
<1> DEFINE S == {e \in Nodes : e \in Elements => Document \in Ancestors(parent)[e]}
<1>1. ASSUME NEW e \in Nodes, \A n \in Nodes : n < e => n \in S
      PROVE  e \in S
  <2> SUFFICES ASSUME e \in Elements PROVE Document \in Ancestors(parent)[e]
    OBVIOUS
  <2>1. Ancestors(parent)[e] = {parent[e]} \cup Ancestors(parent)[parent[e]]
    BY AncestorsAre
  <2>2. parent[e] \in Nodes /\ parent[e] < e
    BY ParentsAre
  <2>3. CASE parent[e] = Document
    BY <2>1, <2>3
  <2>4. CASE parent[e] # Document
    BY <1>1, <2>1, <2>2, <2>4, NodesAre
  <2> QED
    BY <2>3, <2>4
<1> HIDE DEF S
<1>2. Nodes \subseteq S
  BY <1>1, NodeSets
<1> QED
  BY <1>2, NodesAre DEF S

(* The parts of a search.                                                   *)
LEMMA SearchIs ==
  ASSUME NEW s \in Searches
  PROVE  /\ s.groups \in Seq(Groups) /\ s.context \in Nodes /\ s.run \in Nat /\ s.fn \in Nat
         /\ \A g \in DOMAIN s.groups :
              /\ g \in Nat /\ s.groups[g] \in Groups /\ s.groups[g].lead \in relative
              /\ s.groups[g].leading \in BOOLEAN /\ Len(s.groups[g].tokens) \in Nat
              /\ s.groups[g].tokens \in Seq(STRING)
<1>1. s.groups \in Seq(Groups) /\ s.context \in Nodes /\ s.run \in Nat /\ s.fn \in Nat
  BY DEF Searches
<1>2. ASSUME NEW g \in DOMAIN s.groups
      PROVE  g \in Nat /\ s.groups[g] \in Groups
  BY <1>1
<1>3. ASSUME NEW group \in Groups
      PROVE  /\ group.lead \in relative /\ group.leading \in BOOLEAN
             /\ group.tokens \in Seq(STRING) /\ Len(group.tokens) \in Nat
  BY DEF Groups
<1> QED
  BY <1>1, <1>2, <1>3

(* A matcher finds what the beginning of its group means.                   *)
LEMMA MatcherDoes ==
  ASSUME IsTree(parent), NEW s \in Searches, NEW g \in DOMAIN s.groups, Proper(s.groups)
  PROVE  \A k \in 0 .. Len(s.groups[g].tokens) :
           Contract(s, g, k, Elements, MeantUpto(s.groups[g], s.context)[k], matchers(s, g)[k])
<1> DEFINE group == s.groups[g]
           n == Len(group.tokens)
           U == MeantUpto(group, s.context)
           M == matchers(s, g)
           Does(k) == Contract(s, g, k, Elements, U[k], M[k])
           T == {k \in Nat : k <= n => Does(k)}
<1>0. /\ group \in Groups /\ n \in Nat /\ g \in Nat /\ group.lead \in relative
      /\ group.leading \in BOOLEAN /\ s.context \in Nodes
  BY SearchIs
<1>1. \A k \in 0 .. n : U[k] = MeantAt(group, s.context, U, k) /\ U[k] \subseteq Elements
  BY <1>0, MeantIs
<1>2. \A k \in 0 .. n : M[k] = MatcherAt(s, g, M, k)
  BY <1>0, MatchersAre
<1> HIDE DEF U, M, Does
<1>3. 0 \in T
  <2>0. 0 \in 0 .. n
    BY <1>0
  <2>1. U[0] = {e \in Elements : (~ isHTML /\ ~ group.leading)
                                   \/ s.context \in Related(group.lead, e)}
    BY <1>1, <2>0 DEF MeantAt
  <2>2. CASE ~ group.leading /\ (~ isHTML \/ s.context = Document)
    <3>1. M[0] = Anything
      BY <1>2, <2>0, <2>2 DEF MatcherAt
    <3>2. U[0] = Elements
      <4>1. CASE ~ isHTML
        BY <2>1, <2>2, <4>1
      <4>2. CASE s.context = Document
        <5>1. group.lead = " "
          BY <2>2 DEF Proper
        <5>2. \A e \in Elements : s.context \in Related(group.lead, e)
          BY <4>2, <5>1, DocumentAbove DEF Related
        <5> QED
          BY <2>1, <5>2
      <4> QED
        BY <2>2, <4>1, <4>2
    <3>3. ASSUME NEW e \in Elements, NEW S \in Slots, Right(s, S)
          PROVE  Outcome(s, S, Anything[e][S], e \in U[0])
      <4>1. Anything[e][S] = Result(TRUE, S)
        BY NodesAre DEF Anything
      <4>2. Outcome(s, S, Result(TRUE, S), TRUE)
        BY <3>3, NoMatch
      <4> QED
        BY <3>2, <4>1, <4>2 DEF Outcome
    <3> QED
      BY <3>1, <3>3 DEF Contract, Does
  <2>3. CASE ~ (~ group.leading /\ (~ isHTML \/ s.context = Document))
    <3>1. M[0] = addCombinator(s, g, 0, group.lead, IsContext(s))
      BY <1>2, <2>0, <2>3 DEF MatcherAt
    <3>2. Target(s, g, 0) = {s.context} /\ Reached(0) = Nodes
      BY DEF Target, Reached
    <3>3. ASSUME NEW e \in Nodes, NEW S \in Slots, Right(s, S)
          PROVE  Outcome(s, S, IsContext(s)[e][S], e \in {s.context})
      <4> DEFINE yes == e = s.context
      <4>1. IsContext(s)[e][S] = Result(yes, S)
        BY DEF IsContext
      <4>2. yes \in BOOLEAN /\ (yes <=> e \in {s.context})
        OBVIOUS
      <4> HIDE DEF yes
      <4>3. Outcome(s, S, Result(yes, S), yes)
        BY <3>3, <4>2, NoMatch
      <4> QED
        BY <4>1, <4>2, <4>3 DEF Outcome
    <3>4. Contract(s, g, 0 - 1, Reached(0), Target(s, g, 0), IsContext(s))
      BY <3>2, <3>3 DEF Contract
    <3>5. Target(s, g, 0) \subseteq Reached(0)
      BY <1>0, <3>2
    <3>6. Contract(s, g, 0, Elements,
                   {e \in Elements : Target(s, g, 0) \cap Related(group.lead, e) # {}},
                   addCombinator(s, g, 0, group.lead, IsContext(s)))
      BY <1>0, <3>4, <3>5, AddsCombinator
    <3>7. {e \in Elements : Target(s, g, 0) \cap Related(group.lead, e) # {}} = U[0]
      BY <2>1, <2>3, <3>2
    <3> QED
      BY <3>1, <3>6, <3>7 DEF Does
  <2> QED
    BY <2>2, <2>3
<1>4. ASSUME NEW j \in Nat, j \in T
      PROVE  j + 1 \in T
  <2> SUFFICES ASSUME j + 1 <= n PROVE Does(j + 1)
    OBVIOUS
  <2> DEFINE k == j + 1
             t == group.tokens[k]
  <2>0. k \in 0 .. n /\ k \in Nat /\ k # 0 /\ k - 1 = j /\ j \in 0 .. n
    BY <1>0
  <2>1. Does(j)
    BY <1>0, <1>4
  <2>2. /\ U[k] = MeantAt(group, s.context, U, k) /\ U[j] \subseteq Elements
        /\ M[k] = MatcherAt(s, g, M, k)
    BY <1>1, <1>2, <2>0
  <2>3. CASE t \in relative
    <3> DEFINE Y == {e \in Elements : U[j] \cap Related(t, e) # {}}
    <3>1. M[k] = addCombinator(s, g, k, t, M[j]) /\ U[k] = Y
      BY <2>0, <2>2, <2>3 DEF MatcherAt, MeantAt
    <3>2. Target(s, g, k) = U[j] /\ Reached(k) = Elements
      BY <2>0 DEF Target, Reached, U
    <3> HIDE DEF k, t
    <3>3. Contract(s, g, k - 1, Reached(k), Target(s, g, k), M[j])
      BY <2>0, <2>1, <3>2 DEF Does
    <3>4. Contract(s, g, k, Elements, {e \in Elements : Target(s, g, k) \cap Related(t, e) # {}},
                   addCombinator(s, g, k, t, M[j]))
      BY <1>0, <2>0, <2>2, <2>3, <3>2, <3>3, AddsCombinator
    <3>5. Contract(s, g, k, Elements, U[k], M[k])
      BY <3>1, <3>2, <3>4
    <3> QED
      BY <3>5 DEF Does, k
  <2>4. CASE t \notin relative
    <3>1. M[k] = Tagged(t, M[j]) /\ U[k] = {e \in U[j] : TAG(t, e)}
      BY <2>0, <2>2, <2>4 DEF MatcherAt, MeantAt
    <3> HIDE DEF k, t
    <3>2. ASSUME NEW e \in Elements, NEW S \in Slots, Right(s, S), OnlyAbove(s, g, k, S)
          PROVE  Outcome(s, S, M[k][e][S], e \in U[k])
      <4>1. /\ TAG(t, e) => M[k][e][S] = M[j][e][S]
            /\ ~ TAG(t, e) => M[k][e][S] = Result(FALSE, S)
        <5>1. e \in Nodes
          BY NodesAre
        <5>2. /\ TAG(t, e) => Tagged(t, M[j])[e][S] = M[j][e][S]
              /\ ~ TAG(t, e) => Tagged(t, M[j])[e][S] = Result(FALSE, S)
          BY <5>1 DEF Tagged
        <5> QED
          BY <3>1, <5>2
      <4>2. OnlyAbove(s, g, j, S)
        BY <2>0, <3>2, AboveLower
      <4>3. Outcome(s, S, M[j][e][S], e \in U[j])
        BY <2>1, <3>2, <4>2 DEF Does, Contract
      <4>4. Outcome(s, S, Result(FALSE, S), FALSE)
        BY <3>2, NoMatch
      <4>5. CASE TAG(t, e)
        BY <3>1, <4>1, <4>3, <4>5 DEF Outcome
      <4>6. CASE ~ TAG(t, e)
        BY <3>1, <4>1, <4>4, <4>6 DEF Outcome
      <4> QED
        BY <4>5, <4>6
    <3>3. Contract(s, g, k, Elements, U[k], M[k])
      BY <3>2 DEF Contract
    <3> QED
      BY <3>3 DEF Does, k
  <2> QED
    BY <2>3, <2>4
<1> HIDE DEF T
<1>5. Nat \subseteq T
  BY <1>3, <1>4, NatSets
<1> QED
  BY <1>0, <1>5 DEF T, Does, U, M

-----------------------------------------------------------------------------
(* All groups, and all elements that are tried.                             *)

NonePending(s, S) == \A m \in Nodes, d \in Dirs : ~ IsPending(s, S[m][d])
Matched(s, g) == MeantUpto(s.groups[g], s.context)[Len(s.groups[g].tokens)]
Ready(s, S) == S \in Slots /\ Right(s, S) /\ NonePending(s, S)

(* A compiled group finds what it means, and leaves nothing pending.        *)
LEMMA GroupDoes ==
  ASSUME IsTree(parent), NEW s \in Searches, NEW g \in DOMAIN s.groups, Proper(s.groups),
         NEW e \in Elements, NEW S, Ready(s, S)
  PROVE  LET r == matcherFromTokens(s, g)[e][S]
         IN  Ready(s, r.slots) /\ (r.ok <=> e \in Matched(s, g))
<1> DEFINE n == Len(s.groups[g].tokens)
           r == matchers(s, g)[n][e][S]
<1>1. n \in 0 .. n
  BY SearchIs
<1>2. Contract(s, g, n, Elements, Matched(s, g), matchers(s, g)[n])
  BY <1>1, MatcherDoes DEF Matched
<1>3. OnlyAbove(s, g, n, S)
  BY DEF Ready, NonePending, OnlyAbove
<1>4. Outcome(s, S, r, e \in Matched(s, g))
  BY <1>2, <1>3 DEF Contract, Ready
<1>5. NonePending(s, r.slots)
  BY <1>4 DEF Outcome, Left, Ready, NonePending
<1>6. matcherFromTokens(s, g)[e][S] = r
  BY DEF matcherFromTokens
<1> HIDE DEF r
<1> QED
  BY <1>4, <1>5, <1>6 DEF Outcome, Ready

SomeAt(s, M, g) ==
  [e \in Nodes |-> [S \in Slots |->
     IF g = 0 THEN Result(FALSE, S)
     ELSE IF matcherFromTokens(s, g)[e][S].ok THEN matcherFromTokens(s, g)[e][S]
     ELSE M[g - 1][e][matcherFromTokens(s, g)[e][S].slots]]]
AreSome(s, n, M) == M = [g \in 0 .. n |-> SomeAt(s, M, g)]

(* The matchers of the first groups are a function.                         *)
LEMMA SomeExist ==
  ASSUME NEW s
  PROVE  \A n \in Nat : \E M : AreSome(s, n, M)
<1> DEFINE Value(M, g) == SomeAt(s, M, g)
           S == {n \in Nat : \E M : M = [g \in 0 .. n |-> Value(M, g)]}
<1>0. ASSUME NEW V, NEW M, NEW g, g # 0 => V[g - 1] = M[g - 1]
      PROVE  Value(V, g) = Value(M, g)
  <2>1. CASE g = 0
    BY <2>1 DEF SomeAt
  <2>2. CASE g # 0
    <3>1. V[g - 1] = M[g - 1]
      BY <1>0, <2>2
    <3> QED
      BY <3>1 DEF SomeAt
  <2> QED
    BY <2>1, <2>2
<1> HIDE DEF Value
<1>1. 0 \in S
  <2>1. PICK M : M = [g \in 0 .. 0 |-> Value(<< >>, g)]
    OBVIOUS
  <2>2. Value(<< >>, 0) = Value(M, 0)
    BY <1>0
  <2>3. M = [g \in 0 .. 0 |-> Value(M, g)]
    BY <2>1, <2>2
  <2> QED
    BY <2>3
<1>2. ASSUME NEW n \in Nat, n \in S
      PROVE  n + 1 \in S
  <2>1. PICK M : M = [g \in 0 .. n |-> Value(M, g)]
    BY <1>2
  <2>2. PICK V : V = [g \in 0 .. n + 1 |-> IF g <= n THEN M[g] ELSE Value(M, g)]
    OBVIOUS
  <2>3. ASSUME NEW g \in 0 .. n + 1
        PROVE  V[g] = Value(V, g)
    <3>1. V[g] = Value(M, g)
      BY <2>1, <2>2
    <3>2. g # 0 => V[g - 1] = M[g - 1]
      BY <2>2
    <3> QED
      BY <1>0, <3>1, <3>2
  <2>4. V = [g \in 0 .. n + 1 |-> Value(V, g)]
    BY <2>2, <2>3
  <2> QED
    BY <2>4
<1> HIDE DEF S
<1>3. Nat \subseteq S
  BY <1>1, <1>2, NatSets
<1> QED
  BY <1>3 DEF S, Value, AreSome

(* Each group's matcher is tried before those of the groups before it.      *)
LEMMA SomeAre ==
  ASSUME NEW s, Len(s.groups) \in Nat
  PROVE  \A g \in 0 .. Len(s.groups) : elementMatchers(s)[g] = SomeAt(s, elementMatchers(s), g)
<1> DEFINE
      Some[g \in 0 .. Len(s.groups)] == [e \in Nodes |-> [S \in Slots |->
        LET r == matcherFromTokens(s, g)[e][S]
        IN  IF g = 0 THEN Result(FALSE, S) ELSE IF r.ok THEN r ELSE Some[g - 1][e][r.slots]]]
<1>1. PICK M : AreSome(s, Len(s.groups), M)
  <2>1. Len(s.groups) \in Nat
    OBVIOUS
  <2> QED
    BY <2>1, SomeExist
<1>2. M = [g \in 0 .. Len(s.groups) |-> [e \in Nodes |-> [S \in Slots |->
        LET r == matcherFromTokens(s, g)[e][S]
        IN  IF g = 0 THEN Result(FALSE, S) ELSE IF r.ok THEN r ELSE M[g - 1][e][r.slots]]]]
  BY <1>1 DEF AreSome, SomeAt
<1>3. Some = [g \in 0 .. Len(s.groups) |-> [e \in Nodes |-> [S \in Slots |->
        LET r == matcherFromTokens(s, g)[e][S]
        IN  IF g = 0 THEN Result(FALSE, S) ELSE IF r.ok THEN r ELSE Some[g - 1][e][r.slots]]]]
  BY <1>2
<1>4. elementMatchers(s) = Some
  BY DEF elementMatchers
<1> HIDE DEF Some
<1>5. Some = [g \in 0 .. Len(s.groups) |-> SomeAt(s, Some, g)]
  BY <1>3 DEF SomeAt
<1> QED
  BY <1>4, <1>5

(* An element is found when one of the groups means it.                     *)
LEMMA SomeDoes ==
  ASSUME IsTree(parent), NEW s \in Searches, Proper(s.groups)
  PROVE  \A h \in 0 .. Len(s.groups) : \A e \in Elements : \A S \in Slots :
           Ready(s, S) =>
             LET r == elementMatchers(s)[h][e][S]
             IN  Ready(s, r.slots) /\ (r.ok <=> \E g \in 1 .. h : e \in Matched(s, g))
<1> DEFINE M == elementMatchers(s)
           Does(h, e, S) == /\ Ready(s, M[h][e][S].slots)
                            /\ M[h][e][S].ok <=> \E g \in 1 .. h : e \in Matched(s, g)
           T == {h \in Nat : h <= Len(s.groups) =>
                   \A e \in Elements : \A S \in Slots : Ready(s, S) => Does(h, e, S)}
<1>0. Len(s.groups) \in Nat /\ DOMAIN s.groups = 1 .. Len(s.groups)
  BY SearchIs
<1>1. \A h \in 0 .. Len(s.groups) : M[h] = SomeAt(s, M, h)
  BY <1>0, SomeAre
<1> HIDE DEF M
<1>2. 0 \in T
  <2> SUFFICES ASSUME NEW e \in Elements, NEW S \in Slots, Ready(s, S) PROVE Does(0, e, S)
    OBVIOUS
  <2>1. M[0] = SomeAt(s, M, 0) /\ e \in Nodes
    BY <1>0, <1>1, NodesAre
  <2>2. M[0][e][S] = Result(FALSE, S)
    BY <2>1 DEF SomeAt
  <2> QED
    BY <2>2 DEF Result
<1>3. ASSUME NEW j \in Nat, j \in T
      PROVE  j + 1 \in T
  <2> SUFFICES ASSUME j + 1 <= Len(s.groups), NEW e \in Elements, NEW S \in Slots, Ready(s, S)
               PROVE  Does(j + 1, e, S)
    OBVIOUS
  <2> DEFINE g == j + 1
             r == matcherFromTokens(s, g)[e][S]
  <2>0. g \in 0 .. Len(s.groups) /\ g \in DOMAIN s.groups /\ g # 0 /\ g - 1 = j /\ e \in Nodes
    BY <1>0, NodesAre
  <2>1. Ready(s, r.slots) /\ (r.ok <=> e \in Matched(s, g))
    BY <2>0, GroupDoes
  <2>2. M[g] = SomeAt(s, M, g)
    BY <1>1, <2>0
  <2> HIDE DEF g
  <2>3. /\ r.ok => M[g][e][S] = r
        /\ ~ r.ok => M[g][e][S] = M[j][e][r.slots]
    BY <2>0, <2>2 DEF SomeAt
  <2> HIDE DEF r
  <2>4. (\E h \in 1 .. g : e \in Matched(s, h)) <=>
          (e \in Matched(s, g) \/ \E h \in 1 .. j : e \in Matched(s, h))
    BY DEF g
  <2>5. CASE r.ok
    BY <2>1, <2>3, <2>4, <2>5 DEF g
  <2>6. CASE ~ r.ok
    <3>1. Does(j, e, r.slots)
      BY <1>0, <1>3, <2>1 DEF Ready
    <3> QED
      BY <2>1, <2>3, <2>4, <2>6, <3>1 DEF g
  <2> QED
    BY <2>5, <2>6
<1> HIDE DEF T
<1>4. Nat \subseteq T
  BY <1>2, <1>3, NatSets
<1> QED
  BY <1>0, <1>4 DEF T, M

AllMatched(s) == UNION {Matched(s, g) : g \in DOMAIN s.groups}

FoundAt(s, elems, S, U, i) ==
  LET r == elementMatchers(s)[Len(s.groups)][elems[i]][U[i - 1].slots]
  IN  IF i = 0 THEN [found |-> << >>, slots |-> S]
      ELSE [found |-> IF r.ok THEN Append(U[i - 1].found, elems[i]) ELSE U[i - 1].found,
            slots |-> r.slots]
AreFound(s, elems, S, n, U) == U = [i \in 0 .. n |-> FoundAt(s, elems, S, U, i)]

(* The results of a search, element by element, are a function.             *)
LEMMA FoundExist ==
  ASSUME NEW s, NEW elems, NEW S0
  PROVE  \A n \in Nat : \E U : AreFound(s, elems, S0, n, U)
<1> DEFINE Value(U, i) == FoundAt(s, elems, S0, U, i)
           S == {n \in Nat : \E U : U = [i \in 0 .. n |-> Value(U, i)]}
<1>0. ASSUME NEW V, NEW U, NEW i, i # 0 => V[i - 1] = U[i - 1]
      PROVE  Value(V, i) = Value(U, i)
  BY <1>0 DEF FoundAt
<1> HIDE DEF Value
<1>1. 0 \in S
  <2>1. PICK U : U = [i \in 0 .. 0 |-> Value(<< >>, i)]
    OBVIOUS
  <2>2. Value(<< >>, 0) = Value(U, 0)
    BY <1>0
  <2>3. U = [i \in 0 .. 0 |-> Value(U, i)]
    BY <2>1, <2>2
  <2> QED
    BY <2>3
<1>2. ASSUME NEW n \in Nat, n \in S
      PROVE  n + 1 \in S
  <2>1. PICK U : U = [i \in 0 .. n |-> Value(U, i)]
    BY <1>2
  <2>2. PICK V : V = [i \in 0 .. n + 1 |-> IF i <= n THEN U[i] ELSE Value(U, i)]
    OBVIOUS
  <2>3. ASSUME NEW i \in 0 .. n + 1
        PROVE  V[i] = Value(V, i)
    <3>1. V[i] = Value(U, i)
      BY <2>1, <2>2
    <3>2. i # 0 => V[i - 1] = U[i - 1]
      BY <2>2
    <3> QED
      BY <1>0, <3>1, <3>2
  <2>4. V = [i \in 0 .. n + 1 |-> Value(V, i)]
    BY <2>2, <2>3
  <2> QED
    BY <2>4
<1> HIDE DEF S
<1>3. Nat \subseteq S
  BY <1>1, <1>2, NatSets
<1> QED
  BY <1>3 DEF S, Value, AreFound

(* A search tries one element after the other.                              *)
LEMMA superMatcherIs ==
  ASSUME NEW s, NEW elems, NEW S, Len(elems) \in Nat
  PROVE  \E U : /\ superMatcher(s, elems, S) = U[Len(elems)]
                /\ \A i \in 0 .. Len(elems) : U[i] = FoundAt(s, elems, S, U, i)
<1> DEFINE
      Upto[i \in 0 .. Len(elems)] ==
        LET results == Upto[i - 1]
            r == elementMatchers(s)[Len(s.groups)][elems[i]][results.slots]
        IN  IF i = 0 THEN [found |-> << >>, slots |-> S]
            ELSE [found |-> IF r.ok THEN Append(results.found, elems[i]) ELSE results.found,
                  slots |-> r.slots]
<1>1. PICK U : AreFound(s, elems, S, Len(elems), U)
  <2>1. Len(elems) \in Nat
    OBVIOUS
  <2> QED
    BY <2>1, FoundExist
<1>2. U = [i \in 0 .. Len(elems) |->
        LET results == U[i - 1]
            r == elementMatchers(s)[Len(s.groups)][elems[i]][results.slots]
        IN  IF i = 0 THEN [found |-> << >>, slots |-> S]
            ELSE [found |-> IF r.ok THEN Append(results.found, elems[i]) ELSE results.found,
                  slots |-> r.slots]]
  BY <1>1 DEF AreFound, FoundAt
<1>3. Upto = [i \in 0 .. Len(elems) |->
        LET results == Upto[i - 1]
            r == elementMatchers(s)[Len(s.groups)][elems[i]][results.slots]
        IN  IF i = 0 THEN [found |-> << >>, slots |-> S]
            ELSE [found |-> IF r.ok THEN Append(results.found, elems[i]) ELSE results.found,
                  slots |-> r.slots]]
  BY <1>2
<1>4. superMatcher(s, elems, S) = Upto[Len(elems)]
  BY DEF superMatcher
<1> HIDE DEF Upto
<1>5. Upto = [i \in 0 .. Len(elems) |-> FoundAt(s, elems, S, Upto, i)]
  BY <1>3 DEF FoundAt
<1> QED
  BY <1>4, <1>5

(* Of the elements that are tried, those are found that some group matches. *)
LEMMA superMatcherDoes ==
  ASSUME IsTree(parent), NEW s \in Searches, Proper(s.groups), NEW elems \in Seq(Elements),
         NEW S, Ready(s, S)
  PROVE  /\ superMatcher(s, elems, S).found = Without(elems, Nodes \ AllMatched(s))
         /\ Ready(s, superMatcher(s, elems, S).slots)
<1> DEFINE n == Len(elems)
           gone == Nodes \ AllMatched(s)
<1>0. n \in Nat /\ Len(s.groups) \in Nat /\ DOMAIN s.groups = 1 .. Len(s.groups)
  BY SearchIs
<1>1. PICK U : /\ superMatcher(s, elems, S) = U[n]
               /\ \A i \in 0 .. n : U[i] = FoundAt(s, elems, S, U, i)
  BY <1>0, superMatcherIs
<1>2. PICK K : KeepsUpto(K, elems, gone, n) /\ Without(elems, gone) = K[n]
  BY WithoutKeeps
<1> DEFINE T == {i \in Nat : i <= n => U[i].found = K[i] /\ Ready(s, U[i].slots)}
<1>3. 0 \in T
  <2>0. 0 \in 0 .. n
    BY <1>0
  <2>1. U[0] = FoundAt(s, elems, S, U, 0)
    BY <1>1, <2>0
  <2>2. FoundAt(s, elems, S, U, 0) = [found |-> << >>, slots |-> S]
    BY DEF FoundAt
  <2> QED
    BY <1>2, <2>1, <2>2 DEF KeepsUpto
<1>4. ASSUME NEW j \in Nat, j \in T
      PROVE  j + 1 \in T
  <2> SUFFICES ASSUME j + 1 <= n
               PROVE  U[j + 1].found = K[j + 1] /\ Ready(s, U[j + 1].slots)
    OBVIOUS
  <2> DEFINE i == j + 1
             e == elems[i]
             r == elementMatchers(s)[Len(s.groups)][e][U[j].slots]
  <2>1. /\ i \in 0 .. n /\ i \in 1 .. n /\ i # 0 /\ i - 1 = j
        /\ U[j].found = K[j] /\ Ready(s, U[j].slots)
    BY <1>0, <1>4
  <2>2. e \in Elements /\ e \in Nodes
    <3>1. e \in Elements
      BY <2>1, ElementOfSeq
    <3> QED
      BY <3>1, NodesAre
  <2>3. U[i] = [found |-> IF r.ok THEN Append(U[j].found, e) ELSE U[j].found, slots |-> r.slots]
    BY <1>1, <2>1 DEF FoundAt
  <2>4. K[i] = IF e \in gone THEN K[j] ELSE Append(K[j], e)
    BY <1>2, <2>1 DEF KeepsUpto
  <2>5. Ready(s, r.slots) /\ (r.ok <=> \E g \in 1 .. Len(s.groups) : e \in Matched(s, g))
    <3>1. Len(s.groups) \in 0 .. Len(s.groups) /\ U[j].slots \in Slots
      BY <1>0, <2>1 DEF Ready
    <3> HIDE DEF e
    <3> QED
      BY <2>1, <2>2, <3>1, SomeDoes
  <2> HIDE DEF i, e, r
  <2>6. r.ok <=> e \notin gone
    BY <1>0, <2>2, <2>5 DEF AllMatched
  <2>7. U[i].found = K[i]
    BY <2>1, <2>3, <2>4, <2>6
  <2>8. U[i].slots = r.slots
    BY <2>3
  <2> QED
    BY <2>5, <2>7, <2>8 DEF i
<1> HIDE DEF T
<1>5. Nat \subseteq T
  BY <1>3, <1>4, NatSets
<1> QED
  BY <1>0, <1>1, <1>2, <1>5 DEF T

-----------------------------------------------------------------------------
(* The engine: compiled selectors, searches, select.                        *)

Entry == [groups : Seq(Groups), fn : Nat]
SlotsBefore(S, run) == S \in Slots /\ \A m \in Nodes, d \in Dirs : S[m][d].run <= run
Engines == [slots : Slots, run : Nat, done : Nat, cache : Seq(Entry), found : Seq(Elements)]
Engine(E) == E \in Engines /\ SlotsBefore(E.slots, E.run)
Meaning(groups, context) ==
  UNION {MeantUpto(groups[g], context)[Len(groups[g].tokens)] : g \in DOMAIN groups}

(* A selector in the cache has a number.                                    *)
LEMMA CompiledHas ==
  ASSUME NEW cache \in Seq(Entry), NEW groups, Compiled(cache, groups) # {}
  PROVE  NumberOf(cache, groups) \in Nat
<1> DEFINE i == CHOOSE j \in Compiled(cache, groups) : TRUE
<1>1. i \in Compiled(cache, groups)
  OBVIOUS
<1>2. NumberOf(cache, groups) = cache[i].fn
  BY DEF NumberOf
<1> HIDE DEF i
<1>3. i \in DOMAIN cache
  BY <1>1 DEF Compiled
<1>4. cache[i] \in Entry
  BY <1>3
<1> QED
  BY <1>2, <1>4 DEF Entry

(* Compiling puts the selector into the cache, and not one that it drops at *)
(* once.                                                                    *)
LEMMA compileDoes ==
  ASSUME NEW E, E.done \in Nat, E.cache \in Seq(Entry), NEW groups \in Seq(Groups)
  PROVE  /\ compile(E, groups).done \in Nat /\ compile(E, groups).cache \in Seq(Entry)
         /\ NumberOf(compile(E, groups).cache, groups) \in Nat
<1> DEFINE C == compile(E, groups)
<1>1. CASE Compiled(E.cache, groups) # {}
  <2>1. C = [done |-> E.done, cache |-> E.cache]
    BY <1>1 DEF compile
  <2> HIDE DEF C
  <2>2. C.done = E.done /\ C.cache = E.cache
    BY <2>1
  <2> QED
    BY <1>1, <2>2, CompiledHas DEF C
<1>2. CASE Compiled(E.cache, groups) = {}
  <2> DEFINE new == [groups |-> groups, fn |-> E.done + 1]
             more == Append(E.cache, new)
  <2>1. C = [done |-> E.done + 1, cache |-> IF Len(more) <= CacheLength THEN more ELSE Tail(more)]
    BY <1>2 DEF compile
  <2>2. new \in Entry /\ new.groups = groups
    BY DEF Entry
  <2> HIDE DEF C, new
  <2>3. /\ more \in Seq(Entry) /\ Len(more) = Len(E.cache) + 1 /\ Len(E.cache) \in Nat
        /\ more[Len(more)] = new
    BY <2>2, AppendProperties
  <2> HIDE DEF more
  <2>4. C.done = E.done + 1 /\ C.cache = IF Len(more) <= CacheLength THEN more ELSE Tail(more)
    BY <2>1
  <2>5. C.cache \in Seq(Entry) /\ \E i \in DOMAIN C.cache : C.cache[i] = new
    <3>1. CASE Len(more) <= CacheLength
      <4>1. C.cache = more /\ Len(more) \in 1 .. Len(more)
        BY <2>3, <2>4, <3>1
      <4> QED
        BY <2>3, <4>1
    <3>2. CASE ~ Len(more) <= CacheLength
      <4>1. C.cache = Tail(more) /\ Len(more) > 1
        BY <2>3, <2>4, <3>2, CacheAssumption
      <4>2. more # << >>
        BY <2>3, <4>1, EmptySeq
      <4>3. /\ Tail(more) \in Seq(Entry) /\ Len(Tail(more)) = Len(more) - 1
            /\ \A i \in 1 .. Len(Tail(more)) : Tail(more)[i] = more[i + 1]
        BY <2>3, <4>2, HeadTailProperties
      <4>4. Len(more) - 1 \in 1 .. Len(Tail(more)) /\ (Len(more) - 1) + 1 = Len(more)
        BY <2>3, <4>1, <4>3
      <4>5. Tail(more)[Len(more) - 1] = new
        BY <2>3, <4>3, <4>4
      <4>6. DOMAIN Tail(more) = 1 .. Len(Tail(more))
        BY <4>3
      <4> QED
        BY <4>1, <4>3, <4>4, <4>5, <4>6
    <3> QED
      BY <3>1, <3>2
  <2>6. Compiled(C.cache, groups) # {}
    BY <2>2, <2>5 DEF Compiled
  <2>7. C.done \in Nat
    BY <2>4
  <2> QED
    BY <2>5, <2>6, <2>7, CompiledHas DEF C
<1> QED
  BY <1>1, <1>2

(* A search appends those of its elements that the selector means; its      *)
(* number is new, so no slot is of it before.                               *)
LEMMA SearchDoes ==
  ASSUME IsTree(parent), NEW E, Engine(E), NEW groups \in Seq(Groups), Proper(groups),
         NEW context \in Nodes, NEW elems \in Seq(Elements)
  PROVE  /\ Engine(Search(E, groups, context, elems))
         /\ Search(E, groups, context, elems).found
              = E.found \o Without(elems, Nodes \ Meaning(groups, context))
<1> DEFINE C == compile(E, groups)
           fn == NumberOf(C.cache, groups)
           s == [groups |-> groups, context |-> context, run |-> E.run + 1, fn |-> fn]
           out == superMatcher(s, elems, E.slots)
           F == Search(E, groups, context, elems)
           W == Without(elems, Nodes \ Meaning(groups, context))
<1>0. /\ E.slots \in Slots /\ E.run \in Nat /\ E.done \in Nat
      /\ E.cache \in Seq(Entry) /\ E.found \in Seq(Elements)
      /\ \A m \in Nodes, d \in Dirs : E.slots[m][d].run <= E.run
  BY DEF Engine, Engines, SlotsBefore
<1>1. C.done \in Nat /\ C.cache \in Seq(Entry) /\ fn \in Nat
  BY <1>0, compileDoes
<1>2. F = [slots |-> out.slots, run |-> E.run + 1, done |-> C.done, cache |-> C.cache,
           found |-> E.found \o out.found]
  BY DEF Search
<1> HIDE DEF C, fn, F
<1>3. s \in Searches /\ s.groups = groups /\ s.context = context /\ s.run = E.run + 1
  BY <1>0, <1>1 DEF Searches
<1> HIDE DEF s
<1>4. Ready(s, E.slots)
  <2> SUFFICES ASSUME NEW m \in Nodes, NEW d \in Dirs
               PROVE  SlotIsRight(s, d, m, E.slots[m][d]) /\ ~ IsPending(s, E.slots[m][d])
    BY <1>0 DEF Ready, Right, NonePending
  <2>1. E.slots[m][d].run \in Nat /\ E.slots[m][d].run <= E.run
    BY <1>0, SlotsAre
  <2>2. E.slots[m][d].run <= s.run /\ E.slots[m][d].run # s.run
    BY <1>0, <1>3, <2>1
  <2> QED
    BY <2>2 DEF SlotIsRight, IsPending
<1>5. AllMatched(s) = Meaning(groups, context)
  BY <1>3 DEF AllMatched, Matched, Meaning
<1>6. out.found = W /\ Ready(s, out.slots)
  BY <1>3, <1>4, <1>5, superMatcherDoes
<1> HIDE DEF out
<1>7. SlotsBefore(out.slots, E.run + 1)
  BY <1>3, <1>6 DEF Ready, Right, SlotIsRight, SlotsBefore
<1>8. W \in Seq(Elements)
  BY WithoutType
<1> HIDE DEF W
<1>9. F.found = E.found \o W
  BY <1>2, <1>6
<1>10. F.found \in Seq(Elements)
  BY <1>0, <1>8, <1>9, ConcatProperties
<1>11. F.slots = out.slots /\ F.run = E.run + 1 /\ F.done = C.done /\ F.cache = C.cache
  BY <1>2
<1>12. Engine(F)
  <2>1. /\ out.slots \in Slots /\ E.run + 1 \in Nat
        /\ E.found \o out.found \in Seq(Elements)
    BY <1>0, <1>2, <1>7, <1>10 DEF SlotsBefore
  <2>2. F \in Engines
    BY <1>1, <1>2, <2>1 DEF Engines
  <2> QED
    BY <1>7, <1>11, <2>2 DEF Engine
<1> QED
  BY <1>9, <1>12 DEF F, W

-----------------------------------------------------------------------------
(* Where what is meant lies.                                                *)

Descendants(n) == {e \in Elements : contains(n, e)}

(* What is above an ancestor is above the node.                             *)
LEMMA AncestorsThrough ==
  ASSUME IsTree(parent)
  PROVE  \A e \in Nodes : \A x \in Ancestors(parent)[e] :
           Ancestors(parent)[x] \subseteq Ancestors(parent)[e]
<1> DEFINE A == Ancestors(parent)
           S == {e \in Nodes : \A x \in A[e] : A[x] \subseteq A[e]}
<1>1. ASSUME NEW e \in Nodes, \A n \in Nodes : n < e => n \in S
      PROVE  e \in S
  <2>1. CASE e = Document
    BY <2>1, AncestorsAre
  <2>2. CASE e # Document
    <3>1. e \in Elements
      BY <2>2, NodesAre
    <3>2. parent[e] \in Nodes /\ parent[e] < e /\ A[e] = {parent[e]} \cup A[parent[e]]
      BY <3>1, ParentsAre, AncestorsAre
    <3>3. parent[e] \in S
      BY <1>1, <3>2
    <3> QED
      BY <3>2, <3>3
  <2> QED
    BY <2>1, <2>2
<1> HIDE DEF S
<1>2. Nodes \subseteq S
  BY <1>1, NodeSets
<1> QED
  BY <1>2 DEF S

(* No combinator leads out of the descendants of a node.                    *)
LEMMA RelatedStays ==
  ASSUME IsTree(parent), NEW n \in Nodes, NEW e \in Elements, NEW t \in relative,
         NEW x \in Descendants(n), x \in Related(t, e)
  PROVE  e \in Descendants(n)
<1> DEFINE A == Ancestors(parent)
<1>1. x \in Elements /\ n \in A[x] /\ e \in Nodes
  BY NodesAre DEF Descendants, contains
<1>2. A[e] = {parent[e]} \cup A[parent[e]] /\ A[x] = {parent[x]} \cup A[parent[x]]
  BY <1>1, AncestorsAre
<1>3. \A y \in A[e] : A[y] \subseteq A[e]
  BY <1>1, AncestorsThrough
<1>4. CASE t = ">"
  <2>1. parent[e] = x
    BY <1>4 DEF Related
  <2> QED
    BY <1>1, <1>2, <2>1 DEF Descendants, contains
<1>5. CASE t = " "
  <2>1. x \in A[e]
    BY <1>5 DEF Related
  <2> QED
    BY <1>1, <1>3, <2>1 DEF Descendants, contains
<1>6. CASE t \in {"+", "~"}
  <2>1. parent[e] = parent[x]
    BY <1>6 DEF Related, Siblings
  <2> QED
    BY <1>1, <1>2, <2>1 DEF Descendants, contains
<1> QED
  BY <1>4, <1>5, <1>6 DEF relative, rsibling

(* A group that begins within the descendants of a node does not leave      *)
(* them.                                                                    *)
LEMMA MeantStays ==
  ASSUME IsTree(parent), NEW n \in Nodes, NEW group \in Groups, NEW context,
         MeantUpto(group, context)[0] \subseteq Descendants(n)
  PROVE  MeantUpto(group, context)[Len(group.tokens)] \subseteq Descendants(n)
<1> DEFINE U == MeantUpto(group, context)
           N == Len(group.tokens)
           T == {k \in Nat : k <= N => U[k] \subseteq Descendants(n)}
<1>0. N \in Nat
  BY DEF Groups
<1>1. \A k \in 0 .. N : U[k] = MeantAt(group, context, U, k)
  BY MeantIs
<1>2. 0 \in T
  OBVIOUS
<1> HIDE DEF U
<1>3. ASSUME NEW j \in Nat, j \in T
      PROVE  j + 1 \in T
  <2> SUFFICES ASSUME j + 1 <= N, NEW e \in U[j + 1] PROVE e \in Descendants(n)
    OBVIOUS
  <2>1. j + 1 \in 0 .. N /\ j + 1 # 0 /\ (j + 1) - 1 = j /\ U[j] \subseteq Descendants(n)
    BY <1>0, <1>3
  <2>2. U[j + 1] = MeantAt(group, context, U, j + 1)
    BY <1>1, <2>1
  <2> DEFINE t == group.tokens[j + 1]
  <2>3. CASE t \in relative
    <3>1. U[j + 1] = {d \in Elements : U[j] \cap Related(t, d) # {}}
      BY <2>1, <2>2, <2>3 DEF MeantAt
    <3>2. PICK x \in U[j] : e \in Elements /\ x \in Related(t, e)
      BY <3>1
    <3> HIDE DEF t
    <3> QED
      BY <2>1, <2>3, <3>2, RelatedStays
  <2>4. CASE t \notin relative
    <3>1. U[j + 1] \subseteq U[j]
      BY <2>1, <2>2, <2>4 DEF MeantAt
    <3> QED
      BY <2>1, <3>1
  <2> QED
    BY <2>3, <2>4
<1> HIDE DEF T
<1>4. Nat \subseteq T
  BY <1>2, <1>3, NatSets
<1> QED
  BY <1>0, <1>4 DEF T, U

(* What is searched: the parts of a selector.                               *)
LEMMA GroupsAre ==
  ASSUME NEW groups \in SelectorSet
  PROVE  /\ groups \in Seq(Groups) /\ groups # << >> /\ Proper(groups) /\ 1 \in DOMAIN groups
         /\ Len(groups) \in Nat \ {0} /\ DOMAIN groups = 1 .. Len(groups)
         /\ Len(groups) > 1 \/ Len(groups) = 1
         /\ \A i \in DOMAIN groups :
              /\ groups[i] \in Groups /\ groups[i].lead \in relative
              /\ groups[i].leading \in BOOLEAN
              /\ Len(groups[i].tokens) \in Nat \ {0} /\ groups[i].tokens \in Seq(STRING)
              /\ DOMAIN groups[i].tokens = 1 .. Len(groups[i].tokens)
              /\ groups[i].tokens[Len(groups[i].tokens)] \notin relative
<1>1. groups \in Seq(Groups) /\ groups # << >> /\ Proper(groups)
  BY SelectorAssumption DEF Proper
<1>2. Len(groups) \in Nat \ {0} /\ DOMAIN groups = 1 .. Len(groups)
  BY <1>1, EmptySeq
<1>3. Len(groups) > 1 \/ Len(groups) = 1
  BY <1>2
<1>4. ASSUME NEW i \in DOMAIN groups
      PROVE  /\ groups[i] \in Groups /\ groups[i].lead \in relative
             /\ groups[i].leading \in BOOLEAN
             /\ Len(groups[i].tokens) \in Nat \ {0} /\ groups[i].tokens \in Seq(STRING)
             /\ DOMAIN groups[i].tokens = 1 .. Len(groups[i].tokens)
             /\ groups[i].tokens[Len(groups[i].tokens)] \notin relative
  <2>1. groups[i] \in Groups
    BY <1>1
  <2>2. /\ groups[i].lead \in relative /\ groups[i].leading \in BOOLEAN
        /\ groups[i].tokens \in Seq(STRING) \ {<< >>}
    BY <2>1 DEF Groups
  <2>3. Len(groups[i].tokens) \in Nat \ {0}
    BY <2>2, EmptySeq
  <2>4. groups[i].tokens[Len(groups[i].tokens)] \notin relative
    BY SelectorAssumption
  <2> QED
    BY <2>1, <2>2, <2>3, <2>4
<1> QED
  BY <1>1, <1>2, <1>3, <1>4

(* The descendants of an element are those of its parent, too.              *)
LEMMA DescendantsBelow ==
  ASSUME IsTree(parent), NEW c \in Elements
  PROVE  parent[c] \in Nodes /\ Descendants(c) \subseteq Descendants(parent[c])
<1>1. parent[c] \in Nodes /\ parent[c] \in Ancestors(parent)[c] /\ c \in Nodes
  BY ParentsAre, AncestorsAre, NodesAre
<1>2. ASSUME NEW e \in Descendants(c) PROVE e \in Descendants(parent[c])
  <2>1. e \in Elements /\ e \in Nodes /\ c \in Ancestors(parent)[e]
    BY <1>2, NodesAre DEF Descendants, contains
  <2>2. Ancestors(parent)[c] \subseteq Ancestors(parent)[e]
    BY <2>1, AncestorsThrough
  <2> QED
    BY <1>1, <2>1, <2>2 DEF Descendants, contains
<1> QED
  BY <1>1, <1>2

(* What is tried is enough: a group leads out of the context only by a      *)
(* sibling at its beginning, and not out of the context's parent.           *)
Outermost(groups, context) ==
  IF HasSiblings(groups) /\ context # Document THEN parent[context] ELSE context

(* What a group means is what it leads to among the elements that are       *)
(* tried.                                                                   *)
LEMMA MeantWithin ==
  ASSUME IsTree(parent), NEW groups \in SelectorSet, NEW context \in Nodes,
         NEW i \in DOMAIN groups,
         groups[i].leading \/ isHTML \/ ~ HasSiblings(groups)
  PROVE  /\ Outermost(groups, context) \in Nodes
         /\ Meant(groups[i], context)
              = Descendants(Outermost(groups, context))
                  \cap MeantUpto(groups[i], context)[Len(groups[i].tokens)]
<1> DEFINE group == groups[i]
           n == Len(group.tokens)
           U == MeantUpto(group, context)
           o == Outermost(groups, context)
<1>0. /\ group \in Groups /\ group.lead \in relative /\ n \in Nat /\ 0 \in 0 .. n /\ n \in 0 .. n
      /\ ~ group.leading => group.lead = " "
  <2>1. group \in Groups /\ group.lead \in relative /\ n \in Nat
    BY GroupsAre
  <2>2. ~ group.leading => group.lead = " "
    BY GroupsAre DEF Proper
  <2>3. 0 \in 0 .. n /\ n \in 0 .. n
    BY <2>1
  <2> HIDE DEF n, group
  <2> QED
    BY <2>1, <2>2, <2>3
<1>1. o \in Nodes /\ Descendants(context) \subseteq Descendants(o)
  <2>1. CASE HasSiblings(groups) /\ context # Document
    <3>1. context \in Elements /\ o = parent[context]
      BY <2>1, NodesAre DEF Outermost
    <3> QED
      BY <3>1, DescendantsBelow
  <2>2. CASE ~ (HasSiblings(groups) /\ context # Document)
    BY <2>2 DEF Outermost
  <2> QED
    BY <2>1, <2>2
<1>2. Meant(group, context) = {e \in U[n] : group.leading \/ contains(context, e)}
  BY DEF Meant
<1>3. U[n] \subseteq Elements
  BY <1>0, MeantIs
<1>4. U[0] = MeantAt(group, context, U, 0)
  BY <1>0, MeantIs
<1>5. U[0] = {e \in Elements : (~ isHTML /\ ~ group.leading) \/ context \in Related(group.lead, e)}
  BY <1>4 DEF MeantAt
<1> HIDE DEF U, n, group, o
<1>6. CASE ~ isHTML /\ ~ group.leading
  <2>1. o = context
    BY <1>6 DEF Outermost, o, group
  <2>2. Meant(group, context) = {e \in U[n] : contains(context, e)}
    BY <1>2, <1>6
  <2>3. Meant(group, context) = Descendants(o) \cap U[n]
    BY <1>3, <2>1, <2>2 DEF Descendants
  <2> QED
    BY <1>1, <2>3 DEF o, group, n, U
<1>7. CASE isHTML \/ group.leading
  <2>1. U[0] = {e \in Elements : context \in Related(group.lead, e)}
    BY <1>5, <1>7
  <2>2. CASE group.lead \in {">", " "}
    <3>1. \A e \in Elements : context \in Related(group.lead, e) => contains(context, e)
      <4> SUFFICES ASSUME NEW e \in Elements, context \in Related(group.lead, e)
                   PROVE  contains(context, e)
        OBVIOUS
      <4>1. CASE group.lead = ">"
        <5>1. parent[e] = context
          BY <4>1 DEF Related
        <5> QED
          BY <5>1, AncestorsAre DEF contains
      <4>2. CASE group.lead = " "
        BY <4>2 DEF Related, contains
      <4> QED
        BY <2>2, <4>1, <4>2
    <3>2. U[0] \subseteq Descendants(context)
      BY <2>1, <3>1 DEF Descendants
    <3>3. U[n] \subseteq Descendants(context)
      BY <1>0, <3>2, MeantStays DEF U, n
    <3>4. Meant(group, context) = U[n]
      BY <1>2, <3>3 DEF Descendants
    <3>5. Meant(group, context) = Descendants(o) \cap U[n]
      BY <1>1, <3>3, <3>4
    <3> QED
      BY <1>1, <3>5 DEF o, group, n, U
  <2>3. CASE group.lead \in rsibling
    <3>1. HasSiblings(groups)
      BY <2>3 DEF HasSiblings, group
    <3>2. \A e \in Elements : context \in Related(group.lead, e) => context \in Siblings(e)
      <4> SUFFICES ASSUME NEW e \in Elements, context \in Related(group.lead, e)
                   PROVE  context \in Siblings(e)
        OBVIOUS
      <4>1. group.lead = "+" \/ group.lead = "~"
        BY <2>3 DEF rsibling
      <4> QED
        BY <4>1 DEF Related
    <3>3. U[0] \subseteq Descendants(o)
      <4> SUFFICES ASSUME NEW e \in U[0] PROVE e \in Descendants(o)
        OBVIOUS
      <4>1. e \in Elements /\ context \in Siblings(e)
        BY <2>1, <3>2
      <4>2. context \in Elements /\ parent[context] = parent[e]
        BY <4>1 DEF Siblings
      <4>3. o = parent[e]
        BY <3>1, <4>2, NodesAre DEF Outermost, o
      <4>4. o \in Ancestors(parent)[e]
        BY <4>1, <4>3, AncestorsAre
      <4> QED
        BY <4>1, <4>4 DEF Descendants, contains
    <3>4. U[n] \subseteq Descendants(o)
      BY <1>0, <1>1, <3>3, MeantStays DEF U, n
    <3>5. group.leading
      <4>1. group.lead # " "
        BY <2>3 DEF rsibling
      <4> QED
        BY <1>0, <4>1
    <3>6. Meant(group, context) = Descendants(o) \cap U[n]
      BY <1>2, <3>4, <3>5
    <3> QED
      BY <1>1, <3>6 DEF o, group, n, U
  <2> QED
    BY <1>0, <2>2, <2>3 DEF relative
<1> QED
  BY <1>0, <1>6, <1>7

(* A group without its last token.                                          *)
WithoutLast(g) == [g EXCEPT !.tokens = SubSeq(@, 1, Len(g.tokens) - 1)]

(* The parts of such a group.                                               *)
LEMMA FrontIs ==
  ASSUME NEW g \in Groups, Len(g.tokens) > 1
  PROVE  /\ WithoutLast(g) \in Groups /\ WithoutLast(g).lead = g.lead /\ WithoutLast(g).leading = g.leading
         /\ Len(WithoutLast(g).tokens) = Len(g.tokens) - 1
         /\ \A k \in 1 .. Len(g.tokens) - 1 : WithoutLast(g).tokens[k] = g.tokens[k]
<1> DEFINE n == Len(g.tokens)
           ts == SubSeq(g.tokens, 1, n - 1)
<1>1. g.tokens \in Seq(STRING) /\ n \in Nat /\ n > 1
  BY DEF Groups
<1>2. /\ ts \in Seq(STRING) /\ Len(ts) = n - 1
      /\ \A k \in 1 .. n - 1 : ts[k] = g.tokens[k]
  <2>1. /\ Len(ts) = (n - 1) - 1 + 1
        /\ \A k \in 1 .. (n - 1) - 1 + 1 : ts[k] = g.tokens[1 + k - 1]
        /\ ts \in Seq(STRING)
    BY <1>1, SubSeqProperties
  <2> QED
    BY <1>1, <2>1
<1>3. ts # << >>
  <2> HIDE DEF ts, n
  <2> QED
    BY <1>1, <1>2, EmptySeq
<1>4. WithoutLast(g) = [g EXCEPT !.tokens = ts]
  BY DEF WithoutLast
<1> HIDE DEF ts
<1>5. /\ WithoutLast(g) \in Groups /\ WithoutLast(g).lead = g.lead /\ WithoutLast(g).leading = g.leading
      /\ WithoutLast(g).tokens = ts
  BY <1>2, <1>3, <1>4 DEF Groups
<1> QED
  BY <1>2, <1>5

(* It means what the beginnings of the group mean.                          *)
LEMMA FrontSame ==
  ASSUME NEW g \in Groups, Len(g.tokens) > 1, NEW context
  PROVE  \A k \in 0 .. Len(g.tokens) - 1 :
           MeantUpto(WithoutLast(g), context)[k] = MeantUpto(g, context)[k]
<1> DEFINE n == Len(g.tokens)
           f == WithoutLast(g)
           U == MeantUpto(f, context)
           V == MeantUpto(g, context)
           T == {k \in Nat : k <= n - 1 => U[k] = V[k]}
<1>0. n \in Nat /\ n > 1
  BY DEF Groups
<1>1. /\ f \in Groups /\ f.lead = g.lead /\ f.leading = g.leading /\ Len(f.tokens) = n - 1
      /\ \A k \in 1 .. n - 1 : f.tokens[k] = g.tokens[k]
  BY FrontIs
<1> HIDE DEF f
<1>2. \A k \in 0 .. n - 1 : U[k] = MeantAt(f, context, U, k)
  BY <1>1, MeantIs
<1>3. \A k \in 0 .. n : V[k] = MeantAt(g, context, V, k)
  BY MeantIs
<1> HIDE DEF U, V
<1>4. 0 \in T
  <2>1. U[0] = MeantAt(f, context, U, 0) /\ V[0] = MeantAt(g, context, V, 0)
    BY <1>0, <1>2, <1>3
  <2>2. U[0] = V[0]
    BY <1>1, <2>1 DEF MeantAt
  <2> QED
    BY <2>2
<1>5. ASSUME NEW j \in Nat, j \in T
      PROVE  j + 1 \in T
  <2> SUFFICES ASSUME j + 1 <= n - 1 PROVE U[j + 1] = V[j + 1]
    OBVIOUS
  <2>1. /\ j + 1 \in 1 .. n - 1 /\ j + 1 \in 0 .. n - 1 /\ j + 1 \in 0 .. n
        /\ (j + 1) - 1 = j /\ j + 1 # 0 /\ j <= n - 1
    BY <1>0
  <2>2. U[j] = V[j] /\ f.tokens[j + 1] = g.tokens[j + 1]
    BY <1>1, <1>5, <2>1
  <2>3. U[j + 1] = MeantAt(f, context, U, j + 1) /\ V[j + 1] = MeantAt(g, context, V, j + 1)
    BY <1>2, <1>3, <2>1
  <2> QED
    BY <2>1, <2>2, <2>3 DEF MeantAt
<1> HIDE DEF T
<1>6. Nat \subseteq T
  BY <1>4, <1>5, NatSets
<1> QED
  BY <1>0, <1>6 DEF T, U, V, f

(* A list of members of a set is one of members of a larger set.            *)
LEMMA SeqSubset ==
  ASSUME NEW S, NEW T, T \subseteq S, NEW q \in Seq(T)
  PROVE  q \in Seq(S)
<1>1. Len(q) \in Nat /\ q = [i \in 1 .. Len(q) |-> q[i]] /\ \A i \in 1 .. Len(q) : q[i] \in T
  BY LenProperties
<1> QED
  BY <1>1, IsASeq

Answer(groups, context) == UNION {Meant(groups[i], context) : i \in DOMAIN groups}
Gives(E, groups, context, F) ==
  /\ Engine(F)
  /\ isHTML \/ Len(groups) = 1 \/ ~ HasSiblings(groups) =>
       F.found = E.found \o InOrder(Answer(groups, context))

(* What a selector means are elements.                                      *)
LEMMA AnswerAre ==
  ASSUME NEW groups \in SelectorSet, NEW context
  PROVE  Answer(groups, context) \subseteq Elements
<1> SUFFICES ASSUME NEW i \in DOMAIN groups PROVE Meant(groups[i], context) \subseteq Elements
  BY DEF Answer
<1>1. groups[i] \in Groups /\ Len(groups[i].tokens) \in 0 .. Len(groups[i].tokens)
  BY GroupsAre
<1>2. MeantUpto(groups[i], context)[Len(groups[i].tokens)] \subseteq Elements
  BY <1>1, MeantIs
<1> QED
  BY <1>2 DEF Meant

(* All elements around the context are tried.                               *)
LEMMA TryingAll ==
  ASSUME IsTree(parent), NEW E, Engine(E), NEW groups \in SelectorSet, NEW context \in Nodes,
         Len(groups) > 1 \/ groups[1].leading
  PROVE  Gives(E, groups, context,
               Search(E, groups, context, getElementsByTagName("*", Outermost(groups, context))))
<1> DEFINE o == Outermost(groups, context)
           elems == getElementsByTagName("*", o)
           F == Search(E, groups, context, elems)
           fits == isHTML \/ Len(groups) = 1 \/ ~ HasSiblings(groups)
<1>1. elems = InOrder(Descendants(o))
  BY DEF getElementsByTagName, TAG, Descendants
<1>2. Descendants(o) \subseteq Elements /\ Descendants(o) \subseteq Nodes
  BY NodesAre DEF Descendants
<1>3. elems \in Seq(Descendants(o)) /\ \A Y : Without(elems, Y) = InOrder(Descendants(o) \ Y)
  BY <1>1, <1>2, InOrderIs
<1> HIDE DEF elems, o
<1>4. elems \in Seq(Elements)
  BY <1>2, <1>3, SeqSubset
<1>5. /\ Engine(F)
      /\ F.found = E.found \o Without(elems, Nodes \ Meaning(groups, context))
  <2>1. groups \in Seq(Groups) /\ Proper(groups)
    BY GroupsAre
  <2> QED
    BY <1>4, <2>1, SearchDoes
<1>6. fits => Descendants(o) \ (Nodes \ Meaning(groups, context)) = Answer(groups, context)
  <2> SUFFICES ASSUME fits
               PROVE  Descendants(o) \ (Nodes \ Meaning(groups, context)) = Answer(groups, context)
    OBVIOUS
  <2>1. \A i \in DOMAIN groups : groups[i].leading \/ isHTML \/ ~ HasSiblings(groups)
    <3> SUFFICES ASSUME Len(groups) = 1, NEW i \in DOMAIN groups PROVE groups[i].leading
      OBVIOUS
    <3>1. i = 1 /\ groups[1].leading
      BY GroupsAre
    <3> QED
      BY <3>1
  <2>2. \A i \in DOMAIN groups :
          Meant(groups[i], context)
            = Descendants(o) \cap MeantUpto(groups[i], context)[Len(groups[i].tokens)]
    BY <2>1, MeantWithin DEF o
  <2>3. Answer(groups, context) = Descendants(o) \cap Meaning(groups, context)
    BY <2>2 DEF Answer, Meaning
  <2> QED
    BY <1>2, <2>3
<1> HIDE DEF F, fits
<1>7. fits => F.found = E.found \o InOrder(Answer(groups, context))
  BY <1>3, <1>5, <1>6
<1> QED
  BY <1>5, <1>7 DEF Gives, fits, F, elems, o

(* A seed of elements with the last tag, from which the rest is matched.    *)
LEMMA FromSeed ==
  ASSUME IsTree(parent), NEW E, Engine(E), NEW groups \in SelectorSet, NEW context \in Nodes,
         Len(groups) = 1, ~ groups[1].leading,
         NEW seed, seed = getElementsByTagName(groups[1].tokens[Len(groups[1].tokens)], context)
  PROVE  /\ seed = << >> \/ Len(groups[1].tokens) = 1 =>
              Gives(E, groups, context, [E EXCEPT !.found = @ \o seed])
         /\ seed # << >> /\ Len(groups[1].tokens) # 1 =>
              Gives(E, groups, context, Search(E, <<WithoutLast(groups[1])>>, context, seed))
<1> DEFINE g == groups[1]
           n == Len(g.tokens)
           U == MeantUpto(g, context)
           t == g.tokens[n]
           D == {e \in Elements : contains(context, e) /\ TAG(t, e)}
           M == Answer(groups, context)
<1>0. /\ g \in Groups /\ n \in Nat \ {0} /\ t \notin relative /\ g.lead = " "
      /\ DOMAIN groups = {1}
  <2>1. DOMAIN groups = {1} /\ 1 \in DOMAIN groups /\ Proper(groups)
    BY GroupsAre
  <2>2. g \in Groups /\ n \in Nat \ {0} /\ t \notin relative
    BY <2>1, GroupsAre
  <2>3. g.lead = " "
    BY <2>1 DEF Proper
  <2> HIDE DEF g, n, t
  <2> QED
    BY <2>1, <2>2, <2>3
<1>9. n \in Nat \ {0}
  BY <1>0
<1>1. /\ M = {e \in U[n] : contains(context, e)}
      /\ U[n] = {e \in U[n - 1] : TAG(t, e)}
      /\ U[n - 1] \subseteq Elements
      /\ U[0] = {e \in Elements : ~ isHTML \/ contains(context, e)}
  <2>1. M = Meant(g, context)
    BY <1>0 DEF Answer
  <2>2. Meant(g, context) = {e \in U[n] : contains(context, e)}
    BY DEF Meant
  <2>8. \A k \in 0 .. n : U[k] = MeantAt(g, context, U, k) /\ U[k] \subseteq Elements
    BY <1>0, MeantIs
  <2> HIDE DEF n
  <2>3. n \in 0 .. n /\ n - 1 \in 0 .. n /\ 0 \in 0 .. n /\ n # 0
    BY <1>9
  <2> HIDE DEF U
  <2>4. /\ U[n] = MeantAt(g, context, U, n) /\ U[0] = MeantAt(g, context, U, 0)
        /\ U[n - 1] \subseteq Elements
    BY <2>3, <2>8
  <2>5. U[n] = {e \in U[n - 1] : TAG(t, e)}
    BY <1>0, <2>3, <2>4 DEF MeantAt, t
  <2>6. U[0] = {e \in Elements : ~ isHTML \/ context \in Related(" ", e)}
    BY <1>0, <2>4 DEF MeantAt
  <2>7. U[0] = {e \in Elements : ~ isHTML \/ contains(context, e)}
    BY <2>6 DEF Related, contains
  <2> HIDE DEF M, g, t
  <2> QED
    BY <2>1, <2>2, <2>4, <2>5, <2>7
<1>2. seed = InOrder(D)
  BY DEF getElementsByTagName
<1>3. D \subseteq Elements /\ D \subseteq Nodes
  BY NodesAre
<1> HIDE DEF D
<1>4. /\ seed \in Seq(D) /\ Members(seed) = D
      /\ \A Y : Without(seed, Y) = InOrder(D \ Y)
  BY <1>2, <1>3, InOrderIs
<1>5. seed \in Seq(Elements)
  BY <1>3, <1>4, SeqSubset
<1>6. M = D \cap U[n - 1]
  BY <1>1 DEF D
<1>7. ASSUME seed = << >> \/ n = 1
      PROVE  Gives(E, groups, context, [E EXCEPT !.found = @ \o seed])
  <2>1. M = D
    <3>1. CASE seed = << >>
      <4>1. D = {}
        BY <1>4, <1>5, <3>1, MembersEmpty
      <4> QED
        BY <1>6, <4>1
    <3>2. CASE n = 1
      <4>1. U[n - 1] = U[0]
        BY <3>2
      <4>2. D \subseteq U[0]
        BY <1>1 DEF D
      <4> QED
        BY <1>6, <4>1, <4>2
    <3> QED
      BY <1>7, <3>1, <3>2
  <2> DEFINE F == [E EXCEPT !.found = @ \o seed]
  <2>2. E \in Engines /\ SlotsBefore(E.slots, E.run)
    BY DEF Engine
  <2>3. E.found \o seed \in Seq(Elements)
    BY <1>5, <2>2, ConcatProperties DEF Engines
  <2>4. F \in Engines /\ F.slots = E.slots /\ F.run = E.run /\ F.found = E.found \o seed
    BY <2>2, <2>3 DEF Engines
  <2> HIDE DEF F, M, U, g, n
  <2>6. Engine(F)
    BY <2>2, <2>4 DEF Engine
  <2>5. F.found = E.found \o InOrder(M)
    BY <1>2, <2>1, <2>4
  <2> QED
    BY <2>5, <2>6 DEF Gives, F, M
<1>8. ASSUME seed # << >>, n # 1
      PROVE  Gives(E, groups, context, Search(E, <<WithoutLast(g)>>, context, seed))
  <2> DEFINE f == WithoutLast(g)
             fs == <<f>>
             F == Search(E, fs, context, seed)
  <2>1. n > 1
    <3> HIDE DEF n
    <3> QED
      BY <1>8, <1>9
  <2>2. f \in Groups /\ f.lead = g.lead /\ Len(f.tokens) = n - 1
    BY <1>0, <2>1, FrontIs
  <2>3. MeantUpto(f, context)[n - 1] = U[n - 1]
    <3>1. \A k \in 0 .. n - 1 : MeantUpto(f, context)[k] = U[k]
      BY <1>0, <2>1, FrontSame
    <3> HIDE DEF n, f, U
    <3>2. n - 1 \in 0 .. n - 1
      BY <1>9
    <3> QED
      BY <3>1, <3>2
  <2> HIDE DEF f
  <2>4. fs \in Seq(Groups) /\ DOMAIN fs = {1} /\ fs[1] = f
    BY <2>2
  <2> HIDE DEF fs
  <2>5. Proper(fs)
    BY <1>0, <2>2, <2>4 DEF Proper
  <2>6. Meaning(fs, context) = U[n - 1]
    BY <2>2, <2>3, <2>4 DEF Meaning
  <2>7. /\ Engine(F)
        /\ F.found = E.found \o Without(seed, Nodes \ Meaning(fs, context))
    <3> HIDE DEF M, U, g, n, t
    <3>1. fs \in Seq(Groups)
      BY <2>4
    <3> QED
      BY <1>5, <2>5, <3>1, SearchDoes
  <2>8. D \ (Nodes \ U[n - 1]) = M
    BY <1>3, <1>6
  <2> HIDE DEF F, U, M
  <2>9. F.found = E.found \o InOrder(M)
    BY <1>4, <2>6, <2>7, <2>8
  <2> QED
    BY <2>7, <2>9 DEF Gives, F, M, f, fs
<1> QED
  BY <1>7, <1>8

(* select appends what the selector means in the context, in document       *)
(* order.                                                                   *)
LEMMA selectDoes ==
  ASSUME IsTree(parent), NEW E, Engine(E), NEW groups \in SelectorSet, NEW context \in Nodes
  PROVE  Gives(E, groups, context, select(E, groups, context))
<1> DEFINE g == groups[1]
           n == Len(g.tokens)
           seed == getElementsByTagName(g.tokens[n], context)
<1>1. CASE Len(groups) > 1 \/ g.leading
  <2>1. select(E, groups, context)
          = Search(E, groups, context, getElementsByTagName("*", Outermost(groups, context)))
    BY <1>1 DEF select, Outermost
  <2> QED
    BY <1>1, <2>1, TryingAll
<1>2. CASE ~ (Len(groups) > 1 \/ g.leading)
  <2>1. Len(groups) = 1 /\ ~ g.leading
    <3>1. Len(groups) > 1 \/ Len(groups) = 1
      BY GroupsAre
    <3> HIDE DEF g, n, seed
    <3> QED
      BY <1>2, <3>1
  <2>2. select(E, groups, context)
          = IF seed = << >> \/ n = 1 THEN [E EXCEPT !.found = @ \o seed]
            ELSE Search(E, <<WithoutLast(g)>>, context, seed)
    BY <1>2 DEF select, WithoutLast
  <2> HIDE DEF seed
  <2>3. /\ seed = << >> \/ n = 1 => Gives(E, groups, context, [E EXCEPT !.found = @ \o seed])
        /\ seed # << >> /\ n # 1 =>
             Gives(E, groups, context, Search(E, <<WithoutLast(g)>>, context, seed))
    BY <2>1, FromSeed DEF seed
  <2> QED
    BY <2>2, <2>3
<1> QED
  BY <1>1, <1>2

-----------------------------------------------------------------------------
(* find: one select after the other.                                        *)

Fitting(groups) == isHTML \/ Len(groups) = 1 \/ ~ HasSiblings(groups)
Wanted(groups, contexts) == UNION {Meant(groups[i], c) : i \in DOMAIN groups, c \in contexts}
Entering == [slots |-> slots, run |-> dirruns, done |-> compilations,
          cache |-> compilerCache, found |-> << >>]

AfterAt(groups, self, A, i) == IF i = 0 THEN Entering ELSE select(A[i - 1], groups, self[i])
AreAfter(groups, self, n, A) == A = [i \in 0 .. n |-> AfterAt(groups, self, A, i)]

(* What the engine keeps after each context is a function.                  *)
LEMMA AfterExist ==
  ASSUME NEW groups, NEW self
  PROVE  \A n \in Nat : \E A : AreAfter(groups, self, n, A)
<1> DEFINE Value(A, i) == AfterAt(groups, self, A, i)
           S == {n \in Nat : \E A : A = [i \in 0 .. n |-> Value(A, i)]}
<1>0. ASSUME NEW V, NEW A, NEW i, i # 0 => V[i - 1] = A[i - 1]
      PROVE  Value(V, i) = Value(A, i)
  BY <1>0 DEF AfterAt
<1> HIDE DEF Value
<1>1. 0 \in S
  <2>1. PICK A : A = [i \in 0 .. 0 |-> Value(<< >>, i)]
    OBVIOUS
  <2>2. Value(<< >>, 0) = Value(A, 0)
    BY <1>0
  <2>3. A = [i \in 0 .. 0 |-> Value(A, i)]
    BY <2>1, <2>2
  <2> QED
    BY <2>3
<1>2. ASSUME NEW n \in Nat, n \in S
      PROVE  n + 1 \in S
  <2>1. PICK A : A = [i \in 0 .. n |-> Value(A, i)]
    BY <1>2
  <2>2. PICK V : V = [i \in 0 .. n + 1 |-> IF i <= n THEN A[i] ELSE Value(A, i)]
    OBVIOUS
  <2>3. ASSUME NEW i \in 0 .. n + 1
        PROVE  V[i] = Value(V, i)
    <3>1. V[i] = Value(A, i)
      BY <2>1, <2>2
    <3>2. i # 0 => V[i - 1] = A[i - 1]
      BY <2>2
    <3> QED
      BY <1>0, <3>1, <3>2
  <2>4. V = [i \in 0 .. n + 1 |-> Value(V, i)]
    BY <2>2, <2>3
  <2> QED
    BY <2>4
<1> HIDE DEF S
<1>3. Nat \subseteq S
  BY <1>1, <1>2, NatSets
<1> QED
  BY <1>3 DEF S, Value, AreAfter

(* What is found so far is what is meant in the contexts so far.            *)
LEMMA AfterDoes ==
  ASSUME IsTree(parent), Engine(Entering), NEW groups \in SelectorSet, NEW self \in Seq(Nodes),
         NEW A, AreAfter(groups, self, Len(self), A)
  PROVE  \A i \in 0 .. Len(self) :
           /\ Engine(A[i])
           /\ Fitting(groups) =>
                Members(A[i].found) = UNION {Answer(groups, self[j]) : j \in 1 .. i}
<1> DEFINE n == Len(self)
           Upto(i) == UNION {Answer(groups, self[j]) : j \in 1 .. i}
           T == {i \in Nat : i <= n => /\ Engine(A[i])
                                       /\ Fitting(groups) => Members(A[i].found) = Upto(i)}
<1>0. n \in Nat
  OBVIOUS
<1>1. \A i \in 0 .. n : A[i] = AfterAt(groups, self, A, i)
  BY DEF AreAfter
<1>2. 0 \in T
  <2>1. A[0] = Entering
    <3>1. 0 \in 0 .. n
      BY <1>0
    <3>2. A[0] = AfterAt(groups, self, A, 0)
      BY <1>1, <3>1
    <3> QED
      BY <3>2 DEF AfterAt
  <2>2. Members(Entering.found) = {}
    BY DEF Entering, Members
  <2>3. Upto(0) = {}
    OBVIOUS
  <2> QED
    BY <2>1, <2>2, <2>3
<1>3. ASSUME NEW j \in Nat, j \in T
      PROVE  j + 1 \in T
  <2> SUFFICES ASSUME j + 1 <= n
               PROVE  /\ Engine(A[j + 1])
                      /\ Fitting(groups) => Members(A[j + 1].found) = Upto(j + 1)
    OBVIOUS
  <2> DEFINE c == self[j + 1]
             X == Answer(groups, c)
  <2>1. /\ j + 1 \in 0 .. n /\ j + 1 \in 1 .. n /\ j + 1 # 0 /\ (j + 1) - 1 = j
        /\ Engine(A[j]) /\ (Fitting(groups) => Members(A[j].found) = Upto(j))
    BY <1>0, <1>3
  <2>2. c \in Nodes
    BY <2>1, ElementOfSeq
  <2>3. A[j + 1] = select(A[j], groups, c)
    BY <1>1, <2>1 DEF AfterAt
  <2>4. Upto(j + 1) = Upto(j) \cup X
    BY <1>0
  <2> HIDE DEF c
  <2>5. Gives(A[j], groups, c, A[j + 1])
    BY <2>1, <2>2, <2>3, selectDoes
  <2>6. X \subseteq Elements /\ X \subseteq Nodes
    BY AnswerAre, NodesAre
  <2>7. Members(InOrder(X)) = X /\ InOrder(X) \in Seq(X)
    BY <2>6, InOrderIs
  <2>8. InOrder(X) \in Seq(Elements) /\ A[j].found \in Seq(Elements)
    <3>1. InOrder(X) \in Seq(Elements)
      BY <2>6, <2>7, SeqSubset
    <3>2. A[j].found \in Seq(Elements)
      BY <2>1 DEF Engine, Engines
    <3> QED
      BY <3>1, <3>2
  <2> HIDE DEF X, Upto
  <2>9. ASSUME Fitting(groups) PROVE Members(A[j + 1].found) = Upto(j + 1)
    <3>1. A[j + 1].found = A[j].found \o InOrder(X)
      BY <2>5, <2>9 DEF Gives, Fitting, X
    <3>2. Members(A[j].found \o InOrder(X)) = Members(A[j].found) \cup Members(InOrder(X))
      BY <2>8, MembersConcat
    <3> QED
      BY <2>1, <2>4, <2>7, <2>9, <3>1, <3>2
  <2> QED
    BY <2>5, <2>9 DEF Gives
<1> HIDE DEF T
<1>4. Nat \subseteq T
  BY <1>2, <1>3, NatSets
<1> QED
  BY <1>0, <1>4 DEF T

(* Nothing is listed of nothing.                                            *)
LEMMA InOrderEmpty == InOrder({}) = << >>
<1>1. InOrder({}) \in Seq(Nodes) /\ Members(InOrder({})) = {}
  BY InOrderIs
<1> QED
  BY <1>1, MembersEmpty

Found(self, E) ==
  IF Len(self) <= 1 THEN E.found ELSE InOrder({E.found[i] : i \in DOMAIN E.found})

(* After the last context, what is listed is what is meant in all of them.  *)
LEMMA findDoes ==
  ASSUME IsTree(parent), Engine(Entering), NEW groups \in SelectorSet, NEW contexts \in ContextSets,
         NEW A, AreAfter(groups, InOrder(contexts), Len(InOrder(contexts)), A)
  PROVE  LET E == A[Len(InOrder(contexts))]
         IN  /\ Engine(E)
             /\ Fitting(groups) =>
                  Found(InOrder(contexts), E) = InOrder(Wanted(groups, contexts))
<1> DEFINE self == InOrder(contexts)
           n == Len(self)
           E == A[n]
           Upto(i) == UNION {Answer(groups, self[j]) : j \in 1 .. i}
           fits == Fitting(groups)
<1>1. contexts \subseteq Nodes
  BY DocumentAssumption
<1>2. self \in Seq(Nodes) /\ Members(self) = contexts
  BY <1>1, InOrderIs
<1> HIDE DEF self
<1>3. n \in Nat /\ DOMAIN self = 1 .. n /\ n \in 0 .. n /\ 0 \in 0 .. n
  <2>1. n \in Nat /\ DOMAIN self = 1 .. n
    BY <1>2
  <2> QED
    BY <2>1
<1>4. \A i \in 0 .. n : Engine(A[i]) /\ (fits => Members(A[i].found) = Upto(i))
  BY <1>2, AfterDoes DEF self
<1>5. Engine(E) /\ (fits => Members(E.found) = Upto(n))
  BY <1>3, <1>4
<1>6. Upto(n) = Wanted(groups, contexts)
  <2>1. Wanted(groups, contexts) = UNION {Answer(groups, c) : c \in contexts}
    BY DEF Wanted, Answer
  <2>2. contexts = {self[j] : j \in 1 .. n}
    BY <1>2, <1>3 DEF Members
  <2> QED
    BY <2>1, <2>2
<1>7. ASSUME fits, n > 1
      PROVE  Found(self, E) = InOrder(Wanted(groups, contexts))
  <2>1. Found(self, E) = InOrder(Members(E.found))
    BY <1>3, <1>7 DEF Found, Members
  <2> QED
    BY <1>5, <1>6, <1>7, <2>1
<1>8. ASSUME fits, n = 0
      PROVE  Found(self, E) = InOrder(Wanted(groups, contexts))
  <2>1. E = AfterAt(groups, self, A, 0)
    BY <1>3, <1>8 DEF AreAfter, self
  <2>2. E.found = << >>
    BY <2>1 DEF AfterAt, Entering
  <2>3. Found(self, E) = << >>
    BY <1>8, <2>2 DEF Found
  <2>4. Wanted(groups, contexts) = {}
    BY <1>6, <1>8
  <2> QED
    BY <2>3, <2>4, InOrderEmpty
<1>9. ASSUME fits, n = 1
      PROVE  Found(self, E) = InOrder(Wanted(groups, contexts))
  <2>1. 1 \in 0 .. n /\ 0 \in 0 .. n /\ 1 \in 1 .. n
    BY <1>9
  <2>2. A[1] = AfterAt(groups, self, A, 1) /\ A[0] = AfterAt(groups, self, A, 0)
    BY <2>1 DEF AreAfter, self
  <2>3. A[0] = Entering /\ A[1] = select(A[0], groups, self[1])
    BY <2>2 DEF AfterAt
  <2>4. self[1] \in Nodes
    BY <1>2, <2>1, ElementOfSeq
  <2>5. Gives(A[0], groups, self[1], A[1])
    BY <2>3, <2>4, selectDoes
  <2>10. A[0].found = << >>
    BY <2>3 DEF Entering
  <2>6. A[1].found = << >> \o InOrder(Answer(groups, self[1]))
    <3>1. A[1].found = A[0].found \o InOrder(Answer(groups, self[1]))
      BY <1>9, <2>5 DEF Gives, Fitting
    <3> QED
      BY <2>10, <3>1
  <2>7. Upto(1) = Answer(groups, self[1])
    OBVIOUS
  <2>11. Answer(groups, self[1]) = Wanted(groups, contexts)
    BY <1>6, <1>9, <2>7
  <2>8. InOrder(Answer(groups, self[1])) \in Seq(Nodes)
    BY AnswerAre, NodesAre, InOrderIs
  <2>9. A[1].found = InOrder(Wanted(groups, contexts))
    <3>1. << >> \o InOrder(Answer(groups, self[1])) = InOrder(Answer(groups, self[1]))
      BY <2>8, ConcatEmptySeq
    <3> QED
      BY <2>6, <2>11, <3>1
  <2> QED
    BY <1>9, <2>9 DEF Found
<1> QED
  BY <1>3, <1>5, <1>7, <1>8, <1>9 DEF self

-----------------------------------------------------------------------------
(* What a selector means depends on the document alone.                     *)

MeantEverywhere ==
  \A group \in Groups, context \in Nodes : \A U : U = MeantUpto(group, context) =>
    \A k \in 0 .. Len(group.tokens) : U[k] = MeantAt(group, context, U, k)

(* The equations for what is meant hold in every state.                     *)
LEMMA MeantAlways == []MeantEverywhere
<1>1. MeantEverywhere
  BY MeantIs DEF MeantEverywhere
<1> QED
  BY <1>1, PTL

SameDocument == isHTML' = isHTML /\ parent' = parent /\ tag' = tag

(* Where combinators lead, and the tags, are the document's.                *)
LEMMA RelatedSame ==
  ASSUME SameDocument, NEW e \in Elements, NEW c \in relative
  PROVE  /\ Related(c, e)' = Related(c, e)
         /\ \A n : contains(n, e)' <=> contains(n, e)
         /\ \A t : TAG(t, e)' <=> TAG(t, e)
<1>1. Ancestors(parent)' = Ancestors(parent)
  BY DEF SameDocument
<1>2. Siblings(e)' = Siblings(e)
  BY DEF SameDocument, Siblings
<1>3. {n \in Nodes : parent[e] = n}' = {n \in Nodes : parent[e] = n}
  BY DEF SameDocument
<1>4. CASE c = ">"
  BY <1>1, <1>3, <1>4 DEF Related, contains, TAG, SameDocument
<1>5. CASE c = " "
  BY <1>1, <1>5 DEF Related, contains, TAG, SameDocument
<1>6. CASE c = "~"
  BY <1>1, <1>2, <1>6 DEF Related, contains, TAG, SameDocument
<1>7. CASE c = "+"
  BY <1>1, <1>2, <1>7 DEF Related, contains, TAG, SameDocument
<1> QED
  BY <1>4, <1>5, <1>6, <1>7 DEF relative, rsibling

(* So is one step of the recursion.                                         *)
LEMMA MeantAtSame ==
  ASSUME SameDocument, NEW group \in Groups, NEW context, NEW U, NEW k \in 0 .. Len(group.tokens),
         k # 0 => U[k - 1] \subseteq Elements
  PROVE  MeantAt(group, context, U, k)' = MeantAt(group, context, U, k)
<1>1. group.lead \in relative
  BY DEF Groups
<1>2. isHTML' = isHTML
  BY DEF SameDocument
<1>3. CASE k = 0
  BY <1>1, <1>2, <1>3, RelatedSame DEF MeantAt
<1>4. CASE k # 0 /\ group.tokens[k] \in relative
  BY <1>4, RelatedSame DEF MeantAt
<1>5. CASE k # 0 /\ group.tokens[k] \notin relative
  <2>1. \A e \in U[k - 1] : TAG(group.tokens[k], e)' <=> TAG(group.tokens[k], e)
    BY <1>1, <1>5, RelatedSame
  <2> QED
    BY <1>5, <2>1 DEF MeantAt
<1> QED
  BY <1>3, <1>4, <1>5

(* So is what a group means.                                                *)
LEMMA MeantSame ==
  ASSUME SameDocument, MeantEverywhere, MeantEverywhere',
         NEW group \in Groups, NEW context \in Nodes
  PROVE  Meant(group, context)' = Meant(group, context)
<1> DEFINE n == Len(group.tokens)
           U == MeantUpto(group, context)
<1>12. PICK V : V = MeantUpto(group, context)'
  OBVIOUS
<1> DEFINE T == {k \in Nat : k <= n => V[k] = U[k]}
<1>0. n \in Nat /\ group.lead \in relative
  BY DEF Groups
<1>1. \A k \in 0 .. n : U[k] = MeantAt(group, context, U, k)
  BY DEF MeantEverywhere
<1>2. ASSUME NEW k \in 0 .. n
      PROVE  V[k] = MeantAt(group, context, V, k)'
  BY <1>12 DEF MeantEverywhere
<1>3. \A k \in 0 .. n : U[k] \subseteq Elements
  BY MeantIs
<1> HIDE DEF U
<1>4. ASSUME NEW k \in 0 .. n, k # 0 => V[k - 1] = U[k - 1]
      PROVE  V[k] = U[k]
  <2>1. k # 0 => V[k - 1] \subseteq Elements
    BY <1>0, <1>3, <1>4
  <2>2. V[k] = MeantAt(group, context, V, k)'
    BY <1>2
  <2>3. MeantAt(group, context, V, k)' = MeantAt(group, context, V, k)
    BY <2>1, MeantAtSame
  <2>4. MeantAt(group, context, V, k) = MeantAt(group, context, U, k)
    BY <1>4 DEF MeantAt
  <2> QED
    BY <1>1, <2>2, <2>3, <2>4
<1>5. 0 \in T
  <2>1. 0 \in 0 .. n
    BY <1>0
  <2>2. V[0] = U[0]
    BY <1>4, <2>1
  <2> QED
    BY <2>2
<1>6. ASSUME NEW j \in Nat, j \in T
      PROVE  j + 1 \in T
  <2> SUFFICES ASSUME j + 1 <= n PROVE V[j + 1] = U[j + 1]
    OBVIOUS
  <2>1. j + 1 \in 0 .. n /\ (j + 1) - 1 = j /\ V[j] = U[j]
    BY <1>0, <1>6
  <2> QED
    BY <1>4, <2>1
<1> HIDE DEF T
<1>7. Nat \subseteq T
  BY <1>5, <1>6, NatSets
<1>8. V[n] = U[n] /\ U[n] \subseteq Elements
  BY <1>0, <1>3, <1>7 DEF T
<1>9. Meant(group, context)' = {e \in V[n] : group.leading \/ contains(context, e)'}
  BY <1>12 DEF Meant
<1>10. Meant(group, context) = {e \in U[n] : group.leading \/ contains(context, e)}
  BY DEF Meant, U
<1>11. \A e \in Elements : contains(context, e)' <=> contains(context, e)
  BY <1>0, RelatedSame
<1> QED
  BY <1>8, <1>9, <1>10, <1>11

(* So is what a selector means, in any contexts.                            *)
LEMMA WantedSame ==
  ASSUME SameDocument, MeantEverywhere, MeantEverywhere',
         NEW groups \in Seq(Groups), NEW contexts, contexts \subseteq Nodes
  PROVE  /\ Wanted(groups, contexts)' = Wanted(groups, contexts)
         /\ Fitting(groups)' <=> Fitting(groups)
<1>1. \A i \in DOMAIN groups, c \in contexts : Meant(groups[i], c)' = Meant(groups[i], c)
  <2> TAKE i \in DOMAIN groups, c \in contexts
  <2>1. groups[i] \in Groups /\ c \in Nodes
    OBVIOUS
  <2> QED
    BY <2>1, MeantSame
<1>2. Wanted(groups, contexts)' = UNION {Meant(groups[i], c)' : i \in DOMAIN groups, c \in contexts}
  BY DEF Wanted
<1>3. Wanted(groups, contexts)' = Wanted(groups, contexts)
  BY <1>1, <1>2 DEF Wanted
<1>4. Fitting(groups)' <=> Fitting(groups)
  BY DEF Fitting, SameDocument
<1> QED
  BY <1>3, <1>4

-----------------------------------------------------------------------------
(* The invariant: what the engine keeps, and what was found last.           *)

EngineInv ==
  /\ IsTree(parent)
  /\ SlotsBefore(slots, dirruns) /\ dirruns \in Nat /\ compilations \in Nat
  /\ compilerCache \in Seq(Entry)
FitsWanted(groups, contexts, found) ==
  /\ groups \in Seq(Groups) /\ contexts \subseteq Nodes
  /\ Fitting(groups) => found = InOrder(Wanted(groups, contexts))
LastFits == FitsWanted(last.groups, last.contexts, last.found)
SelectorsInv == EngineInv /\ LastFits

(* Before the first search, and when an element has moved, nothing is found. *)
LEMMA NothingFits == [](FitsWanted(NoFind.groups, NoFind.contexts, NoFind.found))
<1>1. FitsWanted(NoFind.groups, NoFind.contexts, NoFind.found)
  <2>1. NoFind.groups = << >> /\ NoFind.contexts = {} /\ NoFind.found = << >>
    BY DEF NoFind
  <2>2. << >> \in Seq(Groups) /\ DOMAIN << >> = {}
    OBVIOUS
  <2>3. Wanted(<< >>, {}) = {}
    BY DEF Wanted
  <2> QED
    BY <2>1, <2>2, <2>3, InOrderEmpty DEF FitsWanted
<1> QED
  BY <1>1, PTL

(* The invariant holds at first.                                            *)
LEMMA SelectorsInits == SelectorsInit => SelectorsInv
<1> SUFFICES ASSUME SelectorsInit PROVE SelectorsInv
  OBVIOUS
<1>1. IsTree(parent)
  BY TreesAre DEF SelectorsInit
<1>2. SlotsBefore(slots, dirruns)
  <2>1. NoSlot \in Slot /\ NoSlot.run = 0
    BY DEF NoSlot, Slot
  <2>2. slots = [m \in Nodes |-> [dir \in Dirs |-> NoSlot]] /\ dirruns = 0
    BY DEF SelectorsInit, Dirs
  <2>3. slots \in Slots
    BY <2>1, <2>2 DEF Slots, Dirs
  <2>4. \A m \in Nodes, d \in Dirs : slots[m][d].run <= dirruns
    BY <2>1, <2>2
  <2> QED
    BY <2>3, <2>4 DEF SlotsBefore
<1>3. LastFits
  <2>1. FitsWanted(NoFind.groups, NoFind.contexts, NoFind.found)
    BY NothingFits, PTL
  <2>2. last = NoFind
    BY DEF SelectorsInit
  <2> QED
    BY <2>1, <2>2 DEF LastFits
<1>4. dirruns \in Nat /\ compilations \in Nat /\ compilerCache \in Seq(Entry)
  BY DEF SelectorsInit
<1> QED
  BY <1>1, <1>2, <1>3, <1>4 DEF SelectorsInv, EngineInv

(* A search keeps it, and finds what it should.                             *)
LEMMA FoundKeeps ==
  ASSUME SelectorsInv, find, MeantEverywhere, MeantEverywhere'
  PROVE  SelectorsInv'
<1>1. PICK groups \in SelectorSet, contexts \in ContextSets :
       LET self == InOrder(contexts)
           Afterwards[i \in 0 .. Len(self)] ==
             IF i = 0 THEN [slots |-> slots, run |-> dirruns, done |-> compilations,
                            cache |-> compilerCache, found |-> << >>]
             ELSE select(Afterwards[i - 1], groups, self[i])
           E == Afterwards[Len(self)]
       IN  /\ slots' = E.slots /\ dirruns' = E.run
           /\ compilations' = E.done /\ compilerCache' = E.cache
           /\ last' = [groups |-> groups, contexts |-> contexts,
                       found |-> IF Len(self) <= 1 THEN E.found
                                 ELSE InOrder({E.found[i] : i \in DOMAIN E.found})]
  BY DEF find
<1> DEFINE self == InOrder(contexts)
           Afterwards[i \in 0 .. Len(self)] ==
             IF i = 0 THEN [slots |-> slots, run |-> dirruns, done |-> compilations,
                            cache |-> compilerCache, found |-> << >>]
             ELSE select(Afterwards[i - 1], groups, self[i])
           E == Afterwards[Len(self)]
<1>2. /\ slots' = E.slots /\ dirruns' = E.run
      /\ compilations' = E.done /\ compilerCache' = E.cache
      /\ last' = [groups |-> groups, contexts |-> contexts, found |-> Found(self, E)]
  BY <1>1 DEF Found
<1>3. contexts \subseteq Nodes /\ groups \in Seq(Groups) /\ self \in Seq(Nodes)
  BY DocumentAssumption, GroupsAre, InOrderIs
<1>4. Len(self) \in Nat
  BY <1>3
<1>5. PICK A : AreAfter(groups, self, Len(self), A)
  BY <1>4, AfterExist
<1>6. A = [i \in 0 .. Len(self) |->
             IF i = 0 THEN [slots |-> slots, run |-> dirruns, done |-> compilations,
                            cache |-> compilerCache, found |-> << >>]
             ELSE select(A[i - 1], groups, self[i])]
  BY <1>5 DEF AreAfter, AfterAt, Entering
<1> HIDE DEF self
<1>7. Afterwards = [i \in 0 .. Len(self) |->
             IF i = 0 THEN [slots |-> slots, run |-> dirruns, done |-> compilations,
                            cache |-> compilerCache, found |-> << >>]
             ELSE select(Afterwards[i - 1], groups, self[i])]
  BY <1>6
<1> HIDE DEF Afterwards
<1>8. AreAfter(groups, self, Len(self), Afterwards)
  BY <1>7 DEF AreAfter, AfterAt, Entering
<1>9. IsTree(parent) /\ Engine(Entering)
  <2>1. /\ IsTree(parent) /\ SlotsBefore(slots, dirruns) /\ dirruns \in Nat
        /\ compilations \in Nat /\ compilerCache \in Seq(Entry)
    BY DEF SelectorsInv, EngineInv
  <2>2. slots \in Slots /\ << >> \in Seq(Elements)
    BY <2>1 DEF SlotsBefore
  <2>3. Entering \in Engines /\ Entering.slots = slots /\ Entering.run = dirruns
    BY <2>1, <2>2 DEF Entering, Engines
  <2> QED
    BY <2>1, <2>3 DEF Engine
<1>10. Engine(E) /\ (Fitting(groups) => Found(self, E) = InOrder(Wanted(groups, contexts)))
  BY <1>8, <1>9, findDoes DEF self
<1> HIDE DEF E
<1>11. SameDocument
  BY DEF find, SameDocument
<1>12. EngineInv'
  <2>1. E \in Engines /\ SlotsBefore(E.slots, E.run)
    BY <1>10 DEF Engine
  <2>2. /\ SlotsBefore(slots', dirruns') /\ dirruns' \in Nat /\ compilations' \in Nat
        /\ compilerCache' \in Seq(Entry)
    BY <1>2, <2>1 DEF Engines
  <2>3. IsTree(parent')
    BY <1>9, <1>11 DEF SameDocument
  <2> QED
    BY <2>2, <2>3 DEF EngineInv
<1>13. LastFits'
  <2>1. PICK found : found = Found(self, E)
    OBVIOUS
  <2>2. last.groups' = groups /\ last.contexts' = contexts /\ last.found' = found
    BY <1>2, <2>1
  <2>3. /\ Wanted(groups, contexts)' = Wanted(groups, contexts)
        /\ Fitting(groups)' <=> Fitting(groups)
    BY <1>3, <1>11, WantedSame
  <2>4. FitsWanted(groups, contexts, found)'
    BY <1>3, <1>10, <2>1, <2>3 DEF FitsWanted
  <2> QED
    BY <2>2, <2>4 DEF LastFits
<1> QED
  BY <1>12, <1>13 DEF SelectorsInv

(* An element that moves leaves a tree; nothing is said of the last search. *)
LEMMA MoveKeeps ==
  ASSUME SelectorsInv, Move
  PROVE  SelectorsInv'
<1>1. EngineInv'
  <2>1. parent' \in Trees /\ UNCHANGED <<slots, dirruns, compilations, compilerCache>>
    BY DEF Move
  <2>2. IsTree(parent')
    BY <2>1, TreesAre
  <2> QED
    BY <2>1, <2>2 DEF SelectorsInv, EngineInv
<1>2. LastFits'
  <2>1. last' = NoFind
    BY DEF Move
  <2>2. [](FitsWanted(NoFind.groups, NoFind.contexts, NoFind.found))
    BY NothingFits
  <2>3. FitsWanted(NoFind.groups, NoFind.contexts, NoFind.found)'
    BY <2>2, PTL
  <2> QED
    BY <2>1, <2>3 DEF LastFits
<1> QED
  BY <1>1, <1>2 DEF SelectorsInv

(* So does every step.                                                      *)
LEMMA SelectorsKeeps ==
  ASSUME SelectorsInv, [SelectorsNext]_selectorVars, MeantEverywhere, MeantEverywhere'
  PROVE  SelectorsInv'
<1>1. CASE find
  BY <1>1, FoundKeeps
<1>2. CASE Move
  BY <1>2, MoveKeeps
<1>3. CASE UNCHANGED selectorVars
  <2>1. /\ SameDocument /\ last' = last /\ slots' = slots /\ dirruns' = dirruns
        /\ compilations' = compilations /\ compilerCache' = compilerCache
    BY <1>3 DEF selectorVars, SameDocument
  <2>2. EngineInv'
    BY <2>1 DEF SelectorsInv, EngineInv, SameDocument
  <2>3. PICK groups, contexts, found :
          groups = last.groups /\ contexts = last.contexts /\ found = last.found
    OBVIOUS
  <2>4. FitsWanted(groups, contexts, found)
    BY <2>3 DEF SelectorsInv, LastFits
  <2>5. /\ Wanted(groups, contexts)' = Wanted(groups, contexts)
        /\ Fitting(groups)' <=> Fitting(groups)
    BY <2>1, <2>4, WantedSame DEF FitsWanted
  <2>6. FitsWanted(groups, contexts, found)'
    BY <2>4, <2>5 DEF FitsWanted
  <2>7. LastFits'
    BY <2>1, <2>3, <2>6 DEF LastFits
  <2> QED
    BY <2>2, <2>7 DEF SelectorsInv
<1> QED
  BY <1>1, <1>2, <1>3 DEF SelectorsNext

(* What the engine keeps is right: no slot is of a search to come, whatever *)
(* was searched in whatever document, and the last search found what its    *)
(* selector meant (find, select, compile, addCombinator).                   *)
THEOREM SelectorsInvHolds == SelectorsSpec => []SelectorsInv
<1>1. MeantEverywhere /\ MeantEverywhere' /\ SelectorsInv /\ [SelectorsNext]_selectorVars
        => SelectorsInv'
  BY SelectorsKeeps
<1> QED
  BY <1>1, SelectorsInits, MeantAlways, PTL DEF SelectorsSpec

(* For any document, selectors, contexts and size of the cache, and any     *)
(* number of searches between which elements move, find gives exactly the   *)
(* elements that the selector means, once each and in document order,       *)
(* although nothing ever clears what the nodes remember.                    *)
THEOREM FindsExactlyHolds == SelectorsSpec => []FindsExactly
<1>1. SelectorsInv => FindsExactly
  BY DEF SelectorsInv, LastFits, FitsWanted, Fitting, Wanted, FindsExactly
<1> QED
  BY <1>1, SelectorsInvHolds, PTL

=============================================================================
