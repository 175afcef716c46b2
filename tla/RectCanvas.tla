------------------------------ MODULE RectCanvas ------------------------------
(***************************************************************************)
(* The polygon editor of the page (RectCanvas in                           *)
(* src/APP/html/script/main.js, 453-911): the shape that is being drawn,   *)
(* stretched or dragged with the mouse, cleared by the buttons and         *)
(* replaced by what the device has stored.                                 *)
(*                                                                         *)
(* A point is named by where it comes from: the channel whose region it    *)
(* was loaded from, or the user. Coordinates are left out: which point or  *)
(* shape the mouse hits is a choice, and so is whether a shape that is     *)
(* dragged meets the border.                                               *)
(***************************************************************************)
EXTENDS Naturals, Sequences

CONSTANTS
  User,         (* the origin of a point drawn or moved by hand             *)
  DefaultMax,   (* iMaxPointNum and iMinPointNum before any capability came *)
  DefaultMin

ASSUME CanvasAssumption ==
  {DefaultMax, DefaultMin} \subseteq Nat \ {0} /\ DefaultMin < DefaultMax

VARIABLES
  aPoint,               (* the points of the shape                          *)
  allowDraw,            (* whether a click adds a point                     *)
  szStatus,             (* what the pressed button does: "default" (none),  *)
                        (* "draw", "stretch" or "drag"                      *)
  m_iIndexChoosePoint,  (* the point that is stretched, 0: none so far      *)
  iMaxPointNum, iMinPointNum

canvasVars == <<aPoint, allowDraw, szStatus, m_iIndexChoosePoint, iMaxPointNum,
                iMinPointNum>>
limits == <<iMaxPointNum, iMinPointNum>>

-----------------------------------------------------------------------------
(* What the rest of the page calls.                                         *)

clearRect == aPoint' = << >>

(* The shape after a region was loaded; an empty one is ignored.            *)
setPolygonPoints(shape, points) == IF points # << >> THEN points ELSE shape

addPoint(origin) ==
  aPoint' = IF Len(aPoint) < iMaxPointNum THEN Append(aPoint, origin) ELSE aPoint

(* The "draw" button.                                                       *)
draw ==
  /\ clearRect
  /\ allowDraw' = TRUE
  /\ UNCHANGED <<szStatus, m_iIndexChoosePoint, limits>>

-----------------------------------------------------------------------------
(* The mouse. inArc takes the first point that is near; inShape needs an    *)
(* area.                                                                    *)

inArc(i) == i \in DOMAIN aPoint /\ m_iIndexChoosePoint' = i
inShape == Len(aPoint) >= 3

(* The left button: the shape is finished by its last possible point.       *)
DrawPoint ==
  /\ allowDraw
  /\ addPoint(User)
  /\ allowDraw' = (Len(aPoint') # iMaxPointNum)
  /\ szStatus' = "draw"
  /\ UNCHANGED <<m_iIndexChoosePoint, limits>>

ChoosePoint ==
  /\ ~ allowDraw
  /\ \E i \in DOMAIN aPoint : inArc(i)
  /\ szStatus' = "stretch"
  /\ UNCHANGED <<aPoint, allowDraw, limits>>

ChooseShape ==
  /\ ~ allowDraw /\ inShape
  /\ szStatus' = "drag"
  /\ UNCHANGED <<aPoint, allowDraw, m_iIndexChoosePoint, limits>>

ChooseNothing ==
  /\ ~ allowDraw
  /\ szStatus' = "draw"
  /\ UNCHANGED <<aPoint, allowDraw, m_iIndexChoosePoint, limits>>

(* Variant: a shape is closed however few points it has.                    *)
CloseShape_Any ==
  /\ allowDraw
  /\ addPoint(User)
  /\ allowDraw' = FALSE
  /\ UNCHANGED <<szStatus, m_iIndexChoosePoint, limits>>

(* The right button closes a shape, with one more point where it is.        *)
CloseShape ==
  /\ allowDraw /\ Len(aPoint) >= iMinPointNum
  /\ addPoint(User)
  /\ allowDraw' = FALSE
  /\ UNCHANGED <<szStatus, m_iIndexChoosePoint, limits>>

(* mousemove. A stretched point goes where the mouse is; when the shape was *)
(* replaced meanwhile by one that lacks it, the handler throws.             *)
stretch ==
  /\ ~ allowDraw /\ szStatus = "stretch" /\ m_iIndexChoosePoint \in DOMAIN aPoint
  /\ aPoint' = [aPoint EXCEPT ![m_iIndexChoosePoint] = User]
  /\ UNCHANGED <<allowDraw, szStatus, m_iIndexChoosePoint, limits>>

(* A shape that does not meet the border moves as a whole.                  *)
drag ==
  /\ ~ allowDraw /\ szStatus = "drag"
  /\ aPoint' = [i \in DOMAIN aPoint |-> User]
  /\ UNCHANGED <<allowDraw, szStatus, m_iIndexChoosePoint, limits>>

(* mouseup and mouseout.                                                    *)
Release ==
  /\ szStatus # "default" /\ szStatus' = "default"
  /\ UNCHANGED <<aPoint, allowDraw, m_iIndexChoosePoint, limits>>

Mouse ==
  \/ DrawPoint \/ ChoosePoint \/ ChooseShape \/ ChooseNothing \/ CloseShape
  \/ stretch \/ drag \/ Release

CanvasInit ==
  /\ aPoint = << >> /\ allowDraw = FALSE
  /\ szStatus = "default" /\ m_iIndexChoosePoint = 0
  /\ iMaxPointNum = DefaultMax /\ iMinPointNum = DefaultMin

=============================================================================
