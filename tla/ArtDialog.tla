------------------------------ MODULE ArtDialog ------------------------------
(***************************************************************************)
(* The dialogs of the page (src/APP/html/script/                           *)
(* jquery.artDialog.source-4.1.6.js) as the page uses them: the prompt at  *)
(* the lower right (tip in main.js) that leaves after three seconds unless *)
(* the mouse is on it, and the invisible dialog that loads the background  *)
(* images. A closed dialog leaves its box (object and DOM elements) to the *)
(* next one; a second spare box is removed.                                *)
(*                                                                         *)
(* Boxes are numbered. Timers have no times here: one that is set fires at *)
(* any later moment. Layout, buttons, locks and dragging are left out: the *)
(* two dialogs have no button and no lock, the prompt cannot be dragged    *)
(* and the other one is off the screen.                                    *)
(***************************************************************************)
EXTENDS Naturals, FiniteSets

CONSTANTS
  NumBoxes,     (* bound: boxes that exist at a time                        *)
  Messages,     (* what the page says                                       *)
  NoMessage

ASSUME DialogAssumption == NumBoxes \in Nat /\ NumBoxes >= 2

Tip == "dialogtip"
Preload == "artDialog0"
Ids == {Tip, Preload}
Boxes == 1 .. NumBoxes

VARIABLES
  dialogs,      (* the dialogs, as the record below                         *)
  preloading,   (* the timer of the window's load event: "loading" (not set *)
                (* yet), "set" or "over"                                    *)
  said          (* history: what the page said last, but for what it said   *)
                (* while a prompt under the mouse refused to go             *)

dialogVars == <<dialogs, preloading, said>>

(* list: the box of every open dialog, 0 when it is closed; _box: the spare *)
(* box, 0: none; inDocument: boxes whose elements are in the page; count:   *)
(* whether any dialog was made; and of every box what it shows, whether the *)
(* mouse is on it, and whether it has a timer.                              *)
NoDialogs ==
  [list |-> [id \in Ids |-> 0], _box |-> 0, inDocument |-> {}, count |-> FALSE,
   content |-> [b \in Boxes |-> NoMessage], mouseover |-> [b \in Boxes |-> FALSE],
   timer |-> [b \in Boxes |-> FALSE]]

IsOpen(d, id) == d.list[id] # 0

-----------------------------------------------------------------------------
(* The methods of a dialog, as functions of the dialogs d.                  *)

time(d, b, set) == [d EXCEPT !.timer[b] = set]

_getDOM(d) == CHOOSE b \in Boxes : b \notin d.inDocument

(* Variant: the spare box is not taken off the hook.                        *)
_init_KeepsSpare(d, id, b, msg) ==
  [d EXCEPT !.list[id] = b, !.inDocument = @ \cup {b}, !.count = TRUE,
            !.content[b] = msg, !.mouseover[b] = FALSE, !.timer[b] = TRUE]

(* Both dialogs leave by a timer.                                           *)
_init(d, id, b, msg) ==
  [d EXCEPT !.list[id] = b, !._box = 0, !.inDocument = @ \cup {b}, !.count = TRUE,
            !.content[b] = msg, !.mouseover[b] = FALSE, !.timer[b] = TRUE]

(* artDialog: an open dialog of this name is only raised.                   *)
artDialog(d, id, msg) ==
  IF IsOpen(d, id) THEN d
  ELSE _init(d, id, IF d._box # 0 THEN d._box ELSE _getDOM(d), msg)

(* The prompt's config.close: not under the mouse.                          *)
Refuses(d, id) == id = Tip /\ d.mouseover[d.list[id]]

close(d, id) ==
  LET b == d.list[id]
      closed == [time(d, b, FALSE) EXCEPT !.list[id] = 0, !.content[b] = NoMessage,
                                          !.mouseover[b] = FALSE]
  IN  IF b = 0 THEN d
      ELSE IF Refuses(d, id) THEN time(d, b, FALSE)
      ELSE IF d._box # 0 THEN [closed EXCEPT !.inDocument = @ \ {b}]
      ELSE [closed EXCEPT !._box = b]

(* No button of these dialogs has a listener.                               *)
_click(d, id) == close(d, id)

(* tip: the old prompt goes, the new one comes; a prompt under the mouse    *)
(* refuses to go, and is the one that $.dialog then finds.                  *)
tip(msg) ==
  /\ dialogs' = artDialog(close(dialogs, Tip), Tip, msg)
  /\ said' = IF IsOpen(dialogs, Tip) /\ Refuses(dialogs, Tip) THEN said ELSE msg
  /\ UNCHANGED preloading

-----------------------------------------------------------------------------
(* Events.                                                                  *)

TimerFires(id) ==
  /\ IsOpen(dialogs, id) /\ dialogs.timer[dialogs.list[id]]
  /\ dialogs' = _click(dialogs, id)
  /\ UNCHANGED <<preloading, said>>

MouseOver ==
  /\ IsOpen(dialogs, Tip) /\ ~ dialogs.mouseover[dialogs.list[Tip]]
  /\ dialogs' = [dialogs EXCEPT !.mouseover[dialogs.list[Tip]] = TRUE]
  /\ UNCHANGED <<preloading, said>>

(* Variant: the prompt forgets to leave.                                    *)
MouseOut_NoTimer ==
  /\ IsOpen(dialogs, Tip) /\ dialogs.mouseover[dialogs.list[Tip]]
  /\ dialogs' = [dialogs EXCEPT !.mouseover[dialogs.list[Tip]] = FALSE]
  /\ UNCHANGED <<preloading, said>>

MouseOut ==
  /\ IsOpen(dialogs, Tip) /\ dialogs.mouseover[dialogs.list[Tip]]
  /\ LET b == dialogs.list[Tip]
     IN  dialogs' = time([dialogs EXCEPT !.mouseover[b] = FALSE], b, TRUE)
  /\ UNCHANGED <<preloading, said>>

ClickClose ==
  /\ IsOpen(dialogs, Tip)
  /\ dialogs' = _click([dialogs EXCEPT !.mouseover[dialogs.list[Tip]] = FALSE], Tip)
  /\ UNCHANGED <<preloading, said>>

Loaded ==
  /\ preloading = "loading" /\ preloading' = "set"
  /\ UNCHANGED <<dialogs, said>>

(* 150 ms later, unless there has been a dialog.                            *)
PreloadImages ==
  /\ preloading = "set" /\ preloading' = "over"
  /\ dialogs' = IF dialogs.count THEN dialogs ELSE artDialog(dialogs, Preload, NoMessage)
  /\ UNCHANGED said

DialogTimers == PreloadImages \/ \E id \in Ids : TimerFires(id)
DialogEvents == MouseOver \/ MouseOut \/ ClickClose \/ Loaded \/ DialogTimers

DialogInit ==
  /\ dialogs = NoDialogs
  /\ preloading = "loading" /\ said = NoMessage

DialogNext == DialogEvents \/ \E msg \in Messages : tip(msg)

DialogSpec == DialogInit /\ [][DialogNext]_dialogVars

-----------------------------------------------------------------------------
(* Properties.                                                              *)

(* Dialogs that are open have boxes of their own, the spare box belongs to  *)
(* none of them, the page holds these boxes and no others, and the prompt   *)
(* shows what was said: recycling neither shares a box, nor leaves one      *)
(* behind, nor brings up what another dialog or an older prompt held.       *)
OneBoxEach ==
  LET used == {dialogs.list[id] : id \in Ids} \ {0}
      spare == {dialogs._box} \ {0}
  IN  /\ \A i, j \in Ids : i # j /\ IsOpen(dialogs, i) => dialogs.list[i] # dialogs.list[j]
      /\ used \cap spare = {}
      /\ dialogs.inDocument = used \cup spare
      /\ IsOpen(dialogs, Tip) => dialogs.content[dialogs.list[Tip]] = said

(* A prompt that the mouse leaves alone goes, also when its time ran out    *)
(* while the mouse was on it.                                               *)
PromptsLeave ==
  <>[](IsOpen(dialogs, Tip) => ~ dialogs.mouseover[dialogs.list[Tip]])
    => []<>(~ IsOpen(dialogs, Tip))

=============================================================================
