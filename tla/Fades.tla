--------------------------------- MODULE Fades ---------------------------------
(***************************************************************************)
(* What jQuery's fades do to an element (fadeIn, fadeOut, fadeToggle, show *)
(* and hide in src/APP/html/script/jquery-1.11.1.js): its display, which   *)
(* hide remembers for the next show, and its opacity, which a fade that is *)
(* stopped on its way leaves in between for the next one to bring back.    *)
(* Effects.tla models the queue and the timers; here is one element, whose *)
(* animations come one after the other.                                    *)
(*                                                                         *)
(* Opacity: Zero, Between or Whole, the element's own. Fades to another    *)
(* opacity, other properties, queue: false and finish are left out.        *)
(***************************************************************************)
EXTENDS Integers, Sequences, FiniteSets

CONSTANT MaxFades   (* bound: fades asked for                               *)

Zero == 0
Between == 1
Whole == 2
NoOpacity == -1
NoDisplay == ""
NoFade == [kind |-> "none"]
NoShow == [opacity |-> NoOpacity, hidden |-> "unknown"]
NoEnd == [aim |-> "any", is |-> "any", opacity |-> Whole]

VARIABLES
  sheet,     (* the display that the style sheet gives                      *)
  own,       (* history: the display of the element when it is shown        *)
  element,   (* style: style.display, olddisplay, opacity, and dataShow     *)
             (* (its data "fxshow"), NoShow: none                           *)
  fade,      (* the fade under way: kind, start and end of its tween,       *)
             (* whether done will hide, and the opacity it will restore     *)
  queued,    (* the fades in the queue                                      *)
  asked,     (* fades asked for so far                                      *)
  verdict    (* history: aim: what the fade under way, or the last, is for, *)
             (* "any" when hide came in between or it took over from a      *)
             (* toggle that was stopped; ended: what the last that came to  *)
             (* its end was for and left behind                             *)

fadeVars == <<sheet, own, element, fade, queued, asked, verdict>>

-----------------------------------------------------------------------------
(* show and hide, for an element e.                                         *)

defaultDisplay == "block"
Display(e) == IF e.style = NoDisplay THEN sheet ELSE e.style
isHidden(e) == Display(e) = "none"

showHide(e, show) ==
  LET clear == IF e.olddisplay = NoDisplay /\ e.style = "none"
               THEN [e EXCEPT !.style = NoDisplay] ELSE e
      known == IF clear.style = NoDisplay /\ isHidden(clear)
               THEN [clear EXCEPT !.olddisplay = defaultDisplay] ELSE clear
      kept == IF ~ isHidden(e) THEN [e EXCEPT !.olddisplay = Display(e)] ELSE e
  IN  IF ~ show THEN [kept EXCEPT !.style = "none"]
      ELSE IF known.style \in {"none", NoDisplay} THEN [known EXCEPT !.style = known.olddisplay]
      ELSE known

-----------------------------------------------------------------------------
(* Animations: functions of s, which has the element, the fade, the queue   *)
(* and the verdict.                                                         *)

Now == [element |-> element, fade |-> fade, waiting |-> queued, verdict |-> verdict]

Aim(s, kind) ==
  LET unknown == s.element.dataShow.hidden = "unknown"
      back == CASE s.verdict.aim = "shown" -> "hidden" [] s.verdict.aim = "hidden" -> "shown"
                [] s.verdict.aim = "any" -> "any"
  IN  IF kind = "toggle" /\ unknown THEN IF isHidden(s.element) THEN "shown" ELSE "hidden"
      ELSE IF kind = "toggle" THEN back
      ELSE IF ~ unknown THEN "any"
      ELSE IF kind = "show" THEN "shown" ELSE "hidden"

(* Nothing to do: it ends at once.                                          *)
Noop(e, kind) ==
  /\ kind = IF isHidden(e) THEN "hide" ELSE "show"
  /\ kind = "hide" \/ e.dataShow.opacity = NoOpacity

(* Variant: what a stopped fade has left is not looked at.                  *)
defaultPrefilter_Fresh(s, kind) ==
  LET e == s.element
      hidden == isHidden(e)
      out == [e EXCEPT !.dataShow.opacity = e.opacity]
  IN  [s EXCEPT
         !.element = IF hidden THEN showHide(out, TRUE) ELSE out,
         !.fade = [kind |-> kind, start |-> IF hidden THEN Zero ELSE e.opacity,
                   end |-> IF hidden THEN e.opacity ELSE Zero,
                   hides |-> ~ hidden, orig |-> e.opacity]]

(* The direction, the tween and the opacity to restore. A fade that was     *)
(* stopped has left the whole opacity, and a toggle also the direction.     *)
defaultPrefilter(s, kind) ==
  LET e == s.element
      left == e.dataShow
      hidden == IF left.hidden # "unknown" THEN left.hidden = "yes"
                ELSE isHidden(e) \/ kind = "show"
      data == [opacity |-> IF left.opacity = NoOpacity THEN e.opacity ELSE left.opacity,
               hidden |-> IF kind = "toggle" THEN IF hidden THEN "no" ELSE "yes" ELSE left.hidden]
      out == [e EXCEPT !.dataShow = data]
  IN  [s EXCEPT
         !.element = IF hidden THEN showHide(out, TRUE) ELSE out,
         !.fade = [kind |-> kind,
                   start |-> IF hidden /\ left.opacity = NoOpacity THEN Zero ELSE e.opacity,
                   end |-> IF hidden THEN data.opacity ELSE Zero,
                   hides |-> ~ hidden,
                   orig |-> IF left.opacity \in {NoOpacity, Zero} THEN e.opacity
                            ELSE left.opacity]]

(* The next fade; those before it with nothing to do end at once. Its first *)
(* frame comes at once.                                                     *)
dequeueFade(s) ==
  LET doing == {i \in DOMAIN s.waiting : ~ Noop(s.element, s.waiting[i])}
      first == CHOOSE i \in doing : \A j \in doing : i <= j
      next == [s EXCEPT !.waiting = SubSeq(@, first + 1, Len(@)), !.fade = NoFade]
      started == defaultPrefilter(next, s.waiting[first])
  IN  IF doing = {} THEN [s EXCEPT !.waiting = << >>, !.fade = NoFade]
      ELSE [started EXCEPT
              !.element.opacity = started.fade.start,
              !.verdict.aim = Aim(next, s.waiting[first])]

(* The end: done hides, drops the data and restores the opacity, and        *)
(* complete takes the next fade.                                            *)
resolveFade(s) ==
  LET hidden == IF s.fade.hides THEN showHide(s.element, FALSE) ELSE s.element
      done == [hidden EXCEPT !.opacity = s.fade.orig, !.dataShow = NoShow]
      ended == [aim |-> s.verdict.aim, is |-> IF isHidden(done) THEN "hidden" ELSE "shown",
                opacity |-> done.opacity]
  IN  dequeueFade([s EXCEPT !.element = done, !.verdict.ended = ended])

Become(s) ==
  /\ element' = s.element /\ fade' = s.fade /\ queued' = s.waiting /\ verdict' = s.verdict
  /\ UNCHANGED <<sheet, own>>

-----------------------------------------------------------------------------
(* Calls and frames.                                                        *)

(* fadeIn, fadeOut or fadeToggle.                                           *)
Fade(kind) ==
  /\ asked < MaxFades /\ asked' = asked + 1
  /\ LET more == [Now EXCEPT !.waiting = Append(@, kind)]
     IN  Become(IF fade = NoFade THEN dequeueFade(more) ELSE more)

Run ==
  /\ fade # NoFade
  /\ \/ element' = [element EXCEPT !.opacity = Between]
        /\ UNCHANGED <<sheet, own, fade, queued, verdict>>
     \/ Become(resolveFade(Now))
  /\ UNCHANGED asked

(* stop and the queue; not called when nothing runs.                        *)
stopFade(clearQueue, gotoEnd) ==
  /\ fade # NoFade
  /\ LET cleared == IF clearQueue THEN [Now EXCEPT !.waiting = << >>] ELSE Now
     IN  Become(IF gotoEnd THEN resolveFade(cleared) ELSE dequeueFade(cleared))
  /\ UNCHANGED asked

(* show() and hide() do not wait, and stop nothing.                         *)
show ==
  /\ element' = showHide(element, TRUE)
  /\ UNCHANGED <<sheet, own, fade, queued, asked, verdict>>

hide ==
  /\ element' = showHide(element, FALSE)
  /\ verdict' = [verdict EXCEPT !.aim = IF @ = "shown" THEN "any" ELSE @]
  /\ UNCHANGED <<sheet, own, fade, queued, asked>>

FadesInit ==
  /\ sheet \in {"none", "block"}
  /\ \E style \in {NoDisplay, "none", "flex"} :
       /\ element = [style |-> style, olddisplay |-> NoDisplay, opacity |-> Whole,
                     dataShow |-> NoShow]
       /\ own = IF style = "flex" THEN style ELSE defaultDisplay
  /\ fade = NoFade /\ queued = << >> /\ asked = 0
  /\ verdict = [aim |-> "any", ended |-> NoEnd]

FadesNext ==
  \/ \E kind \in {"show", "hide", "toggle"} : Fade(kind)
  \/ Run
  \/ \E clearQueue, gotoEnd \in BOOLEAN : stopFade(clearQueue, gotoEnd)
  \/ show \/ hide

FadesSpec == FadesInit /\ [][FadesNext]_fadeVars

-----------------------------------------------------------------------------
(* Property.                                                                *)

(* A fade that came to its end has left the element with its own opacity,   *)
(* whatever was stopped before it, and shown or hidden as it was meant to.  *)
(* (Not so a fade in or out that took over from a toggle that was stopped:  *)
(* it goes back that toggle's way. And hide does not wait for fades.) When  *)
(* the element is shown, it is with the display that it had at first.       *)
FadesEndAsAsked ==
  /\ verdict.ended.opacity = Whole
  /\ verdict.ended.aim \in {"any", verdict.ended.is}
  /\ fade = NoFade /\ element.dataShow = NoShow => element.opacity = Whole
  /\ ~ isHidden(element) => Display(element) = own

=============================================================================
