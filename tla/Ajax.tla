--------------------------------- MODULE Ajax ---------------------------------
(***************************************************************************)
(* $.ajax and its XMLHttpRequest transport                                 *)
(* (src/APP/html/script/jquery-1.11.1.js), by which the page asks the      *)
(* device for everything.                                                  *)
(*                                                                         *)
(* A request ends in `done', called when the browser has the answer, when  *)
(* its time is over or when it is aborted. `done' calls the handlers       *)
(* success or error and then complete, and they may send or abort requests *)
(* themselves, or throw; ajaxFrames is the stack of those that run. A      *)
(* synchronous request ends before $.ajax returns. Headers, prefilters     *)
(* and handlers by status are left out: the page has none of the last two. *)
(***************************************************************************)
EXTENDS Naturals, Sequences, SequencesExt, FiniteSets

CONSTANTS
  Requests,     (* bound: requests, in the order of their numbers           *)
  MayThrow      (* whether handlers throw                                   *)

ASSUME AjaxAssumption ==
  Requests \subseteq Nat /\ IsFiniteSet(Requests) /\ MayThrow \in BOOLEAN

ContentTypes == {"json", "xml", "text"}
DataTypes == {"json", "xml", "*"}
Bodies == {"json", "xml", "text", "empty"}
Statuses == {0, 200, 204, 404}

VARIABLES
  jqXHR,        (* of every request, as the record below                    *)
  active,       (* jQuery.active                                            *)
  ajaxFrames,   (* requests in `done': handlers to call, one of them runs?  *)
  thrown        (* history: requests cut short by a handler that threw      *)

ajaxVars == <<jqXHR, active, ajaxFrames, thrown>>

(* state as in the code: 0, 1 sent, 2 done. callback: in xhrCallbacks,      *)
(* waiting for the answer; timer: timeoutTimer is set; heard (history):     *)
(* handlers called, with the data they got.                                 *)
NotSent == [state |-> 0, dataType |-> "*", callback |-> FALSE, timer |-> FALSE,
            heard |-> << >>]

AjaxInControl == ajaxFrames # << >> => Last(ajaxFrames).running

-----------------------------------------------------------------------------
(* What becomes of an answer. ajaxHandleResponses: a request that asked for *)
(* nothing takes the type the answer claims.                                *)

ajaxHandleResponses(dataType, contentType) ==
  IF dataType = "*" THEN contentType ELSE dataType

(* Variant: what cannot be parsed is handed out as it is.                   *)
ajaxConvert_Lenient(type, body) == [state |-> "success", data |-> body]

(* The converter of text to the type; a parser's exception is an error. An  *)
(* empty document is null, not an error.                                    *)
ajaxConvert(type, body) ==
  IF type = "json" /\ body # "json" THEN [state |-> "parsererror", data |-> "none"]
  ELSE IF type = "xml" /\ body = "empty" THEN [state |-> "success", data |-> "none"]
  ELSE IF type = "xml" /\ body # "xml" THEN [state |-> "parsererror", data |-> "none"]
  ELSE [state |-> "success", data |-> body]

Outcome(status, type, body) ==
  LET response == ajaxConvert(type, body)
  IN  IF status = 204 THEN [handler |-> "success", data |-> "none"]
      ELSE IF status = 200 /\ response.state = "success"
           THEN [handler |-> "success", data |-> response.data]
      ELSE [handler |-> "error", data |-> "none"]

-----------------------------------------------------------------------------
(* The end of a request.                                                    *)

Frame(r, outcome) == [request |-> r, todo |-> <<outcome, [handler |-> "complete", data |-> "none"]>>,
                      running |-> FALSE]

(* Variant: the end is not remembered.                                      *)
done_Again(r, outcome, left) ==
  /\ jqXHR' = [jqXHR EXCEPT ![r] = [left EXCEPT !.state = 2, !.timer = FALSE]]
  /\ ajaxFrames' = Append(ajaxFrames, Frame(r, outcome))

done(r, outcome, left) ==
  /\ jqXHR' = [jqXHR EXCEPT ![r] =
                 IF left.state = 2 THEN left ELSE [left EXCEPT !.state = 2, !.timer = FALSE]]
  /\ ajaxFrames' = IF left.state = 2 THEN ajaxFrames ELSE Append(ajaxFrames, Frame(r, outcome))

Error == [handler |-> "error", data |-> "none"]

(* Variant: the transport is not told.                                      *)
abort_OnlyDone(r) == done(r, Error, jqXHR[r])

abort(r) == done(r, Error, [jqXHR[r] EXCEPT !.callback = FALSE])

(* The page holds on to a request and aborts it, when it will.              *)
Abort ==
  /\ AjaxInControl
  /\ \E r \in Requests : jqXHR[r].state # 0 /\ abort(r)
  /\ Len(ajaxFrames') <= Cardinality(Requests)
  /\ UNCHANGED <<active, thrown>>

Timeout ==
  /\ ajaxFrames = << >>
  /\ \E r \in Requests : jqXHR[r].timer /\ abort(r)
  /\ UNCHANGED <<active, thrown>>

(* onreadystatechange, complete. Without an answer the status is 0.         *)
Answer ==
  /\ ajaxFrames = << >>
  /\ \E r \in Requests, status \in Statuses, type \in ContentTypes, body \in Bodies :
       /\ jqXHR[r].callback
       /\ done(r, Outcome(status, ajaxHandleResponses(jqXHR[r].dataType, type), body),
               [jqXHR[r] EXCEPT !.callback = FALSE])
  /\ UNCHANGED <<active, thrown>>

-----------------------------------------------------------------------------
(* $.ajax: handlers installed, then sent. A synchronous request is over     *)
(* when send returns, or throws because there is no answer; no timer is     *)
(* set for it.                                                              *)
ajax ==
  /\ AjaxInControl
  /\ \E r \in Requests, dataType \in DataTypes :
       /\ jqXHR[r].state = 0 /\ \A q \in Requests : q < r => jqXHR[q].state # 0
       /\ LET sent == [NotSent EXCEPT !.state = 1, !.dataType = dataType]
          IN  \/ \E timer \in BOOLEAN :
                   /\ jqXHR' = [jqXHR EXCEPT ![r] = [sent EXCEPT !.callback = TRUE, !.timer = timer]]
                   /\ UNCHANGED ajaxFrames
              \/ \E status \in Statuses, type \in ContentTypes, body \in Bodies :
                   done(r, Outcome(status, ajaxHandleResponses(dataType, type), body), sent)
  /\ active' = active + 1
  /\ UNCHANGED thrown

-----------------------------------------------------------------------------
(* The rest of `done'.                                                      *)

SetAjaxTop(frame) == ajaxFrames' = [ajaxFrames EXCEPT ![Len(ajaxFrames)] = frame]

CallHandler ==
  /\ ~ AjaxInControl /\ Last(ajaxFrames).todo # << >>
  /\ SetAjaxTop([Last(ajaxFrames) EXCEPT !.running = TRUE, !.todo = Tail(@)])
  /\ jqXHR' = [jqXHR EXCEPT ![Last(ajaxFrames).request].heard =
                 Append(@, Head(Last(ajaxFrames).todo))]
  /\ UNCHANGED <<active, thrown>>

HandlerReturns ==
  /\ ajaxFrames # << >> /\ Last(ajaxFrames).running
  /\ SetAjaxTop([Last(ajaxFrames) EXCEPT !.running = FALSE])
  /\ UNCHANGED <<jqXHR, active, thrown>>

(* Nothing catches what a handler throws: everything that runs is cut short.*)
HandlerThrows ==
  /\ MayThrow /\ ajaxFrames # << >> /\ Last(ajaxFrames).running
  /\ ajaxFrames' = << >>
  /\ thrown' = thrown \cup {ajaxFrames[i].request : i \in DOMAIN ajaxFrames}
  /\ UNCHANGED <<jqXHR, active>>

DoneEnds ==
  /\ ~ AjaxInControl /\ Last(ajaxFrames).todo = << >>
  /\ ajaxFrames' = Front(ajaxFrames)
  /\ active' = active - 1
  /\ UNCHANGED <<jqXHR, thrown>>

-----------------------------------------------------------------------------
AjaxInit ==
  /\ jqXHR = [r \in Requests |-> NotSent]
  /\ active = 0 /\ ajaxFrames = << >> /\ thrown = {}

AjaxNext ==
  \/ ajax \/ Abort \/ Timeout \/ Answer
  \/ CallHandler \/ HandlerReturns \/ HandlerThrows \/ DoneEnds

AjaxSpec == AjaxInit /\ [][AjaxNext]_ajaxVars

-----------------------------------------------------------------------------
(* Properties.                                                              *)

InDone == {ajaxFrames[i].request : i \in DOMAIN ajaxFrames}

(* A request ends once: one of success and error is called, then complete,  *)
(* and nothing of it stays with the browser, although answers, timeouts and *)
(* aborts race and handlers send and abort requests themselves. Only a      *)
(* handler that throws keeps complete from being called.                    *)
EndsOnce ==
  \A r \in Requests :
    LET names == [i \in DOMAIN jqXHR[r].heard |-> jqXHR[r].heard[i].handler]
    IN  /\ \E first \in {"success", "error"} : IsPrefix(names, <<first, "complete">>)
        /\ jqXHR[r].state = 2 => ~ jqXHR[r].callback /\ ~ jqXHR[r].timer
        /\ jqXHR[r].state = 2 /\ r \notin InDone \cup thrown => Len(names) = 2

(* jQuery.active counts the requests that have not ended, and those whose   *)
(* end was cut short.                                                       *)
ActiveIsExact ==
  active = Cardinality({r \in Requests : jqXHR[r].state = 1}) + Cardinality(InDone \cup thrown)

(* Who asked for a type gets that type or nothing: never text that could    *)
(* not be parsed.                                                           *)
DataIsAsAsked ==
  \A r \in Requests : \A i \in DOMAIN jqXHR[r].heard :
    jqXHR[r].dataType # "*" =>
      jqXHR[r].heard[i].data \in {jqXHR[r].dataType, "none"}

(* Requests end once, are counted while they have not, and hand over what   *)
(* was asked for.                                                           *)
RequestsEndRight == EndsOnce /\ ActiveIsExact /\ DataIsAsAsked

=============================================================================
