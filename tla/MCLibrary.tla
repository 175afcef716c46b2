----------------------------- MODULE MCLibrary -----------------------------
(***************************************************************************)
(* The parts of jQuery that the page works with, side by side for TLC: a   *)
(* behaviour picks one of them and stays with it, the others rest.         *)
(*   callbacks  a list with any options, or a Deferred, and two callbacks  *)
(*              that call the methods of the list themselves;              *)
(*   events     handlers on a canvas, on the box around it (one delegated) *)
(*              and on the document;                                       *)
(*   ajax       two requests, the handlers of which may throw;             *)
(*   selectors  trees of four elements with two tags, and selectors of one *)
(*              or two groups with every combinator;                       *)
(*   effects    three animations and delays on two elements, which are     *)
(*              alike, and three stops;                                    *)
(*   fades      four fades of one element.                                 *)
(***************************************************************************)
EXTENDS Callbacks, PageEvents, Ajax, Selectors, Effects, Fades

Bind(node, type, delegated) == [node |-> node, type |-> type, delegated |-> delegated]
MCBindings ==
  {Bind("canvas", "click", FALSE), Bind("canvas", "mousedown", FALSE),
   Bind("box", "click", TRUE), Bind("box", "click", FALSE),
   Bind("document", "mousedown", FALSE)}

MCTags == {[e \in 1 .. 4 |-> IF e \in {1, 4} THEN "a" ELSE "b"],
           [e \in 1 .. 4 |-> IF e = 4 THEN "b" ELSE "a"]}
Group(lead, leading, tokens) == [lead |-> lead, leading |-> leading, tokens |-> tokens]
Plain(tokens) == Group(" ", FALSE, tokens)
MCSelectors ==
  {<<Plain(tokens)>> : tokens \in
     {<<"a">>, <<"a", " ", "a">>, <<"a", " ", "a", " ", "b">>, <<"a", " ", "b", ">", "a">>,
      <<"a", " ", "a", "~", "b">>, <<"b", "+", "a">>}}
  \cup {<<Group(">", TRUE, <<"a", " ", "b">>)>>, <<Group("~", TRUE, <<"a">>)>>,
        <<Plain(<<"a">>), Plain(<<"a", " ", "b">>)>>,
        <<Group("+", TRUE, <<"a">>), Plain(<<"a", " ", "b">>)>>,
        <<Plain(<<"a", "~", "b">>), Plain(<<"a", " ", "a", " ", "b">>)>>}
MCContexts == {{0}, {1, 2}}
MCAnimated == Permutations(Animated)

VARIABLE library   (* the part that runs                                   *)

LibraryInit ==
  /\ library \in {"callbacks", "events", "ajax", "selectors", "effects", "fades"}
  /\ CallbacksInit /\ EventsInit /\ AjaxInit /\ SelectorsInit /\ EffectsInit /\ FadesInit
  /\ library # "callbacks" => "done" \in DOMAIN lists
  /\ library # "selectors" =>
       /\ isHTML /\ tag[2] = "b"
       /\ \A e \in 2 .. 4 : parent[e] = 1
  /\ library # "fades" => sheet = "none" /\ element.style = "none"

CallbacksRun ==
  /\ library = "callbacks" /\ CallbacksNext
  /\ UNCHANGED <<library, eventVars, ajaxVars, selectorVars, fxVars, fadeVars>>
EventsRun ==
  /\ library = "events" /\ EventsNext
  /\ UNCHANGED <<library, callbackVars, ajaxVars, selectorVars, fxVars, fadeVars>>
AjaxRuns ==
  /\ library = "ajax" /\ AjaxNext
  /\ UNCHANGED <<library, callbackVars, eventVars, selectorVars, fxVars, fadeVars>>
SelectorsRun ==
  /\ library = "selectors" /\ SelectorsNext
  /\ UNCHANGED <<library, callbackVars, eventVars, ajaxVars, fxVars, fadeVars>>
EffectsRun ==
  /\ library = "effects" /\ EffectsNext
  /\ UNCHANGED <<library, callbackVars, eventVars, ajaxVars, selectorVars, fadeVars>>
FadesRun ==
  /\ library = "fades" /\ FadesNext
  /\ UNCHANGED <<library, callbackVars, eventVars, ajaxVars, selectorVars, fxVars>>

LibraryNext ==
  \/ CallbacksRun \/ EventsRun \/ AjaxRuns \/ SelectorsRun \/ EffectsRun \/ FadesRun

LibrarySpec ==
  LibraryInit
    /\ [][LibraryNext]_<<library, callbackVars, eventVars, ajaxVars, selectorVars, fxVars, fadeVars>>

=============================================================================
