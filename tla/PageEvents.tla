------------------------------ MODULE PageEvents ------------------------------
(***************************************************************************)
(* jQuery's events and the data it keeps of elements                       *)
(* (src/APP/html/script/jquery-1.11.1.js). The data of an element is an    *)
(* entry of one global cache, under a number that the element carries;     *)
(* numbers are used again. An element hears an event type through one      *)
(* native listener, and the entry holds whom to call: delegates (handlers  *)
(* for descendants) in front of the element's own.                         *)
(*                                                                         *)
(* The page is a box with elements in it, such as the container of the     *)
(* player or a dialog. Handlers may bind, unbind, trigger and remove       *)
(* elements themselves; eventFrames is the stack of events being handled.  *)
(* Every selector means the elements of the box. Namespaces, default       *)
(* actions and the repairs for old browsers are left out.                  *)
(***************************************************************************)
EXTENDS Sublists, FiniteSets, SequencesExt

CONSTANTS
  MaxCalls,     (* bound: calls of jQuery, trigger among them               *)
  MaxEvents,    (* bound: events of the browser                             *)
  PageElements,  (* what is in the box                                       *)
  Bindings      (* what the page binds: [node, type, delegated]             *)

PageNodes == {"document", "box"} \cup PageElements
Types == {"click", "mousedown"}
Special == "click"
None == 0

ASSUME EventsAssumption ==
  /\ IsFiniteSet(PageElements) /\ PageElements \cap {"document", "box"} = {}
  /\ Bindings \subseteq [node : PageNodes, type : Types, delegated : BOOLEAN]

VARIABLES
  dom,          (* elements in the box and jQuery's records, as NoData      *)
  eventFrames,  (* events (with the nodes still to be visited) and, on top  *)
                (* of each, jQuery's dispatch on the node visited           *)
  bindings,     (* handlers bound so far: each gets a number                *)
  calls, events

eventVars == <<dom, eventFrames, bindings, calls, events>>

(* attached: elements in the box; expando: the number a node carries;       *)
(* cache: the entries, by number; data: whether it holds other data;        *)
(* listeners: native listeners, which are all jQuery's.                     *)
NoHandlers == [objs |-> << >>, delegateCount |-> 0]
NoEntry == [there |-> FALSE, data |-> FALSE, events |-> [t \in Types |-> NoHandlers]]
NoData ==
  [attached |-> PageElements, expando |-> [n \in PageNodes |-> None],
   cache |-> [id \in 1 .. Cardinality(PageNodes) |-> NoEntry],
   deletedIds |-> << >>, guid |-> 1, listeners |-> {}]

Entry(d, n) == IF d.expando[n] = None THEN NoEntry ELSE d.cache[d.expando[n]]
HasEvents(d, n) == \E t \in Types : Entry(d, n).events[t].objs # << >>

-----------------------------------------------------------------------------
(* The cache, as functions of the records d.                                *)

(* internalData: an entry for the node, under a number used before if there *)
(* is one.                                                                  *)
internalData(d, n) ==
  IF d.expando[n] # None THEN d
  ELSE LET reuse == d.deletedIds # << >>
           id == IF reuse THEN Last(d.deletedIds) ELSE d.guid
       IN  [d EXCEPT !.expando[n] = id, !.cache[id] = [NoEntry EXCEPT !.there = TRUE],
                     !.deletedIds = IF reuse THEN Front(@) ELSE @,
                     !.guid = IF reuse THEN @ ELSE @ + 1]

data(d, n) == LET with == internalData(d, n) IN [with EXCEPT !.cache[with.expando[n]].data = TRUE]

(* The last lines of cleanData.                                             *)
Destroy(d, n) ==
  LET id == d.expando[n]
  IN  IF id = None \/ ~ d.cache[id].there THEN d
      ELSE [d EXCEPT !.cache[id] = NoEntry, !.expando[n] = None,
                     !.deletedIds = Append(@, id)]

(* internalRemoveData of the events: an entry without other data goes.      *)
removeEvents(d, n) == IF Entry(d, n).data THEN d ELSE Destroy(d, n)

removeData(d, n) ==
  IF ~ Entry(d, n).data THEN d
  ELSE IF HasEvents(d, n) THEN [d EXCEPT !.cache[d.expando[n]].data = FALSE]
  ELSE Destroy(d, n)

-----------------------------------------------------------------------------
(* jQuery.event.                                                            *)

add(d, n, type, obj) ==
  LET with == internalData(d, n)
      h == Entry(with, n).events[type]
      more == IF obj.delegated
              THEN [objs |-> InsertAt(h.objs, h.delegateCount + 1, obj),
                    delegateCount |-> h.delegateCount + 1]
              ELSE [h EXCEPT !.objs = Append(@, obj)]
  IN  [with EXCEPT !.cache[with.expando[n]].events[type] = more,
                   !.listeners = IF h.objs = << >> THEN @ \cup {<<n, type>>} ELSE @]

Matching(obj, which) == which = "all" \/ obj.delegated = (which = "delegates")

(* Variant: the listener goes although handlers are left.                   *)
remove_Silences(d, n, type, which) ==
  LET h == Entry(d, n).events[type]
      left == Without(h.objs, {o \in ToSet(h.objs) : Matching(o, which)})
      delegates == Cardinality({i \in DOMAIN left : left[i].delegated})
      silent == [d EXCEPT !.cache[d.expando[n]].events[type] =
                            [objs |-> left, delegateCount |-> delegates],
                          !.listeners = @ \ {<<n, type>>}]
  IN  IF h.objs = << >> THEN d
      ELSE IF HasEvents(silent, n) THEN silent ELSE removeEvents(silent, n)

(* remove, of all handlers, the delegates or the node's own.                *)
remove(d, n, type, which) ==
  LET h == Entry(d, n).events[type]
      left == Without(h.objs, {o \in ToSet(h.objs) : Matching(o, which)})
      delegates == Cardinality({i \in DOMAIN left : left[i].delegated})
      less == [d EXCEPT !.cache[d.expando[n]].events[type] =
                          [objs |-> left, delegateCount |-> delegates]]
      silent == IF left = << >> THEN [less EXCEPT !.listeners = @ \ {<<n, type>>}] ELSE less
  IN  IF h.objs = << >> THEN d
      ELSE IF HasEvents(silent, n) THEN silent ELSE removeEvents(silent, n)

(* Variant: an entry that went with its last special event is destroyed     *)
(* once more.                                                               *)
cleanData_Twice(d, n) ==
  LET special == remove(d, n, Special, "all")
      silent == [special EXCEPT !.listeners = {l \in @ : l[1] # n}]
      id == d.expando[n]
  IN  IF id = None THEN d
      ELSE [silent EXCEPT !.cache[id] = NoEntry, !.expando[n] = None,
                          !.deletedIds = Append(@, id)]

(* cleanData of a node: special events are removed one by one, the others   *)
(* lose their listener; the entry goes, if it has not gone with the events. *)
cleanData(d, n) ==
  LET special == remove(d, n, Special, "all")
      silent == [special EXCEPT !.listeners = {l \in @ : l[1] # n}]
  IN  IF Entry(d, n).there THEN Destroy(silent, n) ELSE d

(* html(""), and remove of one element.                                     *)
removeElements(d, elems) ==
  LET order == SetToSeq(elems)
      Cleaned[i \in 0 .. Cardinality(elems)] ==
        IF i = 0 THEN d ELSE cleanData(Cleaned[i - 1], order[i])
  IN  [Cleaned[Cardinality(elems)] EXCEPT !.attached = @ \ elems]

-----------------------------------------------------------------------------
(* Events. The nodes an event visits are known when it begins.              *)

Path(n) ==
  CASE n = "document" -> <<"document">>
    [] n = "box" -> <<"box", "document">>
    [] n \in dom.attached -> <<n, "box", "document">>
    [] n \in PageElements \ dom.attached -> <<n>>

(* handlers: the delegates for the target, then the node's own.             *)
handlers(n, type, target) ==
  LET h == Entry(dom, n).events[type]
      Group(objs) == IF objs = << >> THEN << >> ELSE <<objs>>
  IN  (IF target \in PageElements /\ target # n
       THEN Group(SubSeq(h.objs, 1, h.delegateCount)) ELSE << >>)
      \o Group(SubSeq(h.objs, h.delegateCount + 1, Len(h.objs)))

(* Whom an event ought to call.                                             *)
Listening(n, target) ==
  {o \in UNION {ToSet(Entry(dom, n).events[t].objs) : t \in Types} :
     o.delegated => target \in PageElements /\ target # n}
Audience(type, target) ==
  UNION {{o.binding : o \in {p \in Listening(Path(target)[i], target) : p.type = type}}
           : i \in DOMAIN Path(target)}

Event(kind, type, target) ==
  [kind |-> kind, type |-> type, target |-> target, path |-> Path(target),
   queue |-> << >>, running |-> FALSE, stopped |-> FALSE,
   audience |-> Audience(type, target)]

Top == Last(eventFrames)
HandlerInControl == eventFrames # << >> => Top.running

BeginEvent(kind, type, target) ==
  /\ eventFrames' = Append(eventFrames, Event(kind, type, target))
  /\ UNCHANGED <<dom, bindings>>

(* The user; only while nothing runs.                                       *)
Native ==
  /\ events < MaxEvents /\ events' = events + 1
  /\ eventFrames = << >>
  /\ \E t \in Types, n \in PageElements : BeginEvent("native", t, n)
  /\ UNCHANGED calls

trigger ==
  /\ calls < MaxCalls /\ calls' = calls + 1
  /\ HandlerInControl
  /\ \E t \in Types, n \in PageElements : BeginEvent("trigger", t, n)
  /\ UNCHANGED events

SetTop(frame) == eventFrames' = [eventFrames EXCEPT ![Len(eventFrames)] = frame]

(* The next node of the path: the browser asks for a listener, trigger for  *)
(* jQuery's handlers; dispatch takes the handlers as they are now.          *)
Visit ==
  /\ ~ HandlerInControl /\ Top.queue = << >> /\ Top.path # << >> /\ ~ Top.stopped
  /\ LET n == Head(Top.path)
         heard == IF Top.kind = "native" THEN <<n, Top.type>> \in dom.listeners
                  ELSE Entry(dom, n).events[Top.type].objs # << >>
     IN  SetTop([Top EXCEPT !.path = Tail(@),
                   !.queue = IF heard THEN handlers(n, Top.type, Top.target) ELSE << >>])
  /\ UNCHANGED <<dom, bindings, calls, events>>

(* dispatch: a stopped event still reaches the rest of the group, which has *)
(* the same currentTarget.                                                  *)
dispatch ==
  /\ ~ HandlerInControl /\ Top.queue # << >>
  /\ LET group == Head(Top.queue)
     IN  IF group = << >>
         THEN SetTop([Top EXCEPT !.queue = IF Top.stopped THEN << >> ELSE Tail(@)])
         ELSE SetTop([Top EXCEPT !.queue[1] = Tail(@), !.running = TRUE,
                                 !.audience = @ \ {Head(group).binding}])
  /\ UNCHANGED <<dom, bindings, calls, events>>

(* A handler returns, or returns false.                                     *)
Return ==
  /\ eventFrames # << >> /\ Top.running
  /\ \E stop \in BOOLEAN :
       SetTop([Top EXCEPT !.running = FALSE, !.stopped = @ \/ stop])
  /\ UNCHANGED <<dom, bindings, calls, events>>

EventEnds ==
  /\ ~ HandlerInControl /\ Top.queue = << >>
  /\ Top.path = << >> \/ Top.stopped
  /\ eventFrames' = Front(eventFrames)
  /\ UNCHANGED <<dom, bindings, calls, events>>

-----------------------------------------------------------------------------
(* What handlers and the rest of the page do. A handler that was unbound    *)
(* may or may not be called by an event that has begun.                     *)

Bound(d) == UNION {UNION {{o.binding : o \in ToSet(Entry(d, n).events[t].objs)}
                            : t \in Types} : n \in PageNodes}

Does(d) ==
  /\ HandlerInControl /\ calls < MaxCalls /\ calls' = calls + 1
  /\ dom' = d
  /\ eventFrames' = [i \in DOMAIN eventFrames |-> [eventFrames[i] EXCEPT !.audience = @ \cap Bound(d)]]
  /\ UNCHANGED events

on ==
  /\ \E b \in Bindings :
       Does(add(dom, b.node, b.type,
                [binding |-> bindings + 1, type |-> b.type, delegated |-> b.delegated]))
  /\ bindings' = bindings + 1

off ==
  /\ \E n \in PageNodes, t \in Types, which \in {"all", "delegates", "own"} :
       HasEvents(dom, n) /\ Does(remove(dom, n, t, which))
  /\ UNCHANGED bindings

SetData ==
  /\ \E n \in PageElements : Does(data(dom, n)) \/ (Entry(dom, n).data /\ Does(removeData(dom, n)))
  /\ UNCHANGED bindings

html == dom.attached # {} /\ Does(removeElements(dom, dom.attached)) /\ UNCHANGED bindings
removeElement ==
  /\ \E n \in dom.attached : Does(removeElements(dom, {n}))
  /\ UNCHANGED bindings

(* An element that was removed comes back, or is one that the page kept.    *)
append ==
  /\ \E n \in PageElements \ dom.attached : Does([dom EXCEPT !.attached = @ \cup {n}])
  /\ UNCHANGED bindings

-----------------------------------------------------------------------------
EventsInit ==
  /\ dom = NoData /\ eventFrames = << >>
  /\ bindings = 0 /\ calls = 0 /\ events = 0

EventsNext ==
  \/ Native \/ trigger \/ Visit \/ dispatch \/ Return \/ EventEnds
  \/ on \/ off \/ SetData \/ html \/ removeElement \/ append

EventsSpec == EventsInit /\ [][EventsNext]_eventVars

-----------------------------------------------------------------------------
(* Properties.                                                              *)

(* An entry belongs to one node, and every entry to some node: no two nodes *)
(* get each other's handlers because a number is used again, and removed    *)
(* elements leave nothing behind in the cache; and a node listens for just  *)
(* the types it has handlers for.                                           *)
EntriesAreOwned ==
  /\ \A n, m \in PageNodes : n # m /\ dom.expando[n] # None => dom.expando[n] # dom.expando[m]
  /\ \A id \in DOMAIN dom.cache :
       dom.cache[id].there <=> \E n \in PageNodes : dom.expando[n] = id
  /\ dom.listeners =
       {l \in PageNodes \X Types : Entry(dom, l[1]).events[l[2]].objs # << >>}

(* An event that has ended was heard by all who were bound when it began    *)
(* and are bound still, unless a handler stopped it: delegates and others,  *)
(* through the browser or through trigger, whatever the handlers bound,     *)
(* unbound or removed meanwhile.                                            *)
EveryoneHears ==
  eventFrames # << >> /\ ~ Top.running /\ Top.queue = << >> /\ Top.path = << >> /\ ~ Top.stopped
    => Top.audience = {}

(* Both: an event is heard by its own elements' handlers, by all of them.   *)
EventsAreHeard == EntriesAreOwned /\ EveryoneHears

=============================================================================
