---------------------------- MODULE LibraryProofs ----------------------------
(***************************************************************************)
(* Proofs about the jQuery that the page works with.                       *)
(*                                                                         *)
(* Ajax, for any number of requests, any answers, and any order of         *)
(* answers, timeouts, aborts and handlers that send, abort or throw. The   *)
(* inductive invariant says of every request what of its two handlers was  *)
(* heard and what is still to be heard (EndsAs), and that it is in one     *)
(* `done' at most (DoneOnce).                                              *)
(*                                                                         *)
(* The blocks of $(document).ready, for any number of blocks and of holds: *)
(* jQuery.readyWait is the number of holds and of the document while it is *)
(* awaited (WaitIsExact), and a block is in one place (BlocksOnce).        *)
(*                                                                         *)
(* Lists of callbacks, and the three of a Deferred, for any callbacks and  *)
(* any calls of the lists' methods from within them: the rest of a round   *)
(* is what is due (RoundIs), the stack holds the lists that fire           *)
(* (FramesOf), and of a Deferred's two outcomes one is heard (Quiet and,   *)
(* while its own callbacks run, Opens). What removing does to a list is    *)
(* proved by induction over its length.                                    *)
(*                                                                         *)
(* Events and the cache of data, for any elements and handlers that bind,  *)
(* unbind, trigger and remove: the numbers of the cache are those of nodes *)
(* and those in deletedIds, each once (EntriesOf), a binding is in one     *)
(* list (HandlersOf), and whom an event is still to call is queued or      *)
(* bound to a node that is still to be visited (StillHeard).               *)
(***************************************************************************)
EXTENDS Ajax, PageReady, Callbacks, PageEvents, FiniteSetTheorems,
        SequenceTheorems, WellFoundedInduction, TLAPS

(* Requests.                                                               *)

(* What a handler is called as and with; the first of a request that asked  *)
(* for the type dataType, and the last.                                     *)
Handler == [handler : {"success", "error", "complete"}, data : Bodies \cup {"none"}]
Firsts(dataType) ==
  {o \in Handler : /\ o.handler \in {"success", "error"}
                   /\ dataType # "*" => o.data \in {dataType, "none"}}
Complete == [handler |-> "complete", data |-> "none"]

XHRWith(Heard) ==
  [state : 0 .. 2, dataType : DataTypes, callback : BOOLEAN, timer : BOOLEAN, heard : Heard]
XHR == XHRWith(Seq(Handler))
DoneFrame == [request : Requests, todo : Seq(Handler), running : BOOLEAN]

AjaxTypes ==
  /\ jqXHR \in [Requests -> XHR] /\ ajaxFrames \in Seq(DoneFrame)
  /\ thrown \subseteq Requests /\ active \in Int

(* A request is in one `done' at most, and in none that was cut short.      *)
DoneOnce ==
  /\ \A i, j \in DOMAIN ajaxFrames : ajaxFrames[i].request = ajaxFrames[j].request => i = j
  /\ InDone \cap thrown = {}

(* What was heard and what is to be heard are the two handlers together.    *)
EndsAs(heard, todo, dataType) ==
  \E first \in Firsts(dataType) :
    \/ heard = << >> /\ todo = <<first, Complete>>
    \/ heard = <<first>> /\ todo = <<Complete>>
    \/ heard = <<first, Complete>> /\ todo = << >>

CutShort(heard, dataType) ==
  \E first \in Firsts(dataType) : heard \in {<< >>, <<first>>, <<first, Complete>>}

EndIsRight(r) ==
  LET xhr == jqXHR[r]
  IN  /\ xhr.state # 2 => xhr.heard = << >> /\ r \notin InDone \cup thrown
      /\ xhr.state # 1 => ~ xhr.callback /\ ~ xhr.timer
      /\ \A i \in DOMAIN ajaxFrames :
           ajaxFrames[i].request = r => EndsAs(xhr.heard, ajaxFrames[i].todo, xhr.dataType)
      /\ r \in thrown => CutShort(xhr.heard, xhr.dataType)
      /\ xhr.state = 2 /\ r \notin InDone \cup thrown => EndsAs(xhr.heard, << >>, xhr.dataType)

AjaxInv ==
  AjaxTypes /\ DoneOnce /\ (\A r \in Requests : EndIsRight(r)) /\ ActiveIsExact

-----------------------------------------------------------------------------
(* Lemmas about what ajax and done assign to a request.                     *)

LEMMA NotSentIs ==
  ASSUME NEW S, NEW e \in S, e = << >>
  PROVE  /\ NotSent \in XHRWith(S) /\ NotSent.state = 0 /\ NotSent.heard = << >>
         /\ NotSent.callback = FALSE /\ NotSent.timer = FALSE
<1>1. NotSent = [state |-> 0, dataType |-> "*", callback |-> FALSE, timer |-> FALSE, heard |-> e]
  BY DEF NotSent
<1>2. \A n \in 0 .. 2, d \in DataTypes, c \in BOOLEAN, t \in BOOLEAN :
        [state |-> n, dataType |-> d, callback |-> c, timer |-> t, heard |-> e] \in XHRWith(S)
  BY DEF XHRWith
<1>3. 0 \in 0 .. 2 /\ "*" \in DataTypes
  BY DEF DataTypes
<1>4. NotSent \in XHRWith(S)
  BY <1>1, <1>2, <1>3
<1>5. NotSent.state = 0 /\ NotSent.heard = e /\ NotSent.callback = FALSE /\ NotSent.timer = FALSE
  BY <1>1
<1> QED
  BY <1>4, <1>5

(* A request that is sent.                                                  *)
LEMMA SentIs ==
  ASSUME NEW d \in DataTypes, NEW s, s = [NotSent EXCEPT !.state = 1, !.dataType = d]
  PROVE  /\ s \in XHR /\ s.state = 1 /\ s.dataType = d /\ s.heard = << >>
         /\ s.callback = FALSE /\ s.timer = FALSE
<1> DEFINE S == Seq(Handler)
           m == [NotSent EXCEPT !.state = 1]
<1>1. s = [m EXCEPT !.dataType = d]
  OBVIOUS
<1>2. << >> \in S
  OBVIOUS
<1> HIDE DEF S
<1>3. /\ NotSent \in XHRWith(S) /\ NotSent.heard = << >>
      /\ NotSent.callback = FALSE /\ NotSent.timer = FALSE
  BY <1>2, NotSentIs
<1>4. PICK n : n = m
  OBVIOUS
<1>5. 1 \in 0 .. 2
  OBVIOUS
<1>6. /\ n \in XHRWith(S) /\ n.state = 1 /\ n.heard = << >> /\ n.callback = FALSE /\ n.timer = FALSE
  BY <1>3, <1>4, <1>5 DEF XHRWith
<1>7. s = [n EXCEPT !.dataType = d]
  BY <1>1, <1>4
<1> HIDE DEF m
<1>8. /\ s \in XHRWith(S) /\ s.state = 1 /\ s.dataType = d /\ s.heard = << >>
      /\ s.callback = FALSE /\ s.timer = FALSE
  BY <1>6, <1>7 DEF XHRWith
<1> QED
  BY <1>8 DEF XHR, S

(* One that waits for the browser, with or without a timer.                 *)
LEMMA WaitingIs ==
  ASSUME NEW s \in XHR, NEW t \in BOOLEAN, NEW x, x = [s EXCEPT !.callback = TRUE, !.timer = t]
  PROVE  x \in XHR /\ x.state = s.state /\ x.dataType = s.dataType /\ x.heard = s.heard
<1>1. x = [[s EXCEPT !.callback = TRUE] EXCEPT !.timer = t]
  OBVIOUS
<1>2. PICK m : m = [s EXCEPT !.callback = TRUE]
  OBVIOUS
<1>3. /\ m \in XHR /\ m.state = s.state /\ m.dataType = s.dataType /\ m.heard = s.heard
  BY <1>2 DEF XHR, XHRWith
<1>4. x = [m EXCEPT !.timer = t]
  BY <1>1, <1>2
<1> QED
  BY <1>3, <1>4 DEF XHR, XHRWith

(* One that is over.                                                        *)
LEMMA OverIs ==
  ASSUME NEW l \in XHR, NEW x, x = [l EXCEPT !.state = 2, !.timer = FALSE]
  PROVE  /\ x \in XHR /\ x.state = 2 /\ x.dataType = l.dataType /\ x.heard = l.heard
         /\ x.callback = l.callback /\ x.timer = FALSE
<1>1. x = [[l EXCEPT !.state = 2] EXCEPT !.timer = FALSE]
  OBVIOUS
<1>2. PICK m : m = [l EXCEPT !.state = 2]
  OBVIOUS
<1>3. 2 \in 0 .. 2
  OBVIOUS
<1>4. /\ m \in XHR /\ m.state = 2 /\ m.dataType = l.dataType /\ m.heard = l.heard
      /\ m.callback = l.callback
  BY <1>2, <1>3 DEF XHR, XHRWith
<1>5. x = [m EXCEPT !.timer = FALSE]
  BY <1>1, <1>2
<1> QED
  BY <1>4, <1>5 DEF XHR, XHRWith

(* Handlers are heard one after the other.                                  *)
LEMMA OneMore ==
  ASSUME NEW a \in Handler, NEW b \in Handler
  PROVE  /\ Append(<< >>, Head(<<a, b>>)) = <<a>> /\ Tail(<<a, b>>) = <<b>>
         /\ Append(<<a>>, Head(<<b>>)) = <<a, b>> /\ Tail(<<b>>) = << >>
<1>1. Head(<<a, b>>) = a /\ Head(<<b>>) = b
  OBVIOUS
<1>2. Append(<< >>, a) = <<a>>
  OBVIOUS
<1>3. Tail(<<a, b>>) = <<b>> /\ Tail(<<b>>) = << >>
  OBVIOUS
<1> DEFINE s == Append(<<a>>, b)
           t == <<a, b>>
<1>4. <<a>> \in Seq(Handler) /\ Len(<<a>>) = 1 /\ <<a>>[1] = a
  OBVIOUS
<1>5. t \in Seq(Handler) /\ Len(t) = 2 /\ t[1] = a /\ t[2] = b
  OBVIOUS
<1>6. s \in Seq(Handler) /\ Len(s) = 2 /\ s[1] = a /\ s[2] = b
  BY <1>4, AppendProperties
<1> HIDE DEF s, t
<1>7. \A i \in 1 .. 2 : s[i] = t[i]
  BY <1>5, <1>6
<1>8. s = t
  BY <1>5, <1>6, <1>7, SeqEqual
<1> QED
  BY <1>1, <1>2, <1>3, <1>8 DEF s, t

-----------------------------------------------------------------------------
(* Lemmas.                                                                  *)

LEMMA OutcomeAsAsked ==
  ASSUME NEW dataType \in DataTypes, NEW status \in Statuses, NEW type \in ContentTypes,
         NEW text \in Bodies
  PROVE  Outcome(status, ajaxHandleResponses(dataType, type), text) \in Firsts(dataType)
BY DEF Outcome, ajaxHandleResponses, ajaxConvert, Firsts, Handler, DataTypes, Statuses,
       ContentTypes, Bodies

LEMMA ErrorAsAsked == ASSUME NEW dataType PROVE Error \in Firsts(dataType)
BY DEF Error, Firsts, Handler

LEMMA BothHandlers ==
  ASSUME NEW dataType, NEW first \in Firsts(dataType)
  PROVE  /\ first \in Handler /\ Complete \in Handler
         /\ <<first, Complete>> \in Seq(Handler) /\ <<first>> \in Seq(Handler)
         /\ <<Complete>> \in Seq(Handler) /\ << >> \in Seq(Handler)
<1>1. first \in Handler /\ Complete \in Handler
  BY DEF Firsts, Complete, Handler
<1>2. << >> \in Seq(Handler)
  OBVIOUS
<1>3. <<first, Complete>> \in Seq(Handler)
  BY <1>1
<1>4. <<first>> \in Seq(Handler)
  BY <1>1
<1>5. <<Complete>> \in Seq(Handler)
  BY <1>1
<1> QED
  BY <1>1, <1>2, <1>3, <1>4, <1>5

(* Another `done' begins, inside the others.                                *)
LEMMA FrameAdded ==
  ASSUME ajaxFrames \in Seq(DoneFrame), NEW f \in DoneFrame,
         ajaxFrames' = Append(ajaxFrames, f)
  PROVE  /\ ajaxFrames' \in Seq(DoneFrame)
         /\ Len(ajaxFrames) \in Nat /\ DOMAIN ajaxFrames = 1 .. Len(ajaxFrames)
         /\ DOMAIN ajaxFrames' = 1 .. Len(ajaxFrames) + 1
         /\ \A i \in DOMAIN ajaxFrames : ajaxFrames'[i] = ajaxFrames[i]
         /\ ajaxFrames'[Len(ajaxFrames) + 1] = f
         /\ InDone' = InDone \cup {f.request}
<1>1. /\ ajaxFrames' \in Seq(DoneFrame) /\ Len(ajaxFrames') = Len(ajaxFrames) + 1
      /\ \A i \in 1 .. Len(ajaxFrames) : ajaxFrames'[i] = ajaxFrames[i]
      /\ ajaxFrames'[Len(ajaxFrames) + 1] = f
  BY AppendProperties
<1>2. /\ Len(ajaxFrames) \in Nat /\ DOMAIN ajaxFrames = 1 .. Len(ajaxFrames)
      /\ DOMAIN ajaxFrames' = 1 .. Len(ajaxFrames) + 1
  BY <1>1, LenProperties
<1>3. \A i \in DOMAIN ajaxFrames' : i \in DOMAIN ajaxFrames \/ i = Len(ajaxFrames) + 1
  BY <1>2
<1>4. DOMAIN ajaxFrames \subseteq DOMAIN ajaxFrames' /\ Len(ajaxFrames) + 1 \in DOMAIN ajaxFrames'
  BY <1>2
<1>5. InDone' = InDone \cup {f.request}
  <2>1. InDone' \subseteq InDone \cup {f.request}
    BY <1>1, <1>2, <1>3 DEF InDone
  <2>2. InDone \cup {f.request} \subseteq InDone'
    BY <1>1, <1>2, <1>4 DEF InDone
  <2> QED
    BY <2>1, <2>2
<1> QED
  BY <1>1, <1>2, <1>5

(* The innermost goes on.                                                   *)
LEMMA TopChanged ==
  ASSUME ajaxFrames \in Seq(DoneFrame), ajaxFrames # << >>, NEW f \in DoneFrame,
         f.request = Last(ajaxFrames).request, SetAjaxTop(f)
  PROVE  /\ ajaxFrames' \in Seq(DoneFrame)
         /\ Len(ajaxFrames) \in DOMAIN ajaxFrames /\ Last(ajaxFrames) = ajaxFrames[Len(ajaxFrames)]
         /\ Last(ajaxFrames) \in DoneFrame
         /\ DOMAIN ajaxFrames' = DOMAIN ajaxFrames
         /\ ajaxFrames'[Len(ajaxFrames)] = f
         /\ \A i \in DOMAIN ajaxFrames : i # Len(ajaxFrames) => ajaxFrames'[i] = ajaxFrames[i]
         /\ \A i \in DOMAIN ajaxFrames : ajaxFrames'[i].request = ajaxFrames[i].request
         /\ InDone' = InDone
<1>1. /\ Len(ajaxFrames) \in Nat /\ DOMAIN ajaxFrames = 1 .. Len(ajaxFrames)
      /\ Len(ajaxFrames) # 0 /\ \A i \in 1 .. Len(ajaxFrames) : ajaxFrames[i] \in DoneFrame
  BY LenProperties, EmptySeq, ElementOfSeq
<1>2. ajaxFrames' = [ajaxFrames EXCEPT ![Len(ajaxFrames)] = f]
  BY DEF SetAjaxTop
<1>3. Len(ajaxFrames) \in DOMAIN ajaxFrames /\ Last(ajaxFrames) = ajaxFrames[Len(ajaxFrames)]
  BY <1>1 DEF Last
<1>4. ajaxFrames' \in Seq(DoneFrame)
  <2>1. ajaxFrames \in [1 .. Len(ajaxFrames) -> DoneFrame]
    BY LenProperties
  <2>2. ajaxFrames' \in [1 .. Len(ajaxFrames) -> DoneFrame]
    BY <1>2, <2>1
  <2> QED
    BY <1>1, <2>2, SeqDef
<1>5. /\ DOMAIN ajaxFrames' = DOMAIN ajaxFrames /\ ajaxFrames'[Len(ajaxFrames)] = f
      /\ \A i \in DOMAIN ajaxFrames : i # Len(ajaxFrames) => ajaxFrames'[i] = ajaxFrames[i]
  BY <1>2, <1>3
<1>6. \A i \in DOMAIN ajaxFrames : ajaxFrames'[i].request = ajaxFrames[i].request
  BY <1>3, <1>5
<1>7. InDone' = InDone
  BY <1>5, <1>6 DEF InDone
<1> QED
  BY <1>1, <1>3, <1>4, <1>5, <1>6, <1>7

(* The innermost ends.                                                      *)
LEMMA TopGone ==
  ASSUME ajaxFrames \in Seq(DoneFrame), ajaxFrames # << >>, DoneOnce,
         ajaxFrames' = Front(ajaxFrames)
  PROVE  /\ ajaxFrames' \in Seq(DoneFrame)
         /\ Len(ajaxFrames) \in DOMAIN ajaxFrames /\ Last(ajaxFrames) = ajaxFrames[Len(ajaxFrames)]
         /\ Last(ajaxFrames) \in DoneFrame
         /\ \A i \in DOMAIN ajaxFrames' : i \in DOMAIN ajaxFrames /\ ajaxFrames'[i] = ajaxFrames[i]
         /\ Last(ajaxFrames).request \in InDone
         /\ InDone' = InDone \ {Last(ajaxFrames).request}
<1> DEFINE n == Len(ajaxFrames)
<1>1. /\ n \in Nat /\ DOMAIN ajaxFrames = 1 .. n
      /\ n # 0 /\ \A i \in 1 .. n : ajaxFrames[i] \in DoneFrame
  BY LenProperties, EmptySeq, ElementOfSeq
<1>2. n \in DOMAIN ajaxFrames /\ Last(ajaxFrames) = ajaxFrames[n]
  BY <1>1 DEF Last
<1> HIDE DEF n
<1>3. ajaxFrames' = SubSeq(ajaxFrames, 1, n - 1)
  BY DEF Front, n
<1>4. /\ ajaxFrames' \in Seq(DoneFrame) /\ DOMAIN ajaxFrames' = 1 .. n - 1
      /\ \A i \in 1 .. n - 1 : ajaxFrames'[i] = ajaxFrames[i]
  <2>1. \A i \in 1 .. n - 1 : ajaxFrames[i] \in DoneFrame
    BY <1>1
  <2>2. /\ ajaxFrames' \in Seq(DoneFrame) /\ Len(ajaxFrames') = n - 1
        /\ \A i \in 1 .. n - 1 : ajaxFrames'[i] = ajaxFrames[1 + i - 1]
    BY <1>1, <1>3, <2>1, SubSeqProperties
  <2>3. DOMAIN ajaxFrames' = 1 .. n - 1
    BY <2>2, LenProperties
  <2> QED
    BY <1>1, <2>2, <2>3
<1>5. \A i \in DOMAIN ajaxFrames : i \in DOMAIN ajaxFrames' \/ i = n
  BY <1>1, <1>4
<1>6. \A i \in DOMAIN ajaxFrames' :
        i \in DOMAIN ajaxFrames /\ i # n /\ ajaxFrames'[i] = ajaxFrames[i]
  BY <1>1, <1>4
<1>7. InDone' = InDone \ {Last(ajaxFrames).request}
  <2>1. InDone' \subseteq InDone \ {Last(ajaxFrames).request}
    BY <1>2, <1>6 DEF InDone, DoneOnce
  <2>2. InDone \ {Last(ajaxFrames).request} \subseteq InDone'
    BY <1>2, <1>5, <1>6 DEF InDone
  <2> QED
    BY <2>1, <2>2
<1>8. Last(ajaxFrames).request \in InDone
  BY <1>2 DEF InDone
<1> QED
  BY <1>1, <1>2, <1>4, <1>6, <1>7, <1>8 DEF n

-----------------------------------------------------------------------------
(* The beginning of an end.                                                 *)

LEMMA EndBegins ==
  ASSUME AjaxTypes, DoneOnce, \A r \in Requests : EndIsRight(r), NEW r \in Requests,
         jqXHR[r].state # 2, NEW x \in XHR, x.state = 2, ~ x.callback, ~ x.timer,
         x.heard = << >>, NEW outcome \in Firsts(x.dataType),
         jqXHR' = [jqXHR EXCEPT ![r] = x], thrown' = thrown,
         ajaxFrames' = Append(ajaxFrames, Frame(r, outcome))
  PROVE  /\ jqXHR' \in [Requests -> XHR] /\ ajaxFrames' \in Seq(DoneFrame)
         /\ DoneOnce' /\ (\A q \in Requests : EndIsRight(q)')
         /\ InDone' = InDone \cup {r} /\ r \notin InDone \cup thrown
<1>1. /\ jqXHR \in [Requests -> XHR] /\ ajaxFrames \in Seq(DoneFrame)
  BY DEF AjaxTypes
<1>2. r \notin InDone \cup thrown
  BY DEF EndIsRight
<1> DEFINE f == Frame(r, outcome)
<1>3. f \in DoneFrame /\ f.request = r /\ EndsAs(x.heard, f.todo, x.dataType)
  <2>1. f.todo = <<outcome, Complete>> /\ f.request = r
    BY DEF Frame, Complete
  <2>2. <<outcome, Complete>> \in Seq(Handler)
    BY BothHandlers
  <2>3. f \in DoneFrame
    BY <2>1, <2>2 DEF Frame, DoneFrame
  <2> QED
    BY <2>1, <2>3 DEF EndsAs
<1> HIDE DEF f
<1>4. /\ ajaxFrames' \in Seq(DoneFrame)
      /\ Len(ajaxFrames) \in Nat /\ DOMAIN ajaxFrames = 1 .. Len(ajaxFrames)
      /\ DOMAIN ajaxFrames' = 1 .. Len(ajaxFrames) + 1
      /\ \A i \in DOMAIN ajaxFrames : ajaxFrames'[i] = ajaxFrames[i]
      /\ ajaxFrames'[Len(ajaxFrames) + 1] = f
      /\ InDone' = InDone \cup {f.request}
  BY <1>1, <1>3, FrameAdded DEF f
<1>5. \A i \in DOMAIN ajaxFrames' :
        \/ i \in DOMAIN ajaxFrames /\ ajaxFrames'[i] = ajaxFrames[i]
             /\ ajaxFrames[i].request \in InDone
        \/ i = Len(ajaxFrames) + 1 /\ ajaxFrames'[i] = f
  BY <1>4 DEF InDone
<1>6. DoneOnce'
  <2>1. \A i, j \in DOMAIN ajaxFrames' :
          ajaxFrames'[i].request = ajaxFrames'[j].request => i = j
    BY <1>2, <1>3, <1>5 DEF DoneOnce
  <2>2. InDone' \cap thrown' = {}
    BY <1>2, <1>3, <1>4 DEF DoneOnce
  <2> QED
    BY <2>1, <2>2 DEF DoneOnce
<1>7. jqXHR' \in [Requests -> XHR] /\ jqXHR'[r] = x
      /\ \A q \in Requests : q # r => jqXHR'[q] = jqXHR[q]
  BY <1>1
<1>8. EndIsRight(r)'
  <2>1. \A i \in DOMAIN ajaxFrames' : ajaxFrames'[i].request = r => ajaxFrames'[i] = f
    BY <1>2, <1>5
  <2> QED
    BY <1>2, <1>3, <1>4, <1>7, <2>1 DEF EndIsRight
<1>9. ASSUME NEW q \in Requests, q # r PROVE EndIsRight(q)'
  <2>1. /\ jqXHR'[q] = jqXHR[q] /\ (q \in InDone' <=> q \in InDone)
        /\ \A i \in DOMAIN ajaxFrames' : ajaxFrames'[i].request = q =>
             i \in DOMAIN ajaxFrames /\ ajaxFrames'[i] = ajaxFrames[i]
    BY <1>3, <1>4, <1>5, <1>7, <1>9
  <2>2. EndIsRight(q)
    OBVIOUS
  <2> QED
    BY <2>1, <2>2 DEF EndIsRight
<1> QED
  BY <1>2, <1>3, <1>4, <1>6, <1>7, <1>8, <1>9

(* The two sets that jQuery.active counts.                                  *)
Running == {r \in Requests : jqXHR[r].state = 1}
Ended == InDone \cup thrown

LEMMA SetsAreFinite ==
  ASSUME AjaxTypes
  PROVE  /\ IsFiniteSet(Running) /\ IsFiniteSet(Ended) /\ Ended \subseteq Requests
         /\ Cardinality(Running) \in Nat /\ Cardinality(Ended) \in Nat
<1>1. InDone \subseteq Requests
  <2>1. \A i \in DOMAIN ajaxFrames : ajaxFrames[i] \in DoneFrame
    BY LenProperties, ElementOfSeq DEF AjaxTypes
  <2> QED
    BY <2>1 DEF InDone, DoneFrame
<1>2. Running \subseteq Requests /\ Ended \subseteq Requests
  BY <1>1 DEF Running, Ended, AjaxTypes
<1>3. IsFiniteSet(Running) /\ IsFiniteSet(Ended)
  BY <1>2, AjaxAssumption, FS_Subset
<1> QED
  BY <1>2, <1>3, FS_CardinalityType

LEMMA ActiveSums == ActiveIsExact <=> active = Cardinality(Running) + Cardinality(Ended)
BY DEF ActiveIsExact, Running, Ended

(* An end that begins leaves the number as it is, or adds one when the      *)
(* request was not running yet.                                             *)
LEMMA CountedEnd ==
  ASSUME AjaxTypes, AjaxTypes', ActiveIsExact, NEW r \in Requests, r \notin Ended,
         jqXHR'[r].state = 2, \A q \in Requests : q # r => jqXHR'[q] = jqXHR[q],
         Ended' = Ended \cup {r},
         active' = IF r \in Running THEN active ELSE active + 1
  PROVE  ActiveIsExact'
<1>1. Running' = Running \ {r}
  BY DEF Running
<1>2. /\ IsFiniteSet(Running) /\ IsFiniteSet(Ended)
      /\ Cardinality(Running) \in Nat /\ Cardinality(Ended) \in Nat
  BY SetsAreFinite
<1>3. Cardinality(Ended') = Cardinality(Ended) + 1
  BY <1>2, FS_AddElement
<1>4. Cardinality(Running') = IF r \in Running THEN Cardinality(Running) - 1
                              ELSE Cardinality(Running)
  BY <1>1, <1>2, FS_RemoveElement
<1>5. active = Cardinality(Running) + Cardinality(Ended)
  BY ActiveSums
<1>6. active' = Cardinality(Running') + Cardinality(Ended')
  BY <1>2, <1>3, <1>4, <1>5
<1> QED
  BY <1>6 DEF ActiveIsExact, Running, Ended

LEMMA SameSets ==
  ASSUME ActiveIsExact, Running' = Running, Ended' = Ended, active' = active
  PROVE  ActiveIsExact'
BY DEF ActiveIsExact, Running, Ended

-----------------------------------------------------------------------------
(* The steps.                                                               *)

LEMMA AjaxUnchanged == ASSUME AjaxInv, UNCHANGED ajaxVars PROVE AjaxInv'
<1>1. /\ jqXHR' = jqXHR /\ active' = active /\ ajaxFrames' = ajaxFrames /\ thrown' = thrown
      /\ InDone' = InDone
  BY DEF ajaxVars, InDone
<1>2. AjaxTypes' /\ DoneOnce' /\ ActiveIsExact'
  BY <1>1 DEF AjaxInv, AjaxTypes, DoneOnce, ActiveIsExact
<1>3. \A r \in Requests : EndIsRight(r)'
  BY <1>1 DEF AjaxInv, EndIsRight
<1> QED
  BY <1>2, <1>3 DEF AjaxInv

(* The ends by an answer, a timeout or an abort.                            *)
LEMMA EndKeeps ==
  ASSUME AjaxInv, NEW r \in Requests, jqXHR[r].state # 0,
         NEW outcome \in Firsts(jqXHR[r].dataType),
         done(r, outcome, [jqXHR[r] EXCEPT !.callback = FALSE]),
         active' = active, thrown' = thrown
  PROVE  AjaxInv'
<1> DEFINE left == [jqXHR[r] EXCEPT !.callback = FALSE]
           x == [left EXCEPT !.state = 2, !.timer = FALSE]
<1>1. AjaxTypes /\ DoneOnce /\ ActiveIsExact /\ \A q \in Requests : EndIsRight(q)
  BY DEF AjaxInv
<1>2. /\ jqXHR \in [Requests -> XHR] /\ jqXHR[r] \in XHR
      /\ ajaxFrames \in Seq(DoneFrame) /\ active \in Int /\ thrown \subseteq Requests
  BY <1>1 DEF AjaxTypes
<1>3. left.state = jqXHR[r].state /\ left.dataType = jqXHR[r].dataType
  BY <1>2 DEF XHR, XHRWith
<1>4. CASE jqXHR[r].state = 2
  <2>1. left = jqXHR[r]
    <3>1. jqXHR[r].callback = FALSE
      BY <1>1, <1>2, <1>4 DEF EndIsRight, XHR, XHRWith
    <3> QED
      BY <1>2, <3>1 DEF XHR, XHRWith
  <2>2. jqXHR' = jqXHR /\ ajaxFrames' = ajaxFrames
    BY <1>2, <1>3, <1>4, <2>1 DEF done
  <2> QED
    BY <2>2, AjaxUnchanged DEF ajaxVars
<1>5. CASE jqXHR[r].state # 2
  <2>1. jqXHR' = [jqXHR EXCEPT ![r] = x] /\ ajaxFrames' = Append(ajaxFrames, Frame(r, outcome))
    BY <1>3, <1>5 DEF done
  <2>2. jqXHR[r].heard = << >> /\ jqXHR[r].state = 1 /\ r \in Running
    BY <1>1, <1>2, <1>5 DEF EndIsRight, XHR, XHRWith, Running
  <2>3. /\ x \in XHR /\ x.state = 2 /\ ~ x.callback /\ ~ x.timer /\ x.heard = << >>
        /\ x.dataType = jqXHR[r].dataType
    <3>1. left \in XHR /\ left.heard = jqXHR[r].heard /\ left.callback = FALSE
      BY <1>2 DEF XHR, XHRWith
    <3> HIDE DEF left
    <3>2. /\ x \in XHR /\ x.state = 2 /\ x.dataType = left.dataType /\ x.heard = left.heard
          /\ x.callback = left.callback /\ x.timer = FALSE
      BY <3>1, OverIs
    <3> QED
      BY <1>3, <2>2, <3>1, <3>2
  <2> HIDE DEF x
  <2>4. /\ jqXHR' \in [Requests -> XHR] /\ ajaxFrames' \in Seq(DoneFrame)
        /\ DoneOnce' /\ (\A q \in Requests : EndIsRight(q)')
        /\ InDone' = InDone \cup {r} /\ r \notin InDone \cup thrown
    BY <1>1, <1>5, <2>1, <2>3, EndBegins
  <2>5. AjaxTypes'
    BY <1>2, <2>4 DEF AjaxTypes
  <2>6. /\ jqXHR'[r].state = 2 /\ (\A q \in Requests : q # r => jqXHR'[q] = jqXHR[q])
        /\ Ended' = Ended \cup {r} /\ r \notin Ended
    BY <1>2, <2>1, <2>3, <2>4 DEF Ended
  <2>7. ActiveIsExact'
    BY <1>1, <2>2, <2>5, <2>6, CountedEnd
  <2> QED
    BY <2>4, <2>5, <2>7 DEF AjaxInv
<1> QED
  BY <1>4, <1>5

LEMMA AbortKeeps == ASSUME AjaxInv, Abort PROVE AjaxInv'
<1>1. PICK r \in Requests : jqXHR[r].state # 0 /\ abort(r)
  BY DEF Abort
<1> QED
  BY <1>1, ErrorAsAsked, EndKeeps DEF Abort, abort

LEMMA TimeoutKeeps == ASSUME AjaxInv, Timeout PROVE AjaxInv'
<1>1. PICK r \in Requests : jqXHR[r].timer /\ abort(r)
  BY DEF Timeout
<1>2. jqXHR[r].state # 0
  BY <1>1 DEF AjaxInv, EndIsRight
<1> QED
  BY <1>1, <1>2, ErrorAsAsked, EndKeeps DEF Timeout, abort

LEMMA AnswerKeeps == ASSUME AjaxInv, Answer PROVE AjaxInv'
<1>1. PICK r \in Requests, status \in Statuses, type \in ContentTypes, text \in Bodies :
        /\ jqXHR[r].callback
        /\ done(r, Outcome(status, ajaxHandleResponses(jqXHR[r].dataType, type), text),
                [jqXHR[r] EXCEPT !.callback = FALSE])
  BY DEF Answer
<1>2. jqXHR[r].state # 0 /\ jqXHR[r].dataType \in DataTypes
  BY <1>1 DEF AjaxInv, EndIsRight, AjaxTypes, XHR, XHRWith
<1>3. Outcome(status, ajaxHandleResponses(jqXHR[r].dataType, type), text)
        \in Firsts(jqXHR[r].dataType)
  BY <1>2, OutcomeAsAsked
<1> QED
  BY <1>1, <1>2, <1>3, EndKeeps DEF Answer

LEMMA ajaxKeeps == ASSUME AjaxInv, ajax PROVE AjaxInv'
<1>1. PICK r \in Requests, dataType \in DataTypes :
        /\ jqXHR[r].state = 0
        /\ LET sent == [NotSent EXCEPT !.state = 1, !.dataType = dataType]
           IN  \/ \E timer \in BOOLEAN :
                    /\ jqXHR' = [jqXHR EXCEPT ![r] = [sent EXCEPT !.callback = TRUE,
                                                                  !.timer = timer]]
                    /\ UNCHANGED ajaxFrames
               \/ \E status \in Statuses, type \in ContentTypes, text \in Bodies :
                    done(r, Outcome(status, ajaxHandleResponses(dataType, type), text), sent)
  BY DEF ajax
<1> DEFINE sent == [NotSent EXCEPT !.state = 1, !.dataType = dataType]
<1>2. AjaxTypes /\ DoneOnce /\ ActiveIsExact /\ \A q \in Requests : EndIsRight(q)
  BY DEF AjaxInv
<1>3. /\ jqXHR \in [Requests -> XHR] /\ ajaxFrames \in Seq(DoneFrame)
      /\ active \in Int /\ thrown \subseteq Requests
      /\ active' = active + 1 /\ thrown' = thrown
  BY <1>2 DEF AjaxTypes, ajax
<1>4. r \notin Running /\ r \notin Ended
  <2>1. EndIsRight(r) /\ jqXHR[r].state = 0
    BY <1>1, <1>2
  <2> QED
    BY <2>1 DEF Running, Ended, EndIsRight
<1>5. ASSUME NEW timer \in BOOLEAN, ajaxFrames' = ajaxFrames,
             jqXHR' = [jqXHR EXCEPT ![r] = [sent EXCEPT !.callback = TRUE, !.timer = timer]]
      PROVE  AjaxInv'
  <2> DEFINE x == [sent EXCEPT !.callback = TRUE, !.timer = timer]
  <2>1. x \in XHR /\ x.state = 1 /\ x.heard = << >>
    <3>1. sent \in XHR /\ sent.state = 1 /\ sent.heard = << >>
      BY SentIs
    <3> HIDE DEF sent
    <3> QED
      BY <3>1, WaitingIs
  <2> HIDE DEF x
  <2>2. /\ jqXHR' \in [Requests -> XHR] /\ jqXHR'[r] = x
        /\ \A q \in Requests : q # r => jqXHR'[q] = jqXHR[q]
    BY <1>3, <1>5, <2>1 DEF x
  <2>3. InDone' = InDone /\ Ended' = Ended
    BY <1>3, <1>5 DEF InDone, Ended
  <2>4. AjaxTypes' /\ DoneOnce'
    BY <1>2, <1>3, <1>5, <2>2, <2>3 DEF AjaxTypes, DoneOnce
  <2>5. ASSUME NEW q \in Requests PROVE EndIsRight(q)'
    <3>1. EndIsRight(q)
      BY <1>2
    <3>2. CASE q = r
      <4>1. \A i \in DOMAIN ajaxFrames : ajaxFrames[i].request # r
        BY <1>4 DEF Ended, InDone
      <4>2. r \notin InDone' \cup thrown'
        BY <1>3, <1>4, <2>3 DEF Ended
      <4>3. jqXHR'[r].state = 1 /\ jqXHR'[r].heard = << >>
        BY <2>1, <2>2
      <4>4. EndIsRight(r)'
        BY <1>5, <4>1, <4>2, <4>3 DEF EndIsRight
      <4> QED
        BY <3>2, <4>4
    <3>3. CASE q # r
      BY <1>3, <1>5, <2>2, <2>3, <3>1, <3>3 DEF EndIsRight
    <3> QED
      BY <3>2, <3>3
  <2>6. Running' = Running \cup {r}
    BY <2>1, <2>2 DEF Running
  <2>7. ActiveIsExact'
    <3>1. IsFiniteSet(Running) /\ Cardinality(Running) \in Nat /\ Cardinality(Ended) \in Nat
      BY <1>2, SetsAreFinite
    <3>2. Cardinality(Running') = Cardinality(Running) + 1
      BY <1>4, <2>6, <3>1, FS_AddElement
    <3>3. active = Cardinality(Running) + Cardinality(Ended)
      BY <1>2, ActiveSums
    <3>4. active' = Cardinality(Running') + Cardinality(Ended')
      BY <1>3, <2>3, <3>1, <3>2, <3>3
    <3> QED
      BY <3>4 DEF ActiveIsExact, Running, Ended
  <2> QED
    BY <2>4, <2>5, <2>7 DEF AjaxInv
<1>6. ASSUME NEW status \in Statuses, NEW type \in ContentTypes, NEW text \in Bodies,
             done(r, Outcome(status, ajaxHandleResponses(dataType, type), text), sent)
      PROVE  AjaxInv'
  <2> DEFINE x == [sent EXCEPT !.state = 2, !.timer = FALSE]
             outcome == Outcome(status, ajaxHandleResponses(dataType, type), text)
  <2>1. jqXHR' = [jqXHR EXCEPT ![r] = x] /\ ajaxFrames' = Append(ajaxFrames, Frame(r, outcome))
    <3>1. sent.state = 1
      BY SentIs
    <3> HIDE DEF sent
    <3> QED
      BY <1>6, <3>1 DEF done
  <2>2. /\ x \in XHR /\ x.state = 2 /\ ~ x.callback /\ ~ x.timer /\ x.heard = << >>
        /\ x.dataType = dataType
    <3>1. /\ sent \in XHR /\ sent.dataType = dataType /\ sent.heard = << >>
          /\ sent.callback = FALSE
      BY SentIs
    <3> HIDE DEF sent
    <3>2. /\ x \in XHR /\ x.state = 2 /\ x.dataType = sent.dataType /\ x.heard = sent.heard
          /\ x.callback = sent.callback /\ x.timer = FALSE
      BY <3>1, OverIs
    <3> QED
      BY <3>1, <3>2
  <2>3. outcome \in Firsts(x.dataType)
    BY <2>2, OutcomeAsAsked
  <2> HIDE DEF x, outcome
  <2>4. /\ jqXHR' \in [Requests -> XHR] /\ ajaxFrames' \in Seq(DoneFrame)
        /\ DoneOnce' /\ (\A q \in Requests : EndIsRight(q)')
        /\ InDone' = InDone \cup {r} /\ r \notin InDone \cup thrown
    <3>1. jqXHR[r].state # 2
      <4>1. jqXHR[r].state = 0
        BY <1>1
      <4> QED
        BY <4>1
    <3> QED
      BY <1>2, <1>3, <2>1, <2>2, <2>3, <3>1, EndBegins
  <2>5. AjaxTypes'
    BY <1>3, <2>4 DEF AjaxTypes
  <2>6. /\ jqXHR'[r].state = 2 /\ (\A q \in Requests : q # r => jqXHR'[q] = jqXHR[q])
        /\ Ended' = Ended \cup {r}
    BY <1>3, <2>1, <2>2, <2>4 DEF Ended
  <2>7. ActiveIsExact'
    BY <1>2, <1>3, <1>4, <2>5, <2>6, CountedEnd
  <2> QED
    BY <2>4, <2>5, <2>7 DEF AjaxInv
<1> QED
  BY <1>1, <1>5, <1>6

(* The handlers are taken off one by one.                                   *)
LEMMA HandlerHeard ==
  ASSUME NEW heard, NEW todo, NEW dataType, EndsAs(heard, todo, dataType), todo # << >>
  PROVE  /\ EndsAs(Append(heard, Head(todo)), Tail(todo), dataType)
         /\ Append(heard, Head(todo)) \in Seq(Handler) /\ Tail(todo) \in Seq(Handler)
<1>1. PICK first \in Firsts(dataType) :
        \/ heard = << >> /\ todo = <<first, Complete>>
        \/ heard = <<first>> /\ todo = <<Complete>>
  BY DEF EndsAs
<1>2. CASE heard = << >> /\ todo = <<first, Complete>>
  <2>1. Append(heard, Head(todo)) = <<first>> /\ Tail(todo) = <<Complete>>
    BY <1>2, BothHandlers, OneMore
  <2> QED
    BY <2>1, BothHandlers DEF EndsAs
<1>3. CASE heard = <<first>> /\ todo = <<Complete>>
  <2>1. Append(heard, Head(todo)) = <<first, Complete>> /\ Tail(todo) = << >>
    BY <1>3, BothHandlers, OneMore
  <2> QED
    BY <2>1, BothHandlers DEF EndsAs
<1> QED
  BY <1>1, <1>2, <1>3

LEMMA CallHandlerKeeps == ASSUME AjaxInv, CallHandler PROVE AjaxInv'
<1>1. AjaxTypes /\ DoneOnce /\ ActiveIsExact /\ \A q \in Requests : EndIsRight(q)
  BY DEF AjaxInv
<1>2. /\ jqXHR \in [Requests -> XHR] /\ ajaxFrames \in Seq(DoneFrame)
      /\ active' = active /\ thrown' = thrown /\ ajaxFrames # << >>
  BY <1>1 DEF AjaxTypes, CallHandler, AjaxInControl
<1> DEFINE top == Last(ajaxFrames)
           f == [top EXCEPT !.running = TRUE, !.todo = Tail(@)]
<1>3. /\ Len(ajaxFrames) \in DOMAIN ajaxFrames /\ top = ajaxFrames[Len(ajaxFrames)]
      /\ top \in DoneFrame /\ top.request \in Requests
  <2>1. Len(ajaxFrames) \in 1 .. Len(ajaxFrames) /\ Len(ajaxFrames) \in DOMAIN ajaxFrames
    BY <1>2, LenProperties, EmptySeq
  <2>2. top = ajaxFrames[Len(ajaxFrames)]
    BY DEF Last
  <2>3. ajaxFrames[Len(ajaxFrames)] \in DoneFrame
    BY <1>2, <2>1, ElementOfSeq
  <2> QED
    BY <2>1, <2>2, <2>3 DEF DoneFrame
<1>4. PICK r \in Requests : r = top.request
  BY <1>3
<1> DEFINE h == Append(jqXHR[r].heard, Head(top.todo))
<1>5. /\ top.todo # << >> /\ SetAjaxTop(f)
      /\ jqXHR' = [jqXHR EXCEPT ![r].heard = h]
  BY <1>4 DEF CallHandler
<1>6. /\ EndsAs(jqXHR[r].heard, top.todo, jqXHR[r].dataType)
      /\ jqXHR[r] \in XHR /\ r \in InDone /\ jqXHR[r].state = 2
  BY <1>1, <1>2, <1>3, <1>4 DEF EndIsRight, InDone
<1>7. /\ EndsAs(h, Tail(top.todo), jqXHR[r].dataType)
      /\ h \in Seq(Handler) /\ Tail(top.todo) \in Seq(Handler)
  BY <1>5, <1>6, HandlerHeard
<1>8. f \in DoneFrame /\ f.request = r /\ f.todo = Tail(top.todo)
  BY <1>3, <1>7, <1>4 DEF DoneFrame
<1> HIDE DEF top, f, h
<1>9. /\ ajaxFrames' \in Seq(DoneFrame)
      /\ DOMAIN ajaxFrames' = DOMAIN ajaxFrames
      /\ ajaxFrames'[Len(ajaxFrames)] = f
      /\ \A i \in DOMAIN ajaxFrames : i # Len(ajaxFrames) => ajaxFrames'[i] = ajaxFrames[i]
      /\ \A i \in DOMAIN ajaxFrames : ajaxFrames'[i].request = ajaxFrames[i].request
      /\ InDone' = InDone
  BY <1>2, <1>5, <1>8, <1>4, TopChanged DEF top
<1>10. /\ jqXHR' \in [Requests -> XHR]
       /\ \A q \in Requests : q # r => jqXHR'[q] = jqXHR[q]
       /\ jqXHR'[r].heard = h /\ jqXHR'[r].state = 2
       /\ jqXHR'[r].dataType = jqXHR[r].dataType
       /\ jqXHR'[r].callback = jqXHR[r].callback /\ jqXHR'[r].timer = jqXHR[r].timer
  BY <1>2, <1>5, <1>3, <1>6, <1>7 DEF XHR, XHRWith
<1>11. AjaxTypes' /\ DoneOnce'
  BY <1>1, <1>2, <1>9, <1>10 DEF AjaxTypes, DoneOnce
<1>12. EndIsRight(r)'
  <2>1. \A i \in DOMAIN ajaxFrames' : ajaxFrames'[i].request = r => i = Len(ajaxFrames)
    BY <1>1, <1>3, <1>9, <1>4 DEF DoneOnce
  <2>2. r \notin thrown
    BY <1>1, <1>6 DEF DoneOnce
  <2>3. ~ jqXHR[r].callback /\ ~ jqXHR[r].timer
    BY <1>1, <1>3, <1>6 DEF EndIsRight
  <2>4. \A i \in DOMAIN ajaxFrames' : ajaxFrames'[i].request = r =>
          EndsAs(jqXHR'[r].heard, ajaxFrames'[i].todo, jqXHR'[r].dataType)
    BY <1>7, <1>8, <1>9, <1>10, <2>1
  <2>5. jqXHR'[r].state = 2 /\ ~ jqXHR'[r].callback /\ ~ jqXHR'[r].timer
    BY <1>10, <2>3
  <2>6. r \in InDone' /\ r \notin thrown'
    BY <1>2, <1>6, <1>9, <2>2
  <2> QED
    BY <2>4, <2>5, <2>6 DEF EndIsRight
<1>13. ASSUME NEW q \in Requests, q # r PROVE EndIsRight(q)'
  <2>1. EndIsRight(q)
    BY <1>1
  <2>2. \A i \in DOMAIN ajaxFrames' :
          ajaxFrames'[i].request = q => ajaxFrames'[i] = ajaxFrames[i]
    BY <1>3, <1>8, <1>9, <1>13, <1>4
  <2> QED
    BY <1>2, <1>9, <1>10, <1>13, <2>1, <2>2 DEF EndIsRight
<1>14. ActiveIsExact'
  <2>1. Running' = Running
    <3>1. \A q \in Requests : jqXHR'[q].state = jqXHR[q].state
      BY <1>6, <1>10
    <3> QED
      BY <3>1 DEF Running
  <2>2. Ended' = Ended
    BY <1>2, <1>9 DEF Ended
  <2> QED
    BY <1>1, <1>2, <2>1, <2>2, SameSets
<1>15. \A q \in Requests : EndIsRight(q)'
  BY <1>12, <1>13
<1> QED
  BY <1>11, <1>14, <1>15 DEF AjaxInv

LEMMA HandlerReturnsKeeps == ASSUME AjaxInv, HandlerReturns PROVE AjaxInv'
<1>1. AjaxTypes /\ DoneOnce /\ ActiveIsExact /\ \A q \in Requests : EndIsRight(q)
  BY DEF AjaxInv
<1> DEFINE top == Last(ajaxFrames)
           f == [top EXCEPT !.running = FALSE]
<1>2. /\ jqXHR' = jqXHR /\ active' = active /\ thrown' = thrown /\ ajaxFrames # << >>
      /\ SetAjaxTop(f) /\ ajaxFrames \in Seq(DoneFrame)
  BY <1>1 DEF HandlerReturns, AjaxTypes
<1>3. top \in DoneFrame
  BY <1>2, LenProperties, EmptySeq, ElementOfSeq DEF Last
<1>4. f \in DoneFrame /\ f.request = top.request /\ f.todo = top.todo
  BY <1>3 DEF DoneFrame
<1> HIDE DEF top, f
<1>5. /\ ajaxFrames' \in Seq(DoneFrame)
      /\ Len(ajaxFrames) \in DOMAIN ajaxFrames /\ top = ajaxFrames[Len(ajaxFrames)]
      /\ DOMAIN ajaxFrames' = DOMAIN ajaxFrames
      /\ ajaxFrames'[Len(ajaxFrames)] = f
      /\ \A i \in DOMAIN ajaxFrames : i # Len(ajaxFrames) => ajaxFrames'[i] = ajaxFrames[i]
      /\ \A i \in DOMAIN ajaxFrames : ajaxFrames'[i].request = ajaxFrames[i].request
      /\ InDone' = InDone
  BY <1>2, <1>4, TopChanged DEF top
<1>6. \A i \in DOMAIN ajaxFrames : ajaxFrames'[i].todo = ajaxFrames[i].todo
  BY <1>4, <1>5
<1>7. AjaxTypes' /\ DoneOnce'
  BY <1>1, <1>2, <1>5 DEF AjaxTypes, DoneOnce
<1>8. ASSUME NEW q \in Requests PROVE EndIsRight(q)'
  <2>1. EndIsRight(q)
    BY <1>1
  <2> QED
    BY <1>2, <1>5, <1>6, <2>1 DEF EndIsRight
<1>9. ActiveIsExact'
  BY <1>1, <1>2, <1>5 DEF ActiveIsExact
<1> QED
  BY <1>7, <1>8, <1>9 DEF AjaxInv

LEMMA HandlerThrowsKeeps == ASSUME AjaxInv, HandlerThrows PROVE AjaxInv'
<1>1. AjaxTypes /\ DoneOnce /\ ActiveIsExact /\ \A q \in Requests : EndIsRight(q)
  BY DEF AjaxInv
<1>2. /\ jqXHR' = jqXHR /\ active' = active /\ ajaxFrames' = << >>
      /\ thrown' = thrown \cup InDone
  BY DEF HandlerThrows, InDone
<1>3. InDone' = {} /\ DOMAIN ajaxFrames' = {}
  BY <1>2 DEF InDone
<1>4. Running' = Running /\ Ended' = Ended
  BY <1>2, <1>3 DEF Running, Ended
<1>5. AjaxTypes'
  <2>1. << >> \in Seq(DoneFrame)
    OBVIOUS
  <2>2. InDone \subseteq Requests
    BY <1>1, SetsAreFinite DEF Ended
  <2> QED
    BY <1>1, <1>2, <2>1, <2>2 DEF AjaxTypes
<1>6. DoneOnce' /\ ActiveIsExact'
  BY <1>1, <1>2, <1>3, <1>4, SameSets DEF DoneOnce
<1>7. ASSUME NEW q \in Requests PROVE EndIsRight(q)'
  <2>1. EndIsRight(q)
    BY <1>1
  <2>2. q \in thrown' => CutShort(jqXHR[q].heard, jqXHR[q].dataType)
    <3>1. CASE q \in InDone
      BY <2>1, <3>1 DEF InDone, EndIsRight, EndsAs, CutShort
    <3>2. CASE q \notin InDone
      BY <1>2, <2>1, <3>2 DEF EndIsRight
    <3> QED
      BY <3>1, <3>2
  <2> QED
    BY <1>2, <1>3, <2>1, <2>2 DEF EndIsRight
<1> QED
  BY <1>5, <1>6, <1>7 DEF AjaxInv

LEMMA DoneEndsKeeps == ASSUME AjaxInv, DoneEnds PROVE AjaxInv'
<1>1. AjaxTypes /\ DoneOnce /\ ActiveIsExact /\ \A q \in Requests : EndIsRight(q)
  BY DEF AjaxInv
<1> DEFINE top == Last(ajaxFrames)
           r == top.request
<1>2. /\ jqXHR' = jqXHR /\ active' = active - 1 /\ thrown' = thrown /\ ajaxFrames # << >>
      /\ ajaxFrames' = Front(ajaxFrames) /\ ajaxFrames \in Seq(DoneFrame) /\ top.todo = << >>
  BY <1>1 DEF DoneEnds, AjaxInControl, AjaxTypes
<1> HIDE DEF top
<1>3. /\ ajaxFrames' \in Seq(DoneFrame)
      /\ Len(ajaxFrames) \in DOMAIN ajaxFrames /\ top = ajaxFrames[Len(ajaxFrames)]
      /\ top \in DoneFrame
      /\ \A i \in DOMAIN ajaxFrames' : i \in DOMAIN ajaxFrames /\ ajaxFrames'[i] = ajaxFrames[i]
      /\ r \in InDone /\ InDone' = InDone \ {r}
  BY <1>1, <1>2, TopGone DEF top
<1>4. r \notin thrown /\ Ended' = Ended \ {r} /\ r \in Ended
  BY <1>1, <1>2, <1>3 DEF DoneOnce, Ended
<1>5. AjaxTypes' /\ DoneOnce'
  BY <1>1, <1>2, <1>3 DEF AjaxTypes, DoneOnce
<1>6. ASSUME NEW q \in Requests PROVE EndIsRight(q)'
  <2>1. EndIsRight(q)
    BY <1>1
  <2>2. \A i \in DOMAIN ajaxFrames' : ajaxFrames'[i].request = q =>
          EndsAs(jqXHR[q].heard, ajaxFrames'[i].todo, jqXHR[q].dataType)
    BY <1>3, <2>1 DEF EndIsRight
  <2>3. CASE q = r
    <3>1. EndsAs(jqXHR[q].heard, << >>, jqXHR[q].dataType)
      BY <1>2, <1>3, <2>1, <2>3 DEF EndIsRight
    <3> QED
      BY <1>2, <1>3, <1>4, <2>1, <2>2, <2>3, <3>1 DEF EndIsRight
  <2>4. CASE q # r
    BY <1>2, <1>3, <2>1, <2>2, <2>4 DEF EndIsRight
  <2> QED
    BY <2>3, <2>4
<1>7. ActiveIsExact'
  <2>1. Running' = Running
    BY <1>2 DEF Running
  <2>2. IsFiniteSet(Ended) /\ Cardinality(Running) \in Nat /\ Cardinality(Ended) \in Nat
    BY <1>1, SetsAreFinite
  <2>3. Cardinality(Ended') = Cardinality(Ended) - 1
    BY <1>4, <2>2, FS_RemoveElement
  <2>4. active = Cardinality(Running) + Cardinality(Ended)
    BY <1>1, ActiveSums
  <2>5. active' = Cardinality(Running') + Cardinality(Ended')
    BY <1>2, <2>1, <2>2, <2>3, <2>4
  <2> QED
    BY <2>5 DEF ActiveIsExact, Running, Ended
<1> QED
  BY <1>5, <1>6, <1>7 DEF AjaxInv

-----------------------------------------------------------------------------
LEMMA AjaxInitInv == AjaxInit => AjaxInv
<1> SUFFICES ASSUME AjaxInit PROVE AjaxInv
  OBVIOUS
<1>1. /\ jqXHR = [r \in Requests |-> NotSent] /\ active = 0 /\ ajaxFrames = << >>
      /\ thrown = {} /\ InDone = {}
  BY DEF AjaxInit, InDone
<1>2. AjaxTypes
  <2>1. << >> \in Seq(Handler) /\ << >> \in Seq(DoneFrame)
    OBVIOUS
  <2>2. NotSent \in XHR
    BY <2>1, NotSentIs DEF XHR
  <2> QED
    BY <1>1, <2>1, <2>2 DEF AjaxTypes
<1>3. DoneOnce
  BY <1>1 DEF DoneOnce
<1>4. \A r \in Requests : EndIsRight(r)
  <2>1. NotSent.state = 0 /\ NotSent.heard = << >> /\ ~ NotSent.callback /\ ~ NotSent.timer
    BY DEF NotSent
  <2>2. DOMAIN ajaxFrames = {}
    BY <1>1
  <2> QED
    BY <1>1, <2>1, <2>2 DEF EndIsRight
<1>5. ActiveIsExact
  <2>1. Running = {} /\ Ended = {}
    BY <1>1 DEF Running, Ended, NotSent
  <2>2. Cardinality({}) = 0
    BY FS_EmptySet
  <2> QED
    BY <1>1, <2>1, <2>2, ActiveSums
<1> QED
  BY <1>2, <1>3, <1>4, <1>5 DEF AjaxInv

LEMMA AjaxStep == ASSUME AjaxInv, [AjaxNext]_ajaxVars PROVE AjaxInv'
<1>1. CASE ajax
  BY <1>1, ajaxKeeps
<1>2. CASE Abort
  BY <1>2, AbortKeeps
<1>3. CASE Timeout
  BY <1>3, TimeoutKeeps
<1>4. CASE Answer
  BY <1>4, AnswerKeeps
<1>5. CASE CallHandler
  BY <1>5, CallHandlerKeeps
<1>6. CASE HandlerReturns
  BY <1>6, HandlerReturnsKeeps
<1>7. CASE HandlerThrows
  BY <1>7, HandlerThrowsKeeps
<1>8. CASE DoneEnds
  BY <1>8, DoneEndsKeeps
<1>9. CASE UNCHANGED ajaxVars
  BY <1>9, AjaxUnchanged
<1> QED
  BY <1>1, <1>2, <1>3, <1>4, <1>5, <1>6, <1>7, <1>8, <1>9 DEF AjaxNext

(* What was heard of a request, as names.                                   *)
LEMMA HeardInOrder ==
  ASSUME NEW heard, NEW dataType, CutShort(heard, dataType)
  PROVE  LET names == [i \in DOMAIN heard |-> heard[i].handler]
         IN  /\ \E first \in {"success", "error"} : IsPrefix(names, <<first, "complete">>)
             /\ EndsAs(heard, << >>, dataType) => Len(names) = 2
             /\ dataType # "*" => \A i \in DOMAIN heard : heard[i].data \in {dataType, "none"}
<1> DEFINE names == [i \in DOMAIN heard |-> heard[i].handler]
<1>1. PICK first \in Firsts(dataType) : heard \in {<< >>, <<first>>, <<first, Complete>>}
  BY DEF CutShort
<1>2. first.handler \in {"success", "error"} /\ Complete.handler = "complete"
      /\ Complete.data = "none" /\ (dataType # "*" => first.data \in {dataType, "none"})
  BY DEF Firsts, Complete
<1>3. names \in {<< >>, <<first.handler>>, <<first.handler, "complete">>}
  BY <1>1, <1>2
<1>4. IsPrefix(names, <<first.handler, "complete">>)
  <2> DEFINE both == <<first.handler, "complete">>
  <2>1. CASE names = << >>
    <3>1. Len(names) = 0 /\ SubSeq(names, 1, 0) = << >> /\ SubSeq(both, 1, 0) = << >>
      BY <2>1
    <3> QED
      BY <3>1 DEF IsPrefix
  <2>2. CASE names = <<first.handler>>
    <3> DEFINE one == SubSeq(names, 1, 1)
               other == SubSeq(both, 1, 1)
    <3>1. names[1] \in {first.handler} /\ both[1] \in {first.handler}
      BY <2>2
    <3>2. \A i \in 1 .. 1 : names[i] \in {first.handler} /\ both[i] \in {first.handler}
      BY <3>1
    <3>3. /\ one \in Seq({first.handler}) /\ Len(one) = 1 /\ one[1] = names[1]
          /\ other \in Seq({first.handler}) /\ Len(other) = 1 /\ other[1] = both[1]
      BY <3>2, SubSeqProperties
    <3>4. Len(names) = 1 /\ Len(both) = 2
      BY <2>2
    <3> HIDE DEF one, other, names, both
    <3>5. \A i \in 1 .. 1 : one[i] = other[i]
      BY <3>1, <3>3
    <3>6. one = other
      BY <3>3, <3>5, SeqEqual
    <3>7. IsPrefix(names, both)
      BY <3>4, <3>6 DEF IsPrefix, one, other
    <3> QED
      BY <3>7 DEF both
  <2>3. CASE names = both
    <3>1. Len(names) = 2 /\ Len(both) = 2
      BY <2>3
    <3> QED
      BY <2>3, <3>1 DEF IsPrefix
  <2> QED
    BY <1>3, <2>1, <2>2, <2>3
<1>5. EndsAs(heard, << >>, dataType) => Len(names) = 2
  BY DEF EndsAs
<1>6. dataType # "*" => \A i \in DOMAIN heard : heard[i].data \in {dataType, "none"}
  BY <1>1, <1>2
<1> QED
  BY <1>2, <1>4, <1>5, <1>6

(* For any number of requests, any answers and any order of answers,        *)
(* timeouts, aborts and handlers that send, abort or throw: a request ends  *)
(* once, with one of success and error and then complete, jQuery.active     *)
(* counts exactly what has not ended, and who asked for a type gets that    *)
(* type or nothing.                                                         *)
THEOREM RequestsEndRightHolds == AjaxSpec => []RequestsEndRight
<1>1. AjaxInv => RequestsEndRight
  <2> SUFFICES ASSUME AjaxInv PROVE EndsOnce /\ DataIsAsAsked
    BY DEF AjaxInv, RequestsEndRight
  <2>1. ASSUME NEW r \in Requests PROVE CutShort(jqXHR[r].heard, jqXHR[r].dataType)
    <3>1. EndIsRight(r)
      BY DEF AjaxInv
    <3>2. jqXHR[r].dataType \in DataTypes /\ jqXHR[r].state \in 0 .. 2
      BY DEF AjaxInv, AjaxTypes, XHR, XHRWith
    <3>3. CASE jqXHR[r].state # 2
      BY <3>1, <3>2, <3>3, ErrorAsAsked DEF EndIsRight, CutShort
    <3>4. CASE r \in InDone
      BY <3>1, <3>4 DEF InDone, EndIsRight, EndsAs, CutShort
    <3>5. CASE r \in thrown
      BY <3>1, <3>5 DEF EndIsRight
    <3>6. CASE jqXHR[r].state = 2 /\ r \notin InDone \cup thrown
      BY <3>1, <3>6 DEF EndIsRight, EndsAs, CutShort
    <3> QED
      BY <3>3, <3>4, <3>5, <3>6
  <2>2. DataIsAsAsked
    BY <2>1, HeardInOrder DEF DataIsAsAsked
  <2>3. ASSUME NEW r \in Requests
        PROVE  LET names == [i \in DOMAIN jqXHR[r].heard |-> jqXHR[r].heard[i].handler]
               IN  /\ \E first \in {"success", "error"} : IsPrefix(names, <<first, "complete">>)
                   /\ jqXHR[r].state = 2 => ~ jqXHR[r].callback /\ ~ jqXHR[r].timer
                   /\ jqXHR[r].state = 2 /\ r \notin InDone \cup thrown => Len(names) = 2
    <3> DEFINE names == [i \in DOMAIN jqXHR[r].heard |-> jqXHR[r].heard[i].handler]
    <3>1. EndIsRight(r)
      BY DEF AjaxInv
    <3>2. jqXHR[r].state = 2 => ~ jqXHR[r].callback /\ ~ jqXHR[r].timer
      BY <3>1 DEF EndIsRight
    <3>3. jqXHR[r].state = 2 /\ r \notin InDone \cup thrown =>
            EndsAs(jqXHR[r].heard, << >>, jqXHR[r].dataType)
      BY <3>1 DEF EndIsRight
    <3>4. /\ \E first \in {"success", "error"} : IsPrefix(names, <<first, "complete">>)
          /\ EndsAs(jqXHR[r].heard, << >>, jqXHR[r].dataType) => Len(names) = 2
      BY <2>1, HeardInOrder
    <3> QED
      BY <3>2, <3>3, <3>4
  <2> QED
    BY <2>2, <2>3 DEF EndsOnce
<1> QED
  BY <1>1, AjaxInitInv, AjaxStep, PTL DEF AjaxSpec

-----------------------------------------------------------------------------
(* Ready blocks.                                                            *)

ReadyTypes ==
  /\ readyState \in {"loading", "interactive", "complete"}
  /\ body \in BOOLEAN /\ isReady \in BOOLEAN /\ listening \in BOOLEAN
  /\ readyList \in {"none", "open", "resolved"}
  /\ readyWait \in Int /\ readyTimers \in Nat /\ holds \in Nat

(* jQuery.readyWait counts the holds, and the document while it is awaited; *)
(* nobody calls jQuery.ready before the document is parsed.                 *)
WaitIsExact ==
  /\ readyWait = holds + (IF isReady THEN 0 ELSE 1)
  /\ readyTimers > 0 => readyState # "loading"
  /\ isReady => body /\ readyState # "loading"

Once(q, times) ==
  /\ \A i, j \in DOMAIN q : q[i] = q[j] => i = j
  /\ \A i \in DOMAIN q : times[q[i]] = 0

(* A block waits, is due or has run: one of them, and once.                 *)
BlocksOnce ==
  /\ ran \in [Blocks -> 0 .. 1]
  /\ waiting \in Seq(Blocks) /\ due \in Seq(Blocks)
  /\ readyList # "open" => waiting = << >>
  /\ readyList # "resolved" => due = << >>
  /\ Once(waiting, ran) /\ Once(due, ran)

ReadyInv == ReadyTypes /\ WaitIsExact /\ BlocksOnce

-----------------------------------------------------------------------------
(* What jQuery.ready does, called once the document is parsed: the counting *)
(* goes on, and the list is resolved when nothing is held.                  *)
LEMMA ReadyStep ==
  ASSUME ReadyTypes, WaitIsExact, NEW left \in Nat, ready(left),
         body' = body, readyState' # "loading", holds' = holds
  PROVE  /\ isReady' \in BOOLEAN /\ readyWait' \in Int /\ readyTimers' \in Nat
         /\ WaitIsExact'
         /\ \/ UNCHANGED listVars
            \/ resolveReady /\ body' /\ holds' = 0
<1>1. CASE isReady
  BY <1>1 DEF ready, ReadyTypes, WaitIsExact
<1>2. CASE ~ isReady /\ ~ body
  BY <1>2 DEF ready, ReadyTypes, WaitIsExact
<1>3. CASE ~ isReady /\ body
  <2>1. readyWait = holds + 1 /\ holds \in Nat
    BY <1>3 DEF WaitIsExact, ReadyTypes
  <2>2. isReady' = TRUE /\ readyWait' = readyWait - 1 /\ readyTimers' = left
    BY <1>3 DEF ready
  <2>3. IF readyWait > 1 THEN UNCHANGED listVars ELSE resolveReady
    BY <1>3 DEF ready
  <2>4. WaitIsExact'
    BY <2>1, <2>2, <1>3 DEF WaitIsExact
  <2>5. readyWait > 1 \/ holds = 0
    BY <2>1
  <2> QED
    BY <2>1, <2>2, <2>3, <2>4, <2>5, <1>3
<1> QED
  BY <1>1, <1>2, <1>3 DEF ReadyTypes

(* And what jQuery.ready(true) does when a hold is released.                *)
LEMMA ReleaseStep ==
  ASSUME ReadyTypes, WaitIsExact, holds > 0, readyReleased,
         UNCHANGED domVars, holds' = holds - 1
  PROVE  /\ isReady' \in BOOLEAN /\ readyWait' \in Int /\ readyTimers' \in Nat
         /\ WaitIsExact'
         /\ \/ UNCHANGED listVars
            \/ resolveReady /\ readyState' # "loading" /\ body' /\ holds' = 0
<1>1. /\ readyWait' = readyWait - 1 /\ holds \in Nat
      /\ readyWait = holds + (IF isReady THEN 0 ELSE 1)
      /\ body' = body /\ readyState' = readyState
  BY DEF readyReleased, WaitIsExact, ReadyTypes, domVars
<1>2. CASE readyWait > 1
  <2>1. UNCHANGED <<isReady, readyTimers, listVars>>
    BY <1>2 DEF readyReleased
  <2> QED
    BY <1>1, <2>1 DEF WaitIsExact, ReadyTypes
<1>3. CASE ~ readyWait > 1
  <2>1. isReady /\ holds = 1
    BY <1>1, <1>3 DEF ReadyTypes
  <2>2. body /\ readyState # "loading"
    BY <2>1 DEF WaitIsExact
  <2>3. isReady' = TRUE /\ readyTimers' = readyTimers /\ resolveReady
    BY <1>3, <2>2 DEF readyReleased
  <2> QED
    BY <1>1, <2>1, <2>2, <2>3 DEF WaitIsExact, ReadyTypes
<1> QED
  BY <1>2, <1>3

(* Resolving the list makes due what waited, unless it is resolved already. *)
LEMMA ResolveKeeps ==
  ASSUME BlocksOnce, NothingFires, ran' = ran, resolveReady \/ UNCHANGED listVars
  PROVE  BlocksOnce' /\ (readyList' \in {readyList, "resolved"})
<1>1. CASE UNCHANGED listVars
  BY <1>1 DEF BlocksOnce, Once, listVars
<1>2. CASE resolveReady
  <2>1. due' = waiting
    <3>1. << >> \o waiting = waiting
      BY ConcatEmptySeq DEF BlocksOnce
    <3> QED
      BY <1>2, <3>1 DEF resolveReady, NothingFires
  <2>2. waiting' = << >> /\ readyList' = "resolved"
    BY <1>2 DEF resolveReady
  <2>3. Once(<< >>, ran)'
    BY DEF Once
  <2>4. Once(waiting, ran)' /\ Once(due, ran)'
    BY <2>1, <2>2 DEF Once, BlocksOnce
  <2>5. << >> \in Seq(Blocks)
    OBVIOUS
  <2> QED
    BY <2>1, <2>2, <2>4, <2>5 DEF BlocksOnce
<1> QED
  BY <1>1, <1>2

(* A block not asked for before may join a queue.                           *)
LEMMA JoinsOnce ==
  ASSUME NEW q \in Seq(Blocks), NEW times, Once(q, times), times \in [Blocks -> 0 .. 1],
         NEW b \in Blocks, times[b] = 0, \A i \in DOMAIN q : q[i] # b
  PROVE  Append(q, b) \in Seq(Blocks) /\ Once(Append(q, b), times)
<1>1. /\ Append(q, b) \in Seq(Blocks)
      /\ DOMAIN Append(q, b) = 1 .. Len(q) + 1 /\ DOMAIN q = 1 .. Len(q)
      /\ \A i \in 1 .. Len(q) : Append(q, b)[i] = q[i]
      /\ Append(q, b)[Len(q) + 1] = b
  OBVIOUS
<1>2. Len(q) \in Nat
  OBVIOUS
<1>3. \A i \in 1 .. Len(q) + 1 : i \in 1 .. Len(q) \/ i = Len(q) + 1
  BY <1>2
<1>4. \A i \in DOMAIN Append(q, b) : times[Append(q, b)[i]] = 0
  BY <1>1, <1>3 DEF Once
<1>5. \A i, j \in DOMAIN Append(q, b) : Append(q, b)[i] = Append(q, b)[j] => i = j
  BY <1>1, <1>3 DEF Once
<1> QED
  BY <1>1, <1>4, <1>5 DEF Once

(* The head of a queue leaves it.                                           *)
LEMMA HeadLeaves ==
  ASSUME NEW q \in Seq(Blocks), NEW before \in [Blocks -> 0 .. 1],
         NEW times \in [Blocks -> Int], q # << >>, Once(q, before),
         times[Head(q)] = before[Head(q)] + 1,
         \A b \in Blocks \ {Head(q)} : times[b] = before[b]
  PROVE  /\ Tail(q) \in Seq(Blocks)
         /\ Once(Tail(q), times)
         /\ times \in [Blocks -> 0 .. 1]
         /\ before[Head(q)] = 0 /\ Head(q) \in Blocks
         /\ \A i \in DOMAIN Tail(q) : \E j \in DOMAIN q : Tail(q)[i] = q[j]
<1>1. /\ Tail(q) \in Seq(Blocks) /\ Len(q) \in Nat \ {0} /\ DOMAIN q = 1 .. Len(q)
      /\ DOMAIN Tail(q) = 1 .. Len(q) - 1 /\ Head(q) = q[1] /\ q[1] \in Blocks
      /\ \A i \in 1 .. Len(q) - 1 : Tail(q)[i] = q[i + 1]
  BY EmptySeq
<1>2. \A i \in 1 .. Len(q) - 1 : i + 1 \in DOMAIN q /\ 1 \in DOMAIN q /\ i + 1 # 1
  BY <1>1
<1>3. before[Head(q)] = 0
  BY <1>1 DEF Once
<1>4. times \in [Blocks -> 0 .. 1]
  BY <1>1, <1>3
<1>5. \A i \in DOMAIN Tail(q) : Tail(q)[i] \in Blocks /\ Tail(q)[i] # Head(q)
  BY <1>1, <1>2 DEF Once
<1>6. \A i \in DOMAIN Tail(q) : times[Tail(q)[i]] = 0
  BY <1>1, <1>2, <1>5 DEF Once
<1>7. \A i, j \in DOMAIN Tail(q) : Tail(q)[i] = Tail(q)[j] => i = j
  <2> TAKE i, j \in DOMAIN Tail(q)
  <2> HAVE Tail(q)[i] = Tail(q)[j]
  <2>1. i \in 1 .. Len(q) - 1 /\ j \in 1 .. Len(q) - 1
    BY ONLY <1>1
  <2>2. i + 1 \in DOMAIN q /\ j + 1 \in DOMAIN q /\ q[i + 1] = q[j + 1]
    BY <1>1, <1>2, <2>1
  <2>3. i + 1 = j + 1
    BY <2>2 DEF Once
  <2> QED
    BY <2>1, <2>3
<1> QED
  BY <1>1, <1>2, <1>3, <1>4, <1>6, <1>7 DEF Once

-----------------------------------------------------------------------------
LEMMA ReadyInvInit == ReadyInit => ReadyInv
<1> SUFFICES ASSUME ReadyInit PROVE ReadyInv
  OBVIOUS
<1>1. ReadyTypes
  <2>1. readyWait = 1 /\ readyTimers = 0 /\ holds = 0
    BY DEF ReadyInit
  <2>2. readyWait \in Int /\ readyTimers \in Nat /\ holds \in Nat
    BY <2>1
  <2> QED
    BY <2>2 DEF ReadyInit, ReadyTypes
<1>4. WaitIsExact
  BY DEF ReadyInit, WaitIsExact
<1>2. << >> \in Seq(Blocks)
  OBVIOUS
<1>3. BlocksOnce
  BY <1>2 DEF ReadyInit, BlocksOnce, Once
<1> QED
  BY <1>1, <1>3, <1>4 DEF ReadyInv

(* Who lets the blocks go does so in a document that nobody holds.          *)
LetGo ==
  readyList' = "resolved" /\ readyList # "resolved" =>
    readyState' # "loading" /\ body' /\ holds' = 0

LEMMA ReadyInvStep == ReadyInv /\ [ReadyNext]_readyVars => ReadyInv' /\ LetGo
<1> SUFFICES ASSUME ReadyInv, [ReadyNext]_readyVars PROVE ReadyInv' /\ LetGo
  OBVIOUS
<1> USE DEF ReadyInv
<1>1. CASE Ready
  <2>1. PICK b \in Blocks \ Asked :
          /\ promise
          /\ IF readyList = "resolved"
             THEN due' = <<b>> /\ UNCHANGED <<readyList, waiting>>
             ELSE readyList' = "open" /\ waiting' = Append(waiting, b) /\ UNCHANGED due
    BY <1>1 DEF Ready
  <2>2. UNCHANGED <<domVars, isReady, readyWait, ran, holds, holdsMade>> /\ NothingFires
    BY <1>1 DEF Ready
  <2>3. /\ listening' \in BOOLEAN /\ readyTimers' \in Nat
        /\ readyTimers' > 0 => readyTimers > 0 \/ readyState = "complete"
    <3>1. readyTimers \in Nat /\ listening \in BOOLEAN
      BY DEF ReadyTypes
    <3>2. CASE readyList # "none"
      BY <2>1, <3>1, <3>2 DEF promise
    <3>3. CASE readyList = "none" /\ readyState = "complete"
      BY <2>1, <3>1, <3>3 DEF promise
    <3>4. CASE readyList = "none" /\ readyState # "complete"
      BY <2>1, <3>1, <3>4 DEF promise
    <3> QED
      BY <3>2, <3>3, <3>4
  <2>4. readyList' \in {"open", "resolved"} /\ (readyList' = "resolved" => readyList = "resolved")
    BY <2>1
  <2>5. ReadyTypes'
    BY <2>2, <2>3, <2>4 DEF ReadyTypes, domVars
  <2>6. WaitIsExact'
    BY <2>2, <2>3 DEF WaitIsExact, ReadyTypes, domVars
  <2>7. ran \in [Blocks -> 0 .. 1] /\ ran' = ran
    BY <2>2 DEF BlocksOnce
  <2>8. /\ ran[b] = 0
        /\ \A i \in DOMAIN waiting : waiting[i] # b
        /\ \A i \in DOMAIN due : due[i] # b
    BY <2>1, <2>7 DEF Asked
  <2>9. BlocksOnce'
    <3>1. CASE readyList = "resolved"
      <4>1. due' = <<b>> /\ readyList' = readyList /\ waiting' = waiting
        BY <2>1, <3>1
      <4>2. <<b>> \in Seq(Blocks)
        BY <2>1
      <4>3. Once(due, ran)'
        BY <4>1, <2>7, <2>8 DEF Once
      <4>4. Once(waiting, ran)'
        BY <4>1, <2>7 DEF Once, BlocksOnce
      <4> QED
        BY <3>1, <4>1, <4>2, <4>3, <4>4, <2>7 DEF BlocksOnce
    <3>2. CASE readyList # "resolved"
      <4>1. due' = due /\ readyList' = "open" /\ waiting' = Append(waiting, b)
        BY <2>1, <3>2
      <4>2. Append(waiting, b) \in Seq(Blocks) /\ Once(Append(waiting, b), ran)
        BY JoinsOnce, <2>1, <2>7, <2>8 DEF BlocksOnce
      <4>3. Once(waiting, ran)'
        BY <4>1, <4>2, <2>7 DEF Once
      <4>4. Once(due, ran)'
        BY <4>1, <2>7 DEF Once, BlocksOnce
      <4> QED
        BY <3>2, <4>1, <4>2, <4>3, <4>4, <2>7 DEF BlocksOnce
    <3> QED
      BY <3>1, <3>2
  <2>10. LetGo
    BY <2>4 DEF LetGo
  <2> QED
    BY <2>5, <2>6, <2>9, <2>10
<1>2. CASE Hold
  <2>1. BlocksOnce'
    BY <1>2 DEF Hold, BlocksOnce, Once, listVars
  <2>2. ReadyTypes' /\ WaitIsExact'
    BY <1>2 DEF Hold, ReadyTypes, WaitIsExact, domVars, listVars
  <2>3. LetGo
    BY <1>2 DEF Hold, LetGo, listVars
  <2> QED
    BY <2>1, <2>2, <2>3
<1>3. CASE Release
  <2>1. /\ NothingFires /\ holds > 0 /\ readyReleased /\ holds' = holds - 1
        /\ UNCHANGED <<domVars, listening, ran, holdsMade>>
    BY <1>3 DEF Release
  <2>2. /\ isReady' \in BOOLEAN /\ readyWait' \in Int /\ readyTimers' \in Nat
        /\ WaitIsExact'
        /\ \/ UNCHANGED listVars
           \/ resolveReady /\ readyState' # "loading" /\ body' /\ holds' = 0
    BY ReleaseStep, <2>1
  <2>3. BlocksOnce' /\ readyList' \in {readyList, "resolved"}
    BY ResolveKeeps, <2>1, <2>2
  <2>4. ReadyTypes'
    BY <2>1, <2>2, <2>3 DEF ReadyTypes, domVars
  <2>5. LetGo
    BY <2>2 DEF LetGo, listVars
  <2> QED
    BY <2>2, <2>3, <2>4, <2>5
<1>4. CASE RunBlock
  <2>1. /\ due # << >> /\ ran' = [ran EXCEPT ![Head(due)] = @ + 1]
        /\ UNCHANGED <<domVars, flagVars, readyList, waiting, listening, holds, holdsMade>>
    BY <1>4 DEF RunBlock
  <2>2. /\ Tail(due) \in Seq(Blocks) /\ Once(Tail(due), ran') /\ ran' \in [Blocks -> 0 .. 1]
        /\ ran[Head(due)] = 0 /\ Head(due) \in Blocks
        /\ \A i \in DOMAIN Tail(due) : \E j \in DOMAIN due : Tail(due)[i] = due[j]
    <3>1. /\ due \in Seq(Blocks) /\ due # << >> /\ Once(due, ran)
          /\ ran \in [Blocks -> 0 .. 1] /\ ran' = [ran EXCEPT ![Head(due)] = @ + 1]
      BY <2>1 DEF BlocksOnce
    <3>2. PICK q \in Seq(Blocks) : q = due
      BY <3>1
    <3>3. PICK before \in [Blocks -> 0 .. 1] : before = ran
      BY <3>1
    <3>4. PICK times \in [Blocks -> Int] : times = ran'
      BY <3>1
    <3>5. /\ q # << >> /\ Once(q, before) /\ times[Head(q)] = before[Head(q)] + 1
          /\ \A b \in Blocks \ {Head(q)} : times[b] = before[b]
      <4>1. Head(q) \in Blocks /\ times = [before EXCEPT ![Head(q)] = @ + 1]
        BY <3>1, <3>2, <3>3, <3>4
      <4> QED
        BY <3>1, <3>2, <3>3, <4>1
    <3>6. /\ Tail(q) \in Seq(Blocks) /\ Once(Tail(q), times) /\ times \in [Blocks -> 0 .. 1]
          /\ before[Head(q)] = 0 /\ Head(q) \in Blocks
          /\ \A i \in DOMAIN Tail(q) : \E j \in DOMAIN q : Tail(q)[i] = q[j]
      BY HeadLeaves, <3>5
    <3> QED
      BY <3>2, <3>3, <3>4, <3>6
  <2>3. waiting = << >> /\ waiting' = << >> /\ readyList' = readyList /\ readyList = "resolved"
    BY <2>1 DEF BlocksOnce
  <2>4. due' \in Seq(Blocks) /\ Once(due, ran)'
    <3>1. CASE due' = Tail(due)
      BY <3>1, <2>2 DEF Once
    <3>2. CASE \E b \in Blocks \ Asked : due' = Append(Tail(due), b)
      <4>1. PICK b \in Blocks \ Asked : due' = Append(Tail(due), b)
        BY <3>2
      <4>2. ran[b] = 0 /\ \A i \in DOMAIN due : due[i] # b
        BY <4>1 DEF Asked, BlocksOnce
      <4>3. Head(due) # b
        <5>1. Head(due) = due[1] /\ 1 \in DOMAIN due
          BY <2>1 DEF BlocksOnce
        <5> QED
          BY <5>1, <4>2
      <4>4. ran'[b] = 0
        BY <2>1, <4>2, <4>3, <4>1 DEF BlocksOnce
      <4>5. \A i \in DOMAIN Tail(due) : Tail(due)[i] # b
        BY <2>2, <4>2
      <4>6. Append(Tail(due), b) \in Seq(Blocks) /\ Once(Append(Tail(due), b), ran')
        BY JoinsOnce, <2>2, <4>1, <4>4, <4>5
      <4> QED
        BY <4>1, <4>6 DEF Once
    <3> QED
      BY <1>4, <3>1, <3>2 DEF RunBlock
  <2>5. Once(waiting, ran)'
    BY <2>3 DEF Once
  <2>6. << >> \in Seq(Blocks)
    OBVIOUS
  <2>7. BlocksOnce'
    BY <2>2, <2>3, <2>4, <2>5, <2>6 DEF BlocksOnce
  <2>8. ReadyTypes' /\ WaitIsExact'
    BY <2>1 DEF ReadyTypes, WaitIsExact, domVars, flagVars
  <2> QED
    BY <2>3, <2>7, <2>8 DEF LetGo
<1>5. CASE DocumentAdvances
  <2>1. /\ NothingFires /\ readyState' \in {"interactive", "complete"} /\ completed
        /\ UNCHANGED <<body, ran, holds, holdsMade>>
    BY <1>5 DEF DocumentAdvances
  <2>2. /\ isReady' \in BOOLEAN /\ readyWait' \in Int /\ readyTimers' \in Nat
        /\ WaitIsExact'
        /\ \/ UNCHANGED listVars
           \/ resolveReady /\ body' /\ holds' = 0
    <3>1. CASE listening
      <4>1. ready(readyTimers) /\ readyTimers \in Nat
        BY <2>1, <3>1 DEF completed, ReadyTypes
      <4> QED
        BY ReadyStep, <2>1, <4>1
    <3>2. CASE ~ listening
      <4>1. UNCHANGED <<flagVars, listVars>>
        BY <2>1, <3>2 DEF completed
      <4> QED
        BY <2>1, <4>1 DEF ReadyTypes, WaitIsExact, flagVars
    <3> QED
      BY <3>1, <3>2
  <2>3. BlocksOnce' /\ readyList' \in {readyList, "resolved"}
    BY ResolveKeeps, <2>1, <2>2
  <2>4. ReadyTypes'
    BY <2>1, <2>2, <2>3 DEF ReadyTypes, completed
  <2>5. LetGo
    BY <2>1, <2>2 DEF LetGo, listVars
  <2> QED
    BY <2>2, <2>3, <2>4, <2>5
<1>6. CASE BodyComes
  <2>1. BlocksOnce'
    BY <1>6 DEF BodyComes, BlocksOnce, Once, listVars
  <2>2. ReadyTypes' /\ WaitIsExact' /\ LetGo
    BY <1>6 DEF BodyComes, ReadyTypes, WaitIsExact, LetGo, flagVars, listVars
  <2> QED
    BY <2>1, <2>2
<1>7. CASE TimerComes
  <2>1. /\ NothingFires /\ readyTimers > 0 /\ ready(readyTimers - 1)
        /\ UNCHANGED <<domVars, listening, ran, holds, holdsMade>>
    BY <1>7 DEF TimerComes
  <2>2. readyTimers - 1 \in Nat /\ body' = body /\ readyState' # "loading"
    BY <2>1 DEF ReadyTypes, WaitIsExact, domVars
  <2>3. /\ isReady' \in BOOLEAN /\ readyWait' \in Int /\ readyTimers' \in Nat
        /\ WaitIsExact'
        /\ \/ UNCHANGED listVars
           \/ resolveReady /\ body' /\ holds' = 0
    BY ReadyStep, <2>1, <2>2
  <2>4. BlocksOnce' /\ readyList' \in {readyList, "resolved"}
    BY ResolveKeeps, <2>1, <2>3
  <2>5. ReadyTypes'
    BY <2>1, <2>3, <2>4 DEF ReadyTypes, domVars
  <2>6. LetGo
    BY <2>2, <2>3 DEF LetGo, listVars
  <2> QED
    BY <2>3, <2>4, <2>5, <2>6
<1>8. CASE UNCHANGED readyVars
  <2>1. BlocksOnce'
    BY <1>8 DEF readyVars, BlocksOnce, Once, listVars
  <2>2. ReadyTypes' /\ WaitIsExact' /\ LetGo
    BY <1>8 DEF readyVars, domVars, flagVars, listVars, ReadyTypes, WaitIsExact, LetGo
  <2> QED
    BY <2>1, <2>2
<1> QED
  BY <1>1, <1>2, <1>3, <1>4, <1>5, <1>6, <1>7, <1>8 DEF ReadyNext

(* The blocks are let go when the document is parsed, has a body, and no    *)
(* script holds the event, for any blocks and any number of holds.          *)
THEOREM WaitsForHoldsHolds == FairReadySpec => WaitsForHolds
<1>1. ReadyInv /\ [ReadyNext]_readyVars => [LetGo]_readyVars
  BY ReadyInvStep
<1>2. ReadyInv /\ [ReadyNext]_readyVars => ReadyInv'
  BY ReadyInvStep
<1> QED
  BY <1>1, <1>2, ReadyInvInit, PTL DEF FairReadySpec, WaitsForHolds, LetGo

(* No block runs twice, although the browser, a timer and a release may all *)
(* find the document ready, and blocks ask for further ones.                *)
THEOREM NoBlockRunsTwice ==
  ASSUME NEW b \in Blocks
  PROVE  FairReadySpec => [](ran[b] <= 1)
<1>1. ReadyInv => ran[b] <= 1
  BY DEF ReadyInv, BlocksOnce
<1>2. ReadyInv /\ [ReadyNext]_readyVars => ReadyInv'
  BY ReadyInvStep
<1> QED
  BY <1>1, <1>2, ReadyInvInit, PTL DEF FairReadySpec

-----------------------------------------------------------------------------
(* Lists of callbacks. Induction first: over numbers, then over lists.      *)

(* Induction, with a set for the predicate: the numbers that satisfy it.    *)
LEMMA NatSets ==
  ASSUME NEW S, 0 \in S, \A n \in Nat : n \in S => n + 1 \in S
  PROVE  Nat \subseteq S
<1> DEFINE R == OpToRel(<, Nat)
<1>1. IsWellFoundedOn(R, Nat)
  BY NatLessThanWellFounded
<1>2. \A m, n \in Nat : m < n => <<m, n>> \in R
  BY DEF OpToRel
<1> HIDE DEF R
<1> SUFFICES ASSUME Nat \ S # {} PROVE FALSE
  OBVIOUS
<1>3. PICK T : T = Nat \ S
  OBVIOUS
<1>4. PICK x \in T : \A y \in T : ~ (<<y, x>> \in R)
  BY <1>1, <1>3, WFMin
<1>5. x # 0 /\ x \in Nat
  BY <1>3, <1>4
<1>6. x - 1 \in Nat /\ x - 1 < x
  BY <1>5
<1>7. x - 1 \notin T
  BY <1>2, <1>4, <1>5, <1>6
<1>8. x \in S
  BY <1>3, <1>5, <1>6, <1>7
<1> QED
  BY <1>3, <1>4, <1>8

(* The first n steps of Without's recursion.                                *)
Keeps(K, q, gone, n) ==
  /\ K[0] = << >>
  /\ \A i \in 1 .. n :
       K[i] = IF q[i] \in gone THEN K[i - 1] ELSE Append(K[i - 1], q[i])

(* There is such a function for every list.                                 *)
LEMMA KeepsExists ==
  ASSUME NEW q, NEW gone
  PROVE  \A n \in Nat : \E K : K = [i \in 0 .. n |-> K[i]] /\ Keeps(K, q, gone, n)
<1> DEFINE S == {n \in Nat : \E K : K = [i \in 0 .. n |-> K[i]] /\ Keeps(K, q, gone, n)}
<1>1. 0 \in S
  <2>1. PICK K : K = [i \in 0 .. 0 |-> << >>]
    OBVIOUS
  <2>2. K = [i \in 0 .. 0 |-> K[i]] /\ Keeps(K, q, gone, 0)
    BY <2>1 DEF Keeps
  <2> QED
    BY <2>2
<1>2. ASSUME NEW n \in Nat, n \in S
      PROVE  n + 1 \in S
  <2>1. PICK K : K = [i \in 0 .. n |-> K[i]] /\ Keeps(K, q, gone, n)
    BY <1>2
  <2>2. PICK M : M = [i \in 0 .. n + 1 |->
                        IF i <= n THEN K[i]
                        ELSE IF q[n + 1] \in gone THEN K[n] ELSE Append(K[n], q[n + 1])]
    OBVIOUS
  <2>3. M = [i \in 0 .. n + 1 |-> M[i]]
    BY <2>2
  <2>4. \A i \in 0 .. n : M[i] = K[i]
    BY <2>2
  <2>5. M[n + 1] = IF q[n + 1] \in gone THEN M[n] ELSE Append(M[n], q[n + 1])
    BY <2>2, <2>4
  <2>6. Keeps(M, q, gone, n + 1)
    <3>1. M[0] = << >>
      BY <2>1, <2>4 DEF Keeps
    <3>2. ASSUME NEW i \in 1 .. n + 1
          PROVE  M[i] = IF q[i] \in gone THEN M[i - 1] ELSE Append(M[i - 1], q[i])
      <4>1. CASE i = n + 1
        BY <4>1, <2>5
      <4>2. CASE i # n + 1
        <5>1. i \in 1 .. n /\ i \in 0 .. n /\ i - 1 \in 0 .. n
          BY <4>2
        <5> QED
          BY <5>1, <2>1, <2>4 DEF Keeps
      <4> QED
        BY <4>1, <4>2
    <3> QED
      BY <3>1, <3>2 DEF Keeps
  <2> QED
    BY <2>3, <2>6
<1> HIDE DEF S
<1>3. Nat \subseteq S
  BY <1>1, <1>2, NatSets
<1> QED
  BY <1>3 DEF S

(* So Without is the last of the lists that the function builds.            *)
LEMMA WithoutKeeps ==
  ASSUME NEW S, NEW q \in Seq(S), NEW gone
  PROVE  \E K : Keeps(K, q, gone, Len(q)) /\ Without(q, gone) = K[Len(q)]
<1>1. Len(q) \in Nat
  OBVIOUS
<1>2. PICK K : K = [i \in 0 .. Len(q) |-> K[i]] /\ Keeps(K, q, gone, Len(q))
  BY <1>1, KeepsExists
<1> DEFINE Kept[i \in 0 .. Len(q)] ==
        IF i = 0 THEN << >>
        ELSE IF q[i] \in gone THEN Kept[i - 1] ELSE Append(Kept[i - 1], q[i])
<1>3. K = [i \in 0 .. Len(q) |-> 
        IF i = 0 THEN << >>
        ELSE IF q[i] \in gone THEN K[i - 1] ELSE Append(K[i - 1], q[i])]
  BY <1>1, <1>2 DEF Keeps
<1>4. Kept = [i \in 0 .. Len(q) |-> 
        IF i = 0 THEN << >>
        ELSE IF q[i] \in gone THEN Kept[i - 1] ELSE Append(Kept[i - 1], q[i])]
  BY <1>3
<1>5. Without(q, gone) = Kept[Len(q)]
  BY DEF Without
<1> HIDE DEF Kept
<1>6. Keeps(Kept, q, gone, Len(q))
  <2>1. Kept[0] = << >>
    BY <1>1, <1>4
  <2>2. ASSUME NEW i \in 1 .. Len(q)
        PROVE  Kept[i] = IF q[i] \in gone THEN Kept[i - 1] ELSE Append(Kept[i - 1], q[i])
    <3>1. i \in 0 .. Len(q) /\ i # 0
      BY <1>1
    <3> QED
      BY <1>4, <3>1
  <2> QED
    BY <2>1, <2>2 DEF Keeps
<1> QED
  BY <1>5, <1>6

(* Two computations that see the same items agree.                          *)
LEMMA KeepsAgree ==
  ASSUME NEW gone, NEW n \in Nat, NEW q, NEW K, Keeps(K, q, gone, n),
         NEW r, NEW M, Keeps(M, r, gone, n), \A i \in 1 .. n : q[i] = r[i]
  PROVE  K[n] = M[n]
<1> DEFINE S == {m \in Nat : m <= n => K[m] = M[m]}
<1>1. 0 \in S
  BY DEF Keeps
<1>2. ASSUME NEW m \in Nat, m \in S
      PROVE  m + 1 \in S
  <2>1. CASE m + 1 <= n
    <3>1. m + 1 \in 1 .. n /\ (m + 1) - 1 = m /\ m <= n
      BY <2>1
    <3>2. K[m] = M[m] /\ q[m + 1] = r[m + 1]
      BY <3>1, <1>2
    <3>3. K[m + 1] = IF q[m + 1] \in gone THEN K[m] ELSE Append(K[m], q[m + 1])
      BY <3>1 DEF Keeps
    <3>4. M[m + 1] = IF r[m + 1] \in gone THEN M[m] ELSE Append(M[m], r[m + 1])
      BY <3>1 DEF Keeps
    <3> QED
      BY <3>2, <3>3, <3>4
  <2>2. CASE ~ m + 1 <= n
    BY <2>2
  <2> QED
    BY <2>1, <2>2
<1> HIDE DEF S
<1>3. n \in S
  BY <1>1, <1>2, NatSets
<1> QED
  BY <1>3 DEF S

(* What Without does with the empty list, and with a list one longer.       *)
LEMMA WithoutEmpty == ASSUME NEW gone PROVE Without(<< >>, gone) = << >>
<1>1. PICK e \in Seq({}) : e = << >>
  <2>1. << >> \in Seq({})
    OBVIOUS
  <2> QED
    BY <2>1
<1>2. PICK K : Keeps(K, e, gone, Len(e)) /\ Without(e, gone) = K[Len(e)]
  BY WithoutKeeps
<1>3. Len(e) = 0
  BY <1>1
<1> QED
  BY <1>1, <1>2, <1>3 DEF Keeps

(* A list one longer: its last element stays or goes.                       *)
LEMMA WithoutAppend ==
  ASSUME NEW S, NEW q \in Seq(S), NEW e \in S, NEW gone
  PROVE  Without(Append(q, e), gone) =
           IF e \in gone THEN Without(q, gone) ELSE Append(Without(q, gone), e)
<1>1. PICK r \in Seq(S) : r = Append(q, e)
  <2>1. Append(q, e) \in Seq(S)
    OBVIOUS
  <2> QED
    BY <2>1
<1>2. /\ Len(r) = Len(q) + 1 /\ Len(q) \in Nat /\ r[Len(q) + 1] = e
      /\ \A i \in 1 .. Len(q) : r[i] = q[i]
  BY <1>1
<1>3. PICK K : Keeps(K, q, gone, Len(q)) /\ Without(q, gone) = K[Len(q)]
  BY WithoutKeeps
<1>4. PICK M : Keeps(M, r, gone, Len(r)) /\ Without(r, gone) = M[Len(r)]
  BY WithoutKeeps
<1>5. Keeps(M, r, gone, Len(q))
  BY <1>2, <1>4 DEF Keeps
<1>6. M[Len(q)] = K[Len(q)]
  BY <1>2, <1>3, <1>5, KeepsAgree
<1>7. M[Len(q) + 1] = IF r[Len(q) + 1] \in gone THEN M[Len(q)] ELSE Append(M[Len(q)], r[Len(q) + 1])
  <2>1. Len(q) + 1 \in 1 .. Len(r) /\ (Len(q) + 1) - 1 = Len(q)
    BY <1>2
  <2> QED
    BY <1>4, <2>1 DEF Keeps
<1> QED
  BY <1>1, <1>2, <1>3, <1>4, <1>6, <1>7

(* Induction over the lists of S: a set of lists that has the empty one, and*)
(* with a list all that are one longer, has all.                            *)
LEMMA ListSets ==
  ASSUME NEW S, NEW T, << >> \in T,
         \A q \in Seq(S), e \in S : q \in T => Append(q, e) \in T
  PROVE  Seq(S) \subseteq T
<1> DEFINE N == {n \in Nat : \A q \in Seq(S) : Len(q) = n => q \in T}
<1>1. 0 \in N
  <2>1. \A q \in Seq(S) : Len(q) = 0 => q = << >>
    BY EmptySeq
  <2> QED
    BY <2>1
<1>2. ASSUME NEW n \in Nat, n \in N
      PROVE  n + 1 \in N
  <2>1. ASSUME NEW q \in Seq(S), Len(q) = n + 1
        PROVE  q \in T
    <3>1. PICK f \in Seq(S), e \in S : f = SubSeq(q, 1, n) /\ e = q[n + 1]
      <4>1. SubSeq(q, 1, n) \in Seq(S)
        BY <2>1
      <4>2. q[n + 1] \in S
        BY <2>1
      <4> QED
        BY <4>1, <4>2
    <3>2. q = Append(f, e) /\ Len(f) = n
      BY <2>1, <3>1
    <3> QED
      BY <1>2, <3>1, <3>2
  <2> QED
    BY <2>1
<1> HIDE DEF N
<1>3. Nat \subseteq N
  BY <1>1, <1>2, NatSets
<1> QED
  <2>1. \A q \in Seq(S) : Len(q) \in Nat
    OBVIOUS
  <2> QED
    BY <1>3, <2>1 DEF N

(* What stays are elements of the list.                                     *)
LEMMA WithoutType ==
  ASSUME NEW S, NEW gone
  PROVE  \A q \in Seq(S) : /\ Without(q, gone) \in Seq(S)
                          /\ \A i \in DOMAIN Without(q, gone) : Without(q, gone)[i] \notin gone
<1> DEFINE T == {q \in Seq(S) : /\ Without(q, gone) \in Seq(S)
                     /\ \A i \in DOMAIN Without(q, gone) : Without(q, gone)[i] \notin gone}
<1>1. << >> \in T
  <2>1. << >> \in Seq(S) /\ DOMAIN << >> = {}
    OBVIOUS
  <2> QED
    BY <2>1, WithoutEmpty
<1>2. ASSUME NEW q \in Seq(S), NEW e \in S, q \in T
      PROVE  Append(q, e) \in T
  <2>1. Append(q, e) \in Seq(S)
    OBVIOUS
  <2>2. PICK w \in Seq(S) : w = Without(q, gone)
    BY <1>2
  <2>3. \A i \in DOMAIN w : w[i] \notin gone
    BY <1>2, <2>2
  <2>4. Without(Append(q, e), gone) = IF e \in gone THEN w ELSE Append(w, e)
    BY <2>2, WithoutAppend
  <2>5. ASSUME e \notin gone, NEW i \in DOMAIN Append(w, e)
        PROVE  Append(w, e)[i] \notin gone
    BY <2>3, <2>5
  <2> QED
    BY <2>1, <2>3, <2>4, <2>5
<1> HIDE DEF T
<1>3. Seq(S) \subseteq T
  BY <1>1, <1>2, ListSets
<1> QED
  BY <1>3 DEF T

SplitsAt(p, t, gone) == Without(p \o t, gone) = Without(p, gone) \o Without(t, gone)

(* The parts of a list can be gone through one by one.                      *)
LEMMA WithoutConcat ==
  ASSUME NEW S, NEW p \in Seq(S), NEW t \in Seq(S), NEW gone
  PROVE  SplitsAt(p, t, gone)
<1> DEFINE T == {q \in Seq(S) : Without(p \o q, gone) = Without(p, gone) \o Without(q, gone)}
<1>0. PICK w \in Seq(S) : w = Without(p, gone)
  BY WithoutType
<1>1. << >> \in T
  <2>1. << >> \in Seq(S) /\ p \o << >> = p /\ w \o << >> = w
    BY ConcatEmptySeq
  <2> QED
    BY <1>0, <2>1, WithoutEmpty
<1>2. ASSUME NEW q \in Seq(S), NEW e \in S, q \in T
      PROVE  Append(q, e) \in T
  <2>1. Append(q, e) \in Seq(S) /\ p \o q \in Seq(S)
    OBVIOUS
  <2>2. p \o Append(q, e) = Append(p \o q, e)
    OBVIOUS
  <2>3. PICK v \in Seq(S) : v = Without(q, gone)
    BY WithoutType
  <2>4. Without(p \o q, gone) = w \o v
    BY <1>0, <1>2, <2>3
  <2>5. w \o Append(v, e) = Append(w \o v, e)
    OBVIOUS
  <2>6. Without(Append(q, e), gone) = IF e \in gone THEN v ELSE Append(v, e)
    BY <2>3, WithoutAppend
  <2>7. Without(Append(p \o q, e), gone) = IF e \in gone THEN w \o v ELSE Append(w \o v, e)
    <3>1. PICK u \in Seq(S) : u = p \o q
      BY <2>1
    <3>2. Without(Append(u, e), gone) =
            IF e \in gone THEN Without(u, gone) ELSE Append(Without(u, gone), e)
      BY WithoutAppend
    <3> QED
      BY <2>4, <3>1, <3>2
  <2> QED
    BY <1>0, <2>1, <2>2, <2>5, <2>6, <2>7
<1> HIDE DEF T
<1>3. Seq(S) \subseteq T
  BY <1>1, <1>2, ListSets
<1> QED
  BY <1>3 DEF T, SplitsAt


(* What goes, by its places in the list.                                    *)
Places(q, gone) == {i \in DOMAIN q : q[i] \in gone}

(* A list has at most its length of places.                                 *)
LEMMA PlacesFinite ==
  ASSUME NEW S, NEW q \in Seq(S), NEW gone
  PROVE  IsFiniteSet(Places(q, gone)) /\ Cardinality(Places(q, gone)) \in 0 .. Len(q)
<1>1. Places(q, gone) \subseteq 1 .. Len(q) /\ Len(q) \in Nat
  BY DEF Places
<1>2. IsFiniteSet(1 .. Len(q)) /\ Cardinality(1 .. Len(q)) = Len(q)
  <2>1. PICK n \in Nat : n = Len(q)
    BY <1>1
  <2>2. IsFiniteSet(1 .. n) /\ Cardinality(1 .. n) = n
    BY FS_Interval
  <2> QED
    BY <2>1, <2>2
<1>3. /\ IsFiniteSet(Places(q, gone))
      /\ Cardinality(Places(q, gone)) <= Cardinality(1 .. Len(q))
  BY <1>1, <1>2, FS_Subset
<1>4. Cardinality(Places(q, gone)) \in Nat
  BY <1>3, FS_CardinalityType
<1> QED
  BY <1>1, <1>2, <1>3, <1>4

(* A list one longer has one place more, or as many.                        *)
LEMMA PlacesAppend ==
  ASSUME NEW S, NEW q \in Seq(S), NEW e \in S, NEW gone
  PROVE  Cardinality(Places(Append(q, e), gone)) =
           Cardinality(Places(q, gone)) + (IF e \in gone THEN 1 ELSE 0)
<1>1. /\ DOMAIN Append(q, e) = 1 .. Len(q) + 1 /\ DOMAIN q = 1 .. Len(q)
      /\ \A i \in 1 .. Len(q) : Append(q, e)[i] = q[i]
      /\ Append(q, e)[Len(q) + 1] = e /\ Len(q) \in Nat
  OBVIOUS
<1>2. \A i \in 1 .. Len(q) + 1 : i \in 1 .. Len(q) \/ i = Len(q) + 1
  BY <1>1
<1>3. Len(q) + 1 \notin Places(q, gone)
  BY <1>1 DEF Places
<1>4. CASE e \in gone
  <2>1. Places(Append(q, e), gone) = Places(q, gone) \cup {Len(q) + 1}
    BY <1>1, <1>2, <1>4 DEF Places
  <2>2. Cardinality(Places(q, gone) \cup {Len(q) + 1}) = Cardinality(Places(q, gone)) + 1
    BY <1>3, PlacesFinite, FS_AddElement
  <2> QED
    BY <1>4, <2>1, <2>2
<1>5. CASE e \notin gone
  <2>1. Places(Append(q, e), gone) = Places(q, gone)
    BY <1>1, <1>2, <1>5 DEF Places
  <2>2. Cardinality(Places(q, gone)) \in Nat
    BY PlacesFinite
  <2> QED
    BY <1>5, <2>1, <2>2
<1> QED
  BY <1>4, <1>5

(* What stays and the places of what goes make up the list.                 *)
LEMMA WithoutLength ==
  ASSUME NEW S, NEW gone
  PROVE  \A q \in Seq(S) : Len(Without(q, gone)) = Len(q) - Cardinality(Places(q, gone))
<1> DEFINE T == {q \in Seq(S) :
                   Len(Without(q, gone)) = Len(q) - Cardinality(Places(q, gone))}
<1>1. << >> \in T
  <2>1. << >> \in Seq(S) /\ Len(<< >>) = 0
    OBVIOUS
  <2>2. Places(<< >>, gone) = {}
    BY DEF Places
  <2> QED
    BY <2>1, <2>2, WithoutEmpty, FS_EmptySet
<1>2. ASSUME NEW q \in Seq(S), NEW e \in S, q \in T
      PROVE  Append(q, e) \in T
  <2>1. Append(q, e) \in Seq(S) /\ Len(Append(q, e)) = Len(q) + 1
    OBVIOUS
  <2>2. PICK w \in Seq(S) : w = Without(q, gone)
    BY WithoutType
  <2>3. Len(w) = Len(q) - Cardinality(Places(q, gone))
    BY <1>2, <2>2
  <2>4. Len(q) \in Nat /\ Cardinality(Places(q, gone)) \in Nat /\ Len(Append(w, e)) = Len(w) + 1
    BY PlacesFinite
  <2>5. Without(Append(q, e), gone) = IF e \in gone THEN w ELSE Append(w, e)
    BY <2>2, WithoutAppend
  <2>6. Cardinality(Places(Append(q, e), gone)) =
          Cardinality(Places(q, gone)) + (IF e \in gone THEN 1 ELSE 0)
    BY PlacesAppend
  <2>7. Len(Without(Append(q, e), gone)) =
          Len(Append(q, e)) - Cardinality(Places(Append(q, e), gone))
    BY <2>1, <2>3, <2>4, <2>5, <2>6
  <2> QED
    BY <2>1, <2>7
<1> HIDE DEF T
<1>3. Seq(S) \subseteq T
  BY <1>1, <1>2, ListSets
<1> QED
  BY <1>3 DEF T

(* The places of the parts add up.                                          *)
LEMMA PlacesConcat ==
  ASSUME NEW S, NEW p \in Seq(S), NEW q \in Seq(S), NEW gone
  PROVE  Cardinality(Places(p \o q, gone)) =
           Cardinality(Places(p, gone)) + Cardinality(Places(q, gone))
<1>1. PICK v \in Seq(S), w \in Seq(S) : v = Without(p, gone) /\ w = Without(q, gone)
  BY WithoutType
<1>2. Len(v) = Len(p) - Cardinality(Places(p, gone)) /\ Len(w) = Len(q) - Cardinality(Places(q, gone))
  BY <1>1, WithoutLength
<1>3. PICK r \in Seq(S) : r = p \o q
  <2>1. p \o q \in Seq(S)
    OBVIOUS
  <2> QED
    BY <2>1
<1>4. Without(r, gone) = v \o w
  <2>1. SplitsAt(p, q, gone)
    BY WithoutConcat
  <2> QED
    BY <1>1, <1>3, <2>1 DEF SplitsAt
<1>5. Len(v \o w) = Len(r) - Cardinality(Places(r, gone))
  BY <1>4, WithoutLength
<1>6. Len(v \o w) = Len(v) + Len(w) /\ Len(r) = Len(p) + Len(q)
  BY <1>3
<1>7. /\ Cardinality(Places(p, gone)) \in Nat /\ Cardinality(Places(q, gone)) \in Nat
      /\ Cardinality(Places(r, gone)) \in Nat /\ Len(p) \in Nat /\ Len(q) \in Nat
  BY PlacesFinite
<1>8. Cardinality(Places(r, gone)) =
        Cardinality(Places(p, gone)) + Cardinality(Places(q, gone))
  <2>1. ASSUME NEW a \in Nat, NEW b \in Nat, NEW c \in Nat, NEW m \in Nat, NEW n \in Nat,
               (m - a) + (n - b) = (m + n) - c
        PROVE  c = a + b
    BY <2>1
  <2>2. (Len(p) - Cardinality(Places(p, gone))) + (Len(q) - Cardinality(Places(q, gone)))
          = (Len(p) + Len(q)) - Cardinality(Places(r, gone))
    BY ONLY <1>2, <1>5, <1>6
  <2> QED
    BY ONLY <1>7, <2>1, <2>2
<1> QED
  BY <1>3, <1>8

(* The end of a list behind its place k, of which some go: it is what is    *)
(* left of that end, and the place moves by those that go before it.        *)
EndKept(q, gone, k, before, all) ==
  /\ k - before <= Len(q) - all
  /\ SubSeq(Without(q, gone), k - before + 1, Len(q) - all)
       = Without(SubSeq(q, k + 1, Len(q)), gone)

(* The end of a list from k, and what removing leaves of it: it begins      *)
(* where as many elements less were before it.                              *)
LEMMA WithoutEnd ==
  ASSUME NEW S, NEW q \in Seq(S), NEW gone, NEW k \in 0 .. Len(q),
         NEW before, before = Cardinality({i \in Places(q, gone) : i <= k}),
         NEW all, all = Cardinality(Places(q, gone))
  PROVE  /\ before \in 0 .. k /\ all \in 0 .. Len(q)
         /\ Len(Without(q, gone)) = Len(q) - all
         /\ EndKept(q, gone, k, before, all)
<1>1. PICK p \in Seq(S), r \in Seq(S) : p = SubSeq(q, 1, k) /\ r = SubSeq(q, k + 1, Len(q))
  <2>1. SubSeq(q, 1, k) \in Seq(S)
    OBVIOUS
  <2>2. SubSeq(q, k + 1, Len(q)) \in Seq(S)
    OBVIOUS
  <2> QED
    BY <2>1, <2>2
<1>2. /\ Len(p) = k /\ Len(r) = Len(q) - k /\ Len(q) \in Nat /\ k \in Nat
      /\ \A i \in 1 .. k : p[i] = q[i]
  BY <1>1
<1>3. q = p \o r
  <2>1. Len(p \o r) = Len(q) /\ p \o r \in Seq(S)
    BY <1>2
  <2>2. ASSUME NEW i \in 1 .. Len(q)
        PROVE  (p \o r)[i] = q[i]
    <3>1. CASE i <= k
      <4>1. (p \o r)[i] = p[i] /\ i \in 1 .. k
        BY <1>2, <3>1
      <4> QED
        BY <1>2, <4>1
    <3>2. CASE ~ i <= k
      <4>1. i - k \in 1 .. Len(r) /\ (k + 1) + (i - k) - 1 = i
        BY <1>2, <3>2
      <4>2. (p \o r)[i] = r[i - k]
        BY <1>2, <3>2
      <4>3. r[i - k] = q[(k + 1) + (i - k) - 1]
        BY <1>1, <1>2, <4>1
      <4> QED
        BY <4>1, <4>2, <4>3
    <3> QED
      BY <3>1, <3>2
  <2> QED
    BY <2>1, <2>2, SeqEqual
<1>4. Places(p, gone) = {i \in Places(q, gone) : i <= k}
  BY <1>2 DEF Places
<1>5. PICK v \in Seq(S), w \in Seq(S) : v = Without(p, gone) /\ w = Without(r, gone)
  BY WithoutType
<1>6. Without(q, gone) = v \o w
  <2>1. SplitsAt(p, r, gone)
    BY WithoutConcat
  <2> QED
    BY <1>3, <1>5, <2>1 DEF SplitsAt
<1>7. Len(v) = k - before /\ before \in 0 .. k
  BY <1>2, <1>4, <1>5, WithoutLength, PlacesFinite
<1>8. Len(v \o w) = Len(q) - all /\ all \in 0 .. Len(q)
  BY <1>6, WithoutLength, PlacesFinite
<1>9. SubSeq(v \o w, Len(v) + 1, Len(v \o w)) = w /\ Len(v \o w) = Len(v) + Len(w)
  OBVIOUS
<1>10. SubSeq(v \o w, k - before + 1, Len(q) - all) = w
  BY <1>7, <1>8, <1>9
<1>11. k - before <= Len(q) - all
  <2>1. Len(v) \in Nat /\ Len(w) \in Nat
    OBVIOUS
  <2>2. Len(q) - all = Len(v) + Len(w)
    BY ONLY <1>8, <1>9
  <2> QED
    BY ONLY <1>7, <2>1, <2>2
<1>12. EndKept(q, gone, k, before, all)
  BY <1>1, <1>5, <1>6, <1>10, <1>11 DEF EndKept
<1> QED
  BY <1>6, <1>7, <1>8, <1>12

-----------------------------------------------------------------------------
(* Lists of callbacks.                                                      *)

Own == {"state", "disable", "lock"}
Fs == Fns \cup Own
Val == Values \cup {NoFn}

FnLists == Seq(Fs)
ValueLists == Seq(Values)

CbList ==
  [options : SUBSET Options, list : FnLists, disabled : BOOLEAN, stack : ValueLists,
   locked : BOOLEAN, memory : Val, data : Val, fired : BOOLEAN, firing : BOOLEAN,
   running : BOOLEAN, firingIndex : Nat, firingLength : Nat]

(* The next callback of a round, by its place.                              *)
Place(L) == IF L.running THEN L.firingIndex + 1 ELSE L.firingIndex

(* What a round still calls is what is due, unless the list was emptied.    *)
RoundIs(L, dues, hollow) ==
  /\ L.running => L.firing
  /\ hollow => L.firing
  /\ L.disabled => L.list = << >>
  /\ L.firing /\ ~ L.disabled => L.firingLength = Len(L.list)
  /\ ~ hollow =>
       dues = IF ~ L.firing \/ L.disabled THEN << >>
             ELSE SubSeq(L.list, Place(L), L.firingLength)
  /\ ~ hollow /\ L.firing /\ ~ L.disabled => Place(L) \in 1 .. Len(L.list) + 1
  /\ L.firing => Place(L) >= 1

-----------------------------------------------------------------------------
(* The methods keep a list a list.                                          *)

(* fire.                                                                    *)
LEMMA FireType ==
  ASSUME NEW L \in CbList, Len(L.list) \in Nat,
         NEW value \in Val, NEW start \in Nat
  PROVE  fire(L, value, start) \in CbList
<1>1. PICK A \in CbList :
         A = [L EXCEPT !.memory = IF "memory" \in L.options THEN value ELSE NoFn]
  BY DEF CbList, Val
<1>2. PICK B \in CbList : B = [A EXCEPT !.data = value]
  BY DEF CbList
<1>3. PICK C \in CbList : C = [B EXCEPT !.fired = TRUE]
  BY DEF CbList
<1>4. PICK D \in CbList : D = [C EXCEPT !.firing = TRUE]
  BY DEF CbList
<1>5. PICK E \in CbList : E = [D EXCEPT !.firingIndex = start]
  BY DEF CbList
<1>6. [E EXCEPT !.firingLength = Len(L.list)] \in CbList
  BY DEF CbList
<1>7. fire(L, value, start) = [E EXCEPT !.firingLength = Len(L.list)]
  BY <1>1, <1>2, <1>3, <1>4, <1>5 DEF fire
<1> QED
  BY <1>6, <1>7

(* What fire sets, and what it leaves.                                      *)
LEMMA FireFields ==
  ASSUME NEW L \in CbList,
         NEW value \in Val, NEW start \in Nat
  PROVE  LET M == fire(L, value, start)
         IN  /\ M.options = L.options /\ M.list = L.list /\ M.disabled = L.disabled
             /\ M.stack = L.stack /\ M.locked = L.locked
             /\ M.memory = (IF "memory" \in L.options THEN value ELSE NoFn)
             /\ M.data = value /\ M.fired = TRUE /\ M.firing = TRUE /\ M.running = L.running
             /\ M.firingIndex = start /\ M.firingLength = Len(L.list)
  BY DEF CbList, fire

(* disable.                                                                 *)
LEMMA DisableType ==
  ASSUME NEW L \in CbList,
         << >> \in FnLists, << >> \in ValueLists
  PROVE  disable(L) \in CbList
<1>1. PICK A \in CbList : A = [L EXCEPT !.list = << >>]
  BY DEF CbList
<1>2. PICK B \in CbList : B = [A EXCEPT !.disabled = TRUE]
  BY DEF CbList
<1>3. PICK C \in CbList : C = [B EXCEPT !.stack = << >>]
  BY DEF CbList
<1>4. PICK D \in CbList : D = [C EXCEPT !.locked = TRUE]
  BY DEF CbList
<1>5. [D EXCEPT !.memory = NoFn] \in CbList
  BY DEF CbList, Val
<1>6. disable(L) = [D EXCEPT !.memory = NoFn]
  BY <1>1, <1>2, <1>3, <1>4 DEF disable
<1> QED
  BY <1>5, <1>6

(* What disable sets, and what it leaves.                                   *)
LEMMA DisableFields ==
  ASSUME NEW L \in CbList
  PROVE  LET M == disable(L)
         IN  /\ M.options = L.options /\ M.list = << >> /\ M.disabled = TRUE
             /\ M.stack = << >> /\ M.locked = TRUE /\ M.memory = NoFn
             /\ M.data = L.data /\ M.fired = L.fired /\ M.firing = L.firing
             /\ M.running = L.running
             /\ M.firingIndex = L.firingIndex /\ M.firingLength = L.firingLength
  BY DEF CbList, disable

(* lock.                                                                    *)
LEMMA LockType ==
  ASSUME NEW L \in CbList,
         << >> \in FnLists, << >> \in ValueLists
  PROVE  /\ lock(L) \in CbList
         /\ L.memory # NoFn =>
              LET M == lock(L)
              IN  /\ M.options = L.options /\ M.list = L.list /\ M.disabled = L.disabled
                  /\ M.locked = TRUE /\ M.memory = L.memory
                  /\ M.data = L.data /\ M.fired = L.fired /\ M.firing = L.firing
                  /\ M.running = L.running
                  /\ M.firingIndex = L.firingIndex /\ M.firingLength = L.firingLength
         /\ L.memory = NoFn => lock(L) = disable(L)
<1>1. CASE L.memory = NoFn
  BY <1>1, DisableType DEF lock
<1>2. CASE L.memory # NoFn
  <2>1. PICK A \in CbList : A = [L EXCEPT !.stack = << >>]
    BY DEF CbList
  <2>2. [A EXCEPT !.locked = TRUE] \in CbList
    BY DEF CbList
  <2>3. lock(L) = [A EXCEPT !.locked = TRUE]
    BY <1>2, <2>1 DEF lock
  <2>4. LET M == [A EXCEPT !.locked = TRUE]
        IN  /\ M.options = L.options /\ M.list = L.list /\ M.disabled = L.disabled
            /\ M.locked = TRUE /\ M.memory = L.memory
            /\ M.data = L.data /\ M.fired = L.fired /\ M.firing = L.firing
            /\ M.running = L.running
            /\ M.firingIndex = L.firingIndex /\ M.firingLength = L.firingLength
    BY <2>1 DEF CbList
  <2> QED
    BY <1>2, <2>2, <2>3, <2>4
<1> QED
  BY <1>1, <1>2

(* empty.                                                                   *)
LEMMA EmptyType ==
  ASSUME NEW L \in CbList, << >> \in FnLists
  PROVE  empty(L) \in CbList
<1>1. PICK A \in CbList : A = [L EXCEPT !.list = << >>]
  BY DEF CbList
<1>2. PICK B \in CbList : B = [A EXCEPT !.disabled = FALSE]
  BY DEF CbList
<1>3. [B EXCEPT !.firingLength = 0] \in CbList
  BY DEF CbList
<1>4. empty(L) = [B EXCEPT !.firingLength = 0]
  BY <1>1, <1>2 DEF empty
<1> QED
  BY <1>3, <1>4

(* What empty sets, and what it leaves.                                     *)
LEMMA EmptyFields ==
  ASSUME NEW L \in CbList
  PROVE  LET M == empty(L)
         IN  /\ M.list = << >> /\ M.disabled = FALSE /\ M.firing = L.firing
             /\ M.running = L.running /\ M.options = L.options
             /\ M.firingIndex = L.firingIndex /\ M.firingLength = 0
  BY DEF CbList, empty

(* A list with a callback more, in a round or not.                          *)
LEMMA LongerType ==
  ASSUME NEW L \in CbList, NEW q \in FnLists
  PROVE  LET M == [L EXCEPT !.list = q]
         IN  /\ M \in CbList
             /\ M.list = q /\ M.options = L.options /\ M.disabled = L.disabled
             /\ M.stack = L.stack /\ M.locked = L.locked /\ M.memory = L.memory
             /\ M.data = L.data /\ M.fired = L.fired /\ M.firing = L.firing
             /\ M.running = L.running
             /\ M.firingIndex = L.firingIndex /\ M.firingLength = L.firingLength
  BY DEF CbList

(* The end of the loop moves.                                               *)
LEMMA LengthType ==
  ASSUME NEW L \in CbList, NEW n \in Nat
  PROVE  LET M == [L EXCEPT !.firingLength = n]
         IN  /\ M \in CbList
             /\ M.list = L.list /\ M.options = L.options /\ M.disabled = L.disabled
             /\ M.stack = L.stack /\ M.locked = L.locked /\ M.memory = L.memory
             /\ M.data = L.data /\ M.fired = L.fired /\ M.firing = L.firing
             /\ M.running = L.running
             /\ M.firingIndex = L.firingIndex /\ M.firingLength = n
  BY DEF CbList

(* The place in the loop moves.                                             *)
LEMMA IndexType ==
  ASSUME NEW L \in CbList, NEW n \in Nat
  PROVE  LET M == [L EXCEPT !.firingIndex = n]
         IN  /\ M \in CbList
             /\ M.list = L.list /\ M.options = L.options /\ M.disabled = L.disabled
             /\ M.stack = L.stack /\ M.locked = L.locked /\ M.memory = L.memory
             /\ M.data = L.data /\ M.fired = L.fired /\ M.firing = L.firing
             /\ M.running = L.running
             /\ M.firingIndex = n /\ M.firingLength = L.firingLength
  BY DEF CbList

(* A fire waits, or is taken.                                               *)
LEMMA StackType ==
  ASSUME NEW L \in CbList, NEW q \in ValueLists
  PROVE  LET M == [L EXCEPT !.stack = q]
         IN  /\ M \in CbList
             /\ M.list = L.list /\ M.options = L.options /\ M.disabled = L.disabled
             /\ M.stack = q /\ M.locked = L.locked /\ M.memory = L.memory
             /\ M.data = L.data /\ M.fired = L.fired /\ M.firing = L.firing
             /\ M.running = L.running
             /\ M.firingIndex = L.firingIndex /\ M.firingLength = L.firingLength
  BY DEF CbList

(* A round begins or ends.                                                  *)
LEMMA FiringType ==
  ASSUME NEW L \in CbList, NEW b \in BOOLEAN
  PROVE  LET M == [L EXCEPT !.firing = b]
         IN  /\ M \in CbList
             /\ M.list = L.list /\ M.options = L.options /\ M.disabled = L.disabled
             /\ M.stack = L.stack /\ M.locked = L.locked /\ M.memory = L.memory
             /\ M.data = L.data /\ M.fired = L.fired /\ M.firing = b
             /\ M.running = L.running
             /\ M.firingIndex = L.firingIndex /\ M.firingLength = L.firingLength
  BY DEF CbList

(* A callback is called or returns.                                         *)
LEMMA RunningType ==
  ASSUME NEW L \in CbList, NEW b \in BOOLEAN
  PROVE  LET M == [L EXCEPT !.running = b]
         IN  /\ M \in CbList
             /\ M.list = L.list /\ M.options = L.options /\ M.disabled = L.disabled
             /\ M.stack = L.stack /\ M.locked = L.locked /\ M.memory = L.memory
             /\ M.data = L.data /\ M.fired = L.fired /\ M.firing = L.firing
             /\ M.running = b
             /\ M.firingIndex = L.firingIndex /\ M.firingLength = L.firingLength
  BY DEF CbList

-----------------------------------------------------------------------------
(* The methods keep rounds: what add, remove and the others do to a list,   *)
(* and to what is due.                                                      *)

(* The fields of a list, by their types.                                    *)
LEMMA CbListFacts ==
  ASSUME NEW L \in CbList
  PROVE  /\ L.list \in Seq(Fs) /\ Len(L.list) \in Nat /\ L.stack \in Seq(Values)
         /\ L.memory \in Val /\ L.data \in Val /\ L.options \in SUBSET Options
         /\ L.firingIndex \in Nat /\ L.firingLength \in Nat
         /\ L.disabled \in BOOLEAN /\ L.firing \in BOOLEAN /\ L.running \in BOOLEAN
         /\ L.fired \in BOOLEAN /\ L.locked \in BOOLEAN
         /\ << >> \in Seq(Fs) /\ << >> \in Seq(Values)
<1>1. L.list \in Seq(Fs) /\ L.stack \in Seq(Values)
  <2>1. L.list \in FnLists /\ L.stack \in ValueLists
    BY DEF CbList
  <2> QED
    BY <2>1 DEF FnLists, ValueLists
<1>2. Len(L.list) \in Nat
  BY <1>1
<1>3. << >> \in Seq(Fs)
  OBVIOUS
<1>4. << >> \in Seq(Values)
  OBVIOUS
<1> QED
  BY <1>1, <1>2, <1>3, <1>4 DEF CbList

(* The end of a list that got longer by one.                                *)
LEMMA EndLonger ==
  ASSUME NEW S, NEW q \in Seq(S), NEW e \in S, NEW k \in 1 .. Len(q) + 1
  PROVE  SubSeq(Append(q, e), k, Len(q) + 1) = SubSeq(q, k, Len(q)) \o <<e>>
<1>1. Len(q) \in Nat /\ k \in Nat /\ k >= 1 /\ k <= Len(q) + 1
  OBVIOUS
<1>2. PICK a \in Seq(S) : a = SubSeq(Append(q, e), k, Len(q) + 1)
  <2>1. SubSeq(Append(q, e), k, Len(q) + 1) \in Seq(S)
    OBVIOUS
  <2> QED
    BY <2>1
<1>3. PICK r \in Seq(S) : r = SubSeq(q, k, Len(q))
  <2>1. SubSeq(q, k, Len(q)) \in Seq(S)
    OBVIOUS
  <2> QED
    BY <2>1
<1>4. PICK b \in Seq(S) : b = r \o <<e>>
  <2>1. r \o <<e>> \in Seq(S)
    OBVIOUS
  <2> QED
    BY <2>1
<1>5. Len(a) = Len(q) + 2 - k /\ Len(r) = Len(q) + 1 - k
  <2>1. Len(a) = IF k <= Len(q) + 1 THEN (Len(q) + 1) - k + 1 ELSE 0
    BY <1>1, <1>2
  <2>2. Len(r) = IF k <= Len(q) THEN Len(q) - k + 1 ELSE 0
    BY <1>1, <1>3
  <2> QED
    BY <1>1, <2>1, <2>2
<1>6. Len(b) = Len(q) + 2 - k
  <2>1. Len(b) = Len(r) + 1
    BY <1>4
  <2> QED
    BY <1>1, <1>5, <2>1
<1>7. ASSUME NEW i \in 1 .. Len(a)
      PROVE  a[i] = b[i]
  <2>0. i \in Nat /\ i >= 1 /\ i <= Len(q) + 2 - k
    BY <1>1, <1>5
  <2>1. a[i] = Append(q, e)[k + i - 1]
    <3>1. PICK c \in Seq(S) : c = Append(q, e) /\ Len(c) = Len(q) + 1
      <4>1. Append(q, e) \in Seq(S) /\ Len(Append(q, e)) = Len(q) + 1
        OBVIOUS
      <4> QED
        BY <4>1
    <3>2. a = SubSeq(c, k, Len(c))
      BY <1>2, <3>1
    <3>3. i \in 1 .. (Len(c) - k + 1)
      BY <1>1, <2>0, <3>1
    <3>4. a[i] = c[k + i - 1]
      <4>1. \A j \in k .. Len(c) : c[j] \in S
        BY <1>1, <3>1
      <4>2. k \in Int /\ Len(c) \in Int /\ i \in 1 .. Len(c) - k + 1
        BY <1>1, <3>1, <3>3
      <4>3. \A j \in 1 .. Len(c) - k + 1 : SubSeq(c, k, Len(c))[j] = c[k + j - 1]
        BY <4>1, <4>2, SubSeqProperties
      <4> QED
        BY <3>2, <4>2, <4>3
    <3> QED
      BY <3>1, <3>4
  <2>2. CASE i = Len(a)
    <3>1. k + i - 1 = Len(q) + 1
      BY <1>1, <1>5, <2>2
    <3>2. a[i] = e
      BY <2>1, <3>1
    <3>3. i = Len(r) + 1
      BY <1>1, <1>5, <2>2
    <3>4. b[i] = e
      BY <1>4, <3>3
    <3> QED
      BY <3>2, <3>4
  <2>3. CASE i # Len(a)
    <3>1. i \in 1 .. Len(r) /\ k + i - 1 \in 1 .. Len(q)
      <4>1. i # Len(q) + 2 - k
        BY <1>5, <2>3
      <4>2. i <= Len(q) + 1 - k
        BY <1>1, <2>0, <4>1
      <4> QED
        BY <1>1, <1>5, <2>0, <4>2
    <3>2. a[i] = q[k + i - 1]
      BY <2>1, <3>1
    <3>3. b[i] = r[i]
      BY <1>4, <3>1
    <3>4. r[i] = q[k + i - 1]
      BY <1>3, <3>1
    <3> QED
      BY <3>2, <3>3, <3>4
  <2> QED
    BY <2>2, <2>3
<1>8. a = b
  BY <1>5, <1>6, <1>7, SeqEqual
<1> QED
  BY <1>2, <1>3, <1>4, <1>8

Hears(L) == L.firing \/ (~ L.disabled /\ L.memory # NoFn)

(* What is due more when f is added.                                        *)
NewCall(L, f) == IF Skips(L, f) THEN << >> ELSE <<f>>

Adds(L, f, hollow, M, d) ==
  /\ M \in CbList /\ d \in Seq(Fs) /\ RoundIs(M, d, hollow)
  /\ M.options = L.options /\ M.disabled = L.disabled /\ M.running = L.running
  /\ M.locked = L.locked /\ M.firing = Hears(L)
  /\ M.list = (IF Skips(L, f) THEN L.list ELSE Append(L.list, f))
  /\ M.fired = (L.fired \/ (~ L.firing /\ Hears(L)))
  /\ M.data = (IF ~ L.firing /\ Hears(L) THEN L.memory ELSE L.data)
  /\ M.memory = (IF ~ L.firing /\ Hears(L) /\ "memory" \notin L.options
                  THEN NoFn ELSE L.memory)

(* What is added is due if the list is firing or remembers.                 *)
LEMMA AddRound ==
  ASSUME NEW L \in CbList, NEW f \in Fs, NEW dues \in Seq(Fs), NEW hollow \in BOOLEAN,
         RoundIs(L, dues, hollow), NEW M, M = addCallback(L, f),
         NEW d, d = IF Hears(L) THEN dues \o NewCall(L, f) ELSE dues
  PROVE  Adds(L, f, hollow, M, d)
<1> SUFFICES
      /\ M \in CbList /\ d \in Seq(Fs) /\ RoundIs(M, d, hollow)
      /\ M.options = L.options /\ M.disabled = L.disabled /\ M.running = L.running
      /\ M.locked = L.locked /\ M.firing = Hears(L)
      /\ M.list = (IF Skips(L, f) THEN L.list ELSE Append(L.list, f))
      /\ M.fired = (L.fired \/ (~ L.firing /\ Hears(L)))
      /\ M.data = (IF ~ L.firing /\ Hears(L) THEN L.memory ELSE L.data)
      /\ M.memory = (IF ~ L.firing /\ Hears(L) /\ "memory" \notin L.options
                      THEN NoFn ELSE L.memory)
  BY DEF Adds
<1> PICK new : new = IF Skips(L, f) THEN << >> ELSE <<f>>
  OBVIOUS
<1> d = IF Hears(L) THEN dues \o new ELSE dues
  BY DEF NewCall
<1>0. /\ L.list \in Seq(Fs) /\ Len(L.list) \in Nat /\ L.memory \in Val
      /\ L.firingIndex \in Nat /\ L.firingLength \in Nat
      /\ L.disabled \in BOOLEAN /\ L.firing \in BOOLEAN /\ L.running \in BOOLEAN
      /\ L.fired \in BOOLEAN
  BY CbListFacts
<1>1. new \in Seq(Fs)
  <2>1. <<f>> \in Seq(Fs)
    OBVIOUS
  <2>2. << >> \in Seq(Fs)
    OBVIOUS
  <2> QED
    BY <2>1, <2>2
<1>2. d \in Seq(Fs)
  <2>1. dues \o new \in Seq(Fs)
    BY <1>1
  <2> QED
    BY <2>1
<1>3. CASE L.disabled
  <2>1. M = L /\ new = << >> /\ Skips(L, f)
    BY <1>3 DEF addCallback, Skips
  <2>2. dues \o << >> = dues
    BY ConcatEmptySeq
  <2>3. d = dues /\ (Hears(L) = L.firing)
    BY <1>3, <1>0, <2>1, <2>2 DEF Hears
  <2> QED
    BY <1>0, <1>2, <1>3, <2>1, <2>3
<1>4. CASE ~ L.disabled
  <2>1. PICK q \in FnLists : q = IF Skips(L, f) THEN L.list ELSE Append(L.list, f)
    <3>1. Append(L.list, f) \in Seq(Fs)
      BY <1>0
    <3> QED
      BY <1>0, <3>1 DEF FnLists
  <2>2. PICK N \in CbList :
          /\ N = IF Skips(L, f) THEN L ELSE [L EXCEPT !.list = Append(@, f)]
          /\ N.list = q /\ N.options = L.options /\ N.disabled = L.disabled
          /\ N.stack = L.stack /\ N.locked = L.locked /\ N.memory = L.memory
          /\ N.data = L.data /\ N.fired = L.fired /\ N.firing = L.firing
          /\ N.running = L.running
          /\ N.firingIndex = L.firingIndex /\ N.firingLength = L.firingLength
    <3>1. CASE Skips(L, f)
      BY <2>1, <3>1
    <3>2. CASE ~ Skips(L, f)
      <4>1. [L EXCEPT !.list = Append(@, f)] = [L EXCEPT !.list = q]
        BY <2>1, <3>2 DEF CbList
      <4>2. PICK N : N = [L EXCEPT !.list = q]
        OBVIOUS
      <4>3. /\ N \in CbList
            /\ N.list = q /\ N.options = L.options /\ N.disabled = L.disabled
            /\ N.stack = L.stack /\ N.locked = L.locked /\ N.memory = L.memory
            /\ N.data = L.data /\ N.fired = L.fired /\ N.firing = L.firing
            /\ N.running = L.running
            /\ N.firingIndex = L.firingIndex /\ N.firingLength = L.firingLength
        BY <4>2, LongerType
      <4> QED
        BY ONLY <3>2, <4>1, <4>2, <4>3
    <3> QED
      BY <3>1, <3>2
  <2>3. Len(q) \in Nat /\ Len(q) >= Len(L.list)
    BY <1>0, <2>1
  <2>4. CASE L.firing
    <3>1. M = [N EXCEPT !.firingLength = Len(q)]
      BY <1>4, <2>2, <2>4 DEF addCallback
    <3>2. /\ M \in CbList /\ M.list = q /\ M.options = L.options /\ M.disabled = L.disabled
          /\ M.locked = L.locked /\ M.memory = L.memory
          /\ M.data = L.data /\ M.fired = L.fired /\ M.firing = L.firing
          /\ M.running = L.running
          /\ M.firingIndex = L.firingIndex /\ M.firingLength = Len(q)
      BY <2>2, <2>3, <3>1 DEF CbList
    <3>3. Place(M) = Place(L) /\ Hears(L)
      BY <3>2, <2>4 DEF Place, Hears
    <3>4. ASSUME ~ hollow PROVE d = SubSeq(q, Place(L), Len(q)) /\ Place(L) \in 1 .. Len(q) + 1
      <4>1. /\ dues = SubSeq(L.list, Place(L), Len(L.list))
            /\ Place(L) \in 1 .. Len(L.list) + 1
        BY <3>4, <1>4, <2>4 DEF RoundIs
      <4>2. CASE Skips(L, f)
        <5>1. d = dues \o << >>
          BY <3>3, <4>2
        <5>2. d = dues
          BY <5>1, ConcatEmptySeq
        <5> QED
          BY <2>1, <4>1, <4>2, <5>2
      <4>3. CASE ~ Skips(L, f)
        <5>1. SubSeq(Append(L.list, f), Place(L), Len(L.list) + 1)
                = SubSeq(L.list, Place(L), Len(L.list)) \o <<f>>
          BY <1>0, <4>1, EndLonger
        <5>2. d = dues \o <<f>>
          BY <3>3, <4>3
        <5>3. q = Append(L.list, f) /\ Len(q) = Len(L.list) + 1
          BY <1>0, <2>1, <4>3
        <5>4. Place(L) \in 1 .. Len(q) + 1
          BY <1>0, <4>1, <5>3
        <5> QED
          BY <4>1, <5>1, <5>2, <5>3, <5>4
      <4> QED
        BY <4>2, <4>3
    <3>5. RoundIs(M, d, hollow)
      BY <1>4, <2>4, <3>2, <3>3, <3>4 DEF RoundIs
    <3> QED
      BY <1>0, <1>2, <2>1, <2>4, <3>2, <3>3, <3>5
  <2>5. CASE ~ L.firing /\ L.memory # NoFn
    <3>0. PICK value \in Val, start \in Nat : value = L.memory /\ start = Len(L.list) + 1
      BY <1>0
    <3>1. M = fire(N, value, start)
      BY <1>4, <2>2, <2>5, <3>0 DEF addCallback
    <3>2. M \in CbList
      <4>1. Len(N.list) \in Nat
        BY <2>2, <2>3
      <4> QED
        BY <3>1, <4>1, FireType
    <3>3. /\ M.options = L.options /\ M.list = q /\ M.disabled = L.disabled
          /\ M.locked = L.locked
          /\ M.memory = (IF "memory" \in L.options THEN L.memory ELSE NoFn)
          /\ M.data = L.memory /\ M.fired = TRUE /\ M.firing = TRUE /\ M.running = L.running
          /\ M.firingIndex = Len(L.list) + 1 /\ M.firingLength = Len(q)
      <4>1. LET K == fire(N, value, start)
            IN  /\ K.options = N.options /\ K.list = N.list /\ K.disabled = N.disabled
                /\ K.stack = N.stack /\ K.locked = N.locked
                /\ K.memory = (IF "memory" \in N.options THEN value ELSE NoFn)
                /\ K.data = value /\ K.fired = TRUE /\ K.firing = TRUE /\ K.running = N.running
                /\ K.firingIndex = start /\ K.firingLength = Len(N.list)
        BY DEF CbList, fire
      <4> QED
        BY <2>2, <3>0, <3>1, <4>1
    <3>4. ~ L.running /\ ~ hollow /\ dues = << >>
      BY <2>5, <1>0 DEF RoundIs
    <3>5. Hears(L) /\ Place(M) = Len(L.list) + 1
      BY <1>4, <2>5, <3>3, <3>4 DEF Hears, Place
    <3>6. d = new
      <4>1. << >> \o new = new
        BY <1>1, ConcatEmptySeq
      <4> QED
        BY <3>4, <3>5, <4>1
    <3>7. new = SubSeq(q, Len(L.list) + 1, Len(q))
      <4>1. CASE Skips(L, f)
        <5>1. SubSeq(L.list, Len(L.list) + 1, Len(L.list)) = << >>
          BY <1>0
        <5> QED
          BY <2>1, <4>1, <5>1
      <4>2. CASE ~ Skips(L, f)
        <5>1. SubSeq(Append(L.list, f), Len(L.list) + 1, Len(L.list) + 1)
                = SubSeq(L.list, Len(L.list) + 1, Len(L.list)) \o <<f>>
          BY <1>0, EndLonger
        <5>2. SubSeq(L.list, Len(L.list) + 1, Len(L.list)) = << >>
          BY <1>0
        <5>3. << >> \o <<f>> = <<f>>
          OBVIOUS
        <5>4. q = Append(L.list, f) /\ Len(q) = Len(L.list) + 1
          BY <1>0, <2>1, <4>2
        <5> QED
          BY <4>2, <5>1, <5>2, <5>3, <5>4
      <4> QED
        BY <4>1, <4>2
    <3>8. Len(L.list) + 1 \in 1 .. Len(q) + 1
      BY <1>0, <2>3
    <3>9. Place(M) >= 1
      BY <1>0, <3>5
    <3>10. RoundIs(M, d, hollow)
      BY <1>4, <3>3, <3>4, <3>5, <3>6, <3>7, <3>8, <3>9 DEF RoundIs
    <3> QED
      BY <1>0, <1>2, <2>1, <2>5, <3>2, <3>3, <3>5, <3>10
  <2>6. CASE ~ L.firing /\ L.memory = NoFn
    <3>1. M = N
      BY <1>4, <2>2, <2>6 DEF addCallback
    <3>2. ~ Hears(L) /\ d = dues
      BY <1>4, <2>6 DEF Hears
    <3>3. RoundIs(M, d, hollow)
      BY <1>4, <2>2, <2>6, <3>1, <3>2 DEF RoundIs
    <3>4. /\ M.list = (IF Skips(L, f) THEN L.list ELSE Append(L.list, f))
          /\ M.firing = Hears(L)
      BY <2>1, <2>2, <2>6, <3>1, <3>2, <1>0 DEF Hears
    <3>5. /\ M.fired = (L.fired \/ (~ L.firing /\ Hears(L)))
          /\ M.data = (IF ~ L.firing /\ Hears(L) THEN L.memory ELSE L.data)
          /\ M.memory = (IF ~ L.firing /\ Hears(L) /\ "memory" \notin L.options
                          THEN NoFn ELSE L.memory)
      BY <2>2, <3>1, <3>2, <1>0
    <3> QED
      BY <1>2, <2>2, <3>1, <3>3, <3>4, <3>5
  <2> QED
    BY <1>0, <2>4, <2>5, <2>6
<1> QED
  BY <1>0, <1>3, <1>4

(* Of the places of a list, those before the loop's.                        *)
LEMMA PlacesBefore ==
  ASSUME NEW S, NEW q \in Seq(S), NEW gone, NEW k \in Nat
  PROVE  Cardinality({i \in Places(q, gone) : i <= k}) \in 0 .. k
<1>1. PICK T \in SUBSET (1 .. k) : T = {i \in Places(q, gone) : i <= k}
  <2>1. {i \in Places(q, gone) : i <= k} \subseteq 1 .. k
    BY DEF Places
  <2> QED
    BY <2>1
<1>2. IsFiniteSet(1 .. k) /\ Cardinality(1 .. k) = k
  BY FS_Interval
<1>3. IsFiniteSet(T) /\ Cardinality(T) <= k
  BY <1>2, FS_Subset
<1>4. Cardinality(T) \in Nat
  BY <1>3, FS_CardinalityType
<1> QED
  BY <1>1, <1>3, <1>4

Removes(L, f, hollow, M, d) ==
  /\ M \in CbList /\ d \in Seq(Fs) /\ RoundIs(M, d, hollow)
  /\ M.options = L.options /\ M.running = L.running /\ M.firing = L.firing
  /\ M.list = Without(L.list, {f})

(* What is removed is due no more; nothing else is skipped or called twice. *)
LEMMA RemoveRound ==
  ASSUME NEW L \in CbList, NEW f \in Fs, NEW dues \in Seq(Fs), NEW hollow \in BOOLEAN,
         RoundIs(L, dues, hollow), L.firing => L.running,
         NEW M, M = removeCallback(L, f), NEW d, d = Without(dues, {f})
  PROVE  Removes(L, f, hollow, M, d)
<1> SUFFICES
      /\ M \in CbList /\ d \in Seq(Fs) /\ RoundIs(M, d, hollow)
      /\ M.options = L.options /\ M.running = L.running /\ M.firing = L.firing
      /\ M.list = Without(L.list, {f})
  BY DEF Removes
<1>0. /\ L.list \in Seq(Fs) /\ Len(L.list) \in Nat
      /\ L.firingIndex \in Nat /\ L.firingLength \in Nat
      /\ L.disabled \in BOOLEAN /\ L.firing \in BOOLEAN /\ L.running \in BOOLEAN
  BY CbListFacts
<1>1. PICK q \in Seq(Fs), rest \in FnLists : q = L.list /\ rest = Without(q, {f})
  BY <1>0, WithoutType DEF FnLists
<1>2. d \in Seq(Fs)
  BY WithoutType
<1>3. PICK all \in 0 .. Len(q) : all = Cardinality(Places(q, {f}))
  BY PlacesFinite
<1>4. PICK before \in 0 .. L.firingIndex :
        before = Cardinality({i \in Places(q, {f}) : i <= L.firingIndex})
  BY <1>0, PlacesBefore
<1>5. PICK N \in CbList :
        /\ N = [L EXCEPT !.list = Without(@, {f})]
        /\ N.list = rest /\ N.options = L.options /\ N.disabled = L.disabled
        /\ N.firing = L.firing /\ N.running = L.running
        /\ N.firingIndex = L.firingIndex /\ N.firingLength = L.firingLength
  <2>1. [L EXCEPT !.list = Without(@, {f})] = [L EXCEPT !.list = rest]
    BY <1>1 DEF CbList
  <2> QED
    BY <2>1 DEF CbList
<1>6. Len(rest) = Len(q) - all
  BY <1>1, <1>3, WithoutLength
<1>7. CASE ~ L.firing
  <2>1. M = N
    BY <1>5, <1>7 DEF removeCallback
  <2>2. ~ hollow /\ dues = << >> /\ ~ L.running
    BY <1>0, <1>7 DEF RoundIs
  <2>3. d = << >>
    BY <2>2, WithoutEmpty
  <2>4. L.disabled => rest = << >>
    BY <1>1, WithoutEmpty DEF RoundIs
  <2>5. RoundIs(M, d, hollow)
    BY <1>5, <1>7, <2>1, <2>2, <2>3, <2>4 DEF RoundIs
  <2> QED
    BY <1>1, <1>2, <1>5, <2>1, <2>5
<1>8. CASE L.firing
  <2>1. M = [N EXCEPT !.firingLength = @ - all, !.firingIndex = @ - before]
    <3>1. /\ all = Cardinality({i \in DOMAIN L.list : L.list[i] = f})
          /\ before = Cardinality({i \in {j \in DOMAIN L.list : L.list[j] = f} : i <= L.firingIndex})
      BY <1>1, <1>3, <1>4 DEF Places
    <3> QED
      BY <1>5, <1>8, <3>1 DEF removeCallback
  <2>2. L.firingLength - all \in Nat /\ L.firingIndex - before \in Nat
    <3>1. Len(q) \in Nat /\ (L.disabled => Len(q) = 0)
      BY <1>0, <1>1 DEF RoundIs
    <3>2. ~ L.disabled => L.firingLength = Len(q)
      BY <1>1, <1>8 DEF RoundIs
    <3> QED
      BY <1>0, <3>1, <3>2
  <2>3. PICK n \in Nat, k \in Nat : n = L.firingLength - all /\ k = L.firingIndex - before
    BY <2>2
  <2>4. /\ M \in CbList /\ M.list = rest /\ M.options = L.options /\ M.disabled = L.disabled
        /\ M.firing = L.firing /\ M.running = L.running
        /\ M.firingIndex = k /\ M.firingLength = n
    <3>1. PICK E \in CbList : E = [N EXCEPT !.firingLength = n]
      BY DEF CbList
    <3>2. /\ E.list = N.list /\ E.options = N.options /\ E.disabled = N.disabled
          /\ E.firing = N.firing /\ E.running = N.running
          /\ E.firingIndex = N.firingIndex /\ E.firingLength = n
      BY <3>1 DEF CbList
    <3>3. M = [E EXCEPT !.firingIndex = k]
      <4>1. M = [N EXCEPT !.firingLength = n, !.firingIndex = k]
        BY <1>5, <2>1, <2>3 DEF CbList
      <4> QED
        BY <3>1, <4>1 DEF CbList
    <3>4. /\ M \in CbList /\ M.list = E.list /\ M.options = E.options
          /\ M.disabled = E.disabled /\ M.firing = E.firing /\ M.running = E.running
          /\ M.firingIndex = k /\ M.firingLength = E.firingLength
      BY <3>3, IndexType
    <3> QED
      BY <1>5, <3>2, <3>4
  <2>5. L.disabled => rest = << >>
    BY <1>1, WithoutEmpty DEF RoundIs
  <2>6. ~ L.disabled => n = Len(rest)
    BY <1>1, <1>6, <1>8, <2>3 DEF RoundIs
  <2>7. Place(M) = k + 1
    BY <1>8, <2>4 DEF Place
  <2>8. ASSUME ~ hollow, L.disabled PROVE d = << >>
    BY <2>8, <1>8, WithoutEmpty DEF RoundIs
  <2>9. ASSUME ~ hollow, ~ L.disabled
        PROVE  d = SubSeq(rest, k + 1, n) /\ k + 1 \in 1 .. Len(rest) + 1
    <3>1. /\ dues = SubSeq(q, L.firingIndex + 1, Len(q))
          /\ L.firingIndex + 1 \in 1 .. Len(q) + 1 /\ L.firingLength = Len(q)
      BY <1>1, <1>8, <2>9 DEF RoundIs, Place
    <3>2. L.firingIndex \in 0 .. Len(q)
      BY <1>0, <3>1
    <3>3. EndKept(q, {f}, L.firingIndex, before, all)
      BY <1>3, <1>4, <3>2, WithoutEnd
    <3>4. k <= Len(rest) /\ Len(rest) \in Nat
      <4>1. Len(rest) \in Nat
        BY DEF FnLists
      <4> QED
        BY <1>6, <2>3, <3>3, <4>1 DEF EndKept
    <3>5. d = SubSeq(rest, k + 1, n)
      <4>1. n = Len(q) - all /\ k + 1 = L.firingIndex - before + 1
        BY <2>3, <3>1
      <4>2. SubSeq(rest, k + 1, n) = Without(SubSeq(q, L.firingIndex + 1, Len(q)), {f})
        BY <1>1, <3>3, <4>1 DEF EndKept
      <4> QED
        BY <3>1, <4>2
    <3>6. k + 1 \in 1 .. Len(rest) + 1
      BY <3>4
    <3> QED
      BY <3>5, <3>6
  <2>10. Place(M) >= 1
    BY <2>7
  <2>11. RoundIs(M, d, hollow)
    BY <1>8, <2>4, <2>5, <2>6, <2>7, <2>8, <2>9, <2>10 DEF RoundIs
  <2> QED
    BY <1>1, <1>2, <2>4, <2>11
<1> QED
  BY <1>0, <1>7, <1>8

(* A list that is emptied in a round has nothing due.                       *)
LEMMA EmptyRound ==
  ASSUME NEW L \in CbList, NEW dues, NEW hollow \in BOOLEAN, RoundIs(L, dues, hollow),
         NEW M, M = empty(L)
  PROVE  /\ M \in CbList /\ RoundIs(M, << >>, L.firing)
         /\ M.options = L.options /\ M.running = L.running /\ M.firing = L.firing
         /\ M.list = << >>
<1>1. << >> \in FnLists /\ L.firing \in BOOLEAN
  BY CbListFacts DEF FnLists
<1>2. M \in CbList
  BY <1>1, EmptyType
<1>3. /\ M.list = << >> /\ M.disabled = FALSE /\ M.firing = L.firing
      /\ M.running = L.running /\ M.options = L.options
      /\ M.firingIndex = L.firingIndex /\ M.firingLength = 0
  BY EmptyFields
<1>4. Len(<< >>) = 0
  OBVIOUS
<1>5. RoundIs(M, << >>, L.firing)
  BY <1>1, <1>3, <1>4 DEF RoundIs, Place
<1> QED
  BY <1>2, <1>3, <1>5

(* A list that is disabled has nothing due.                                 *)
LEMMA DisableRound ==
  ASSUME NEW L \in CbList, NEW dues, NEW hollow \in BOOLEAN, RoundIs(L, dues, hollow),
         NEW M, M = disable(L)
  PROVE  /\ M \in CbList /\ RoundIs(M, << >>, hollow)
         /\ M.options = L.options /\ M.running = L.running /\ M.firing = L.firing
         /\ M.list = << >> /\ M.disabled = TRUE /\ M.fired = L.fired /\ M.data = L.data
         /\ M.memory = NoFn /\ M.locked = TRUE
<1>1. << >> \in FnLists /\ << >> \in ValueLists
  BY CbListFacts DEF FnLists, ValueLists
<1>2. M \in CbList
  BY <1>1, DisableType
<1>3. /\ M.options = L.options /\ M.list = << >> /\ M.disabled = TRUE
      /\ M.stack = << >> /\ M.locked = TRUE /\ M.memory = NoFn
      /\ M.data = L.data /\ M.fired = L.fired /\ M.firing = L.firing
      /\ M.running = L.running
      /\ M.firingIndex = L.firingIndex /\ M.firingLength = L.firingLength
  BY DisableFields
<1>4. RoundIs(M, << >>, hollow)
  BY <1>3 DEF RoundIs, Place
<1> QED
  BY <1>2, <1>3, <1>4

(* A list that is locked goes on with its round if it remembers.            *)
LEMMA LockRound ==
  ASSUME NEW L \in CbList, NEW dues, NEW hollow \in BOOLEAN, RoundIs(L, dues, hollow),
         NEW M, M = lock(L)
  PROVE  /\ M \in CbList
         /\ RoundIs(M, IF M.disabled THEN << >> ELSE dues, hollow)
         /\ L.memory # NoFn => RoundIs(M, dues, hollow)
         /\ M.options = L.options /\ M.running = L.running /\ M.firing = L.firing
         /\ M.list \in {L.list, << >>} /\ M.memory = L.memory
<1>1. << >> \in FnLists /\ << >> \in ValueLists
  BY CbListFacts DEF FnLists, ValueLists
<1>2. CASE L.memory = NoFn
  <2>1. M = disable(L)
    BY <1>2 DEF lock
  <2>2. /\ M \in CbList /\ RoundIs(M, << >>, hollow)
        /\ M.options = L.options /\ M.running = L.running /\ M.firing = L.firing
        /\ M.list = << >> /\ M.disabled = TRUE /\ M.memory = NoFn
    BY <2>1, DisableRound
  <2> QED
    BY ONLY <1>2, <2>2
<1>3. CASE L.memory # NoFn
  <2>1. M \in CbList
    BY <1>1, LockType
  <2>2. /\ M.options = L.options /\ M.list = L.list /\ M.disabled = L.disabled
        /\ M.locked = TRUE /\ M.memory = L.memory
        /\ M.data = L.data /\ M.fired = L.fired /\ M.firing = L.firing
        /\ M.running = L.running
        /\ M.firingIndex = L.firingIndex /\ M.firingLength = L.firingLength
    BY <1>1, <1>3, LockType
  <2>3. RoundIs(M, dues, hollow)
    BY <2>2 DEF RoundIs, Place
  <2>4. RoundIs(M, IF M.disabled THEN << >> ELSE dues, hollow)
    BY <2>2, <2>3 DEF RoundIs
  <2> QED
    BY <2>1, <2>2, <2>3, <2>4
<1> QED
  BY <1>2, <1>3

(* A list from its first element to its last.                               *)
LEMMA WholeList ==
  ASSUME NEW S, NEW q \in Seq(S)
  PROVE  SubSeq(q, 1, Len(q)) = q
<1>1. PICK r \in Seq(S) : r = SubSeq(q, 1, Len(q))
  <2>1. SubSeq(q, 1, Len(q)) \in Seq(S)
    OBVIOUS
  <2> QED
    BY <2>1
<1>2. Len(r) = Len(q) /\ \A i \in 1 .. Len(r) : r[i] = q[i]
  BY <1>1
<1>3. r = q
  BY <1>2, SeqEqual
<1> QED
  BY <1>1, <1>3

(* A round begins with the whole list.                                      *)
Begun(L, value, M) ==
  /\ M \in CbList /\ RoundIs(M, L.list, FALSE)
  /\ M.options = L.options /\ M.list = L.list /\ M.disabled = L.disabled
  /\ M.locked = L.locked
  /\ M.memory = (IF "memory" \in L.options THEN value ELSE NoFn)
  /\ M.data = value /\ M.fired = TRUE /\ M.firing = TRUE /\ M.running = L.running
  /\ M.firingIndex = 1

(* fire from the start: the whole list is due.                              *)
LEMMA FireBegins ==
  ASSUME NEW L \in CbList, NEW value \in Val, L.running = FALSE, L.disabled = FALSE
  PROVE  Begun(L, value, fire(L, value, 1))
<1> DEFINE M == fire(L, value, 1)
<1>0. L.list \in Seq(Fs) /\ Len(L.list) \in Nat
  BY CbListFacts
<1>1. M \in CbList
  BY <1>0, FireType
<1>2. /\ M.options = L.options /\ M.list = L.list /\ M.disabled = L.disabled
      /\ M.locked = L.locked
      /\ M.memory = (IF "memory" \in L.options THEN value ELSE NoFn)
      /\ M.data = value /\ M.fired = TRUE /\ M.firing = TRUE /\ M.running = L.running
      /\ M.firingIndex = 1 /\ M.firingLength = Len(L.list)
  BY DEF CbList, fire
<1> HIDE DEF M
<1>3. Place(M) = 1
  BY <1>2 DEF Place
<1>4. L.list = SubSeq(M.list, 1, M.firingLength)
  BY <1>0, <1>2, WholeList
<1>5. 1 \in 1 .. Len(M.list) + 1
  BY <1>0, <1>2
<1>6. RoundIs(M, L.list, FALSE)
  BY <1>2, <1>3, <1>4, <1>5 DEF RoundIs
<1>7. Begun(L, value, M)
  BY <1>1, <1>2, <1>6 DEF Begun
<1> QED
  BY <1>7 DEF M

Fires(L, value, hollow, M, d) ==
  /\ M \in CbList /\ d \in Seq(Fs) /\ RoundIs(M, d, hollow)
  /\ M.options = L.options /\ M.list = L.list /\ M.disabled = L.disabled
  /\ M.locked = L.locked /\ M.running = L.running
  /\ M.firing = (L.firing \/ Accepts(L))
  /\ Accepts(L) /\ ~ L.firing =>
       /\ M.memory = (IF "memory" \in L.options THEN value ELSE NoFn)
       /\ M.data = value /\ M.fired = TRUE /\ M.firingIndex = 1
  /\ ~ Accepts(L) => M = L
  /\ L.firing => M.memory = L.memory

(* fireWith begins a round, or waits for one, or is not accepted.           *)
LEMMA FireRound ==
  ASSUME NEW L \in CbList, NEW value \in Values, NEW dues \in Seq(Fs), NEW hollow \in BOOLEAN,
         RoundIs(L, dues, hollow), NEW M, M = fireWith(L, value),
         NEW d, d = IF Accepts(L) /\ ~ L.firing THEN L.list ELSE dues
  PROVE  Fires(L, value, hollow, M, d)
<1> SUFFICES
      /\ M \in CbList /\ d \in Seq(Fs) /\ RoundIs(M, d, hollow)
      /\ M.options = L.options /\ M.list = L.list /\ M.disabled = L.disabled
      /\ M.locked = L.locked /\ M.running = L.running
      /\ M.firing = (L.firing \/ Accepts(L))
      /\ Accepts(L) /\ ~ L.firing =>
           /\ M.memory = (IF "memory" \in L.options THEN value ELSE NoFn)
           /\ M.data = value /\ M.fired = TRUE /\ M.firingIndex = 1
      /\ ~ Accepts(L) => M = L
      /\ L.firing => M.memory = L.memory
  BY DEF Fires
<1>0. /\ L.list \in Seq(Fs) /\ L.disabled \in BOOLEAN /\ L.firing \in BOOLEAN
      /\ L.running \in BOOLEAN
  BY CbListFacts
<1>1. CASE ~ Accepts(L)
  BY <1>0, <1>1 DEF fireWith
<1>2. CASE Accepts(L) /\ L.firing
  <2>1. PICK q \in ValueLists : q = Append(L.stack, value)
    <3>1. L.stack \in Seq(Values)
      BY CbListFacts
    <3>2. Append(L.stack, value) \in Seq(Values)
      BY <3>1
    <3> QED
      BY <3>2 DEF ValueLists
  <2>2. M = [L EXCEPT !.stack = q]
    <3>1. M = [L EXCEPT !.stack = Append(@, value)]
      BY <1>2 DEF fireWith
    <3> QED
      BY <2>1, <3>1 DEF CbList
  <2>3. /\ M \in CbList /\ M.list = L.list /\ M.options = L.options
        /\ M.disabled = L.disabled /\ M.locked = L.locked /\ M.memory = L.memory
        /\ M.firing = L.firing /\ M.running = L.running
        /\ M.firingIndex = L.firingIndex /\ M.firingLength = L.firingLength
    BY <2>2, StackType
  <2>4. d = dues
    BY <1>2
  <2>5. RoundIs(M, d, hollow)
    BY <2>3, <2>4 DEF RoundIs, Place
  <2> QED
    BY <1>0, <1>2, <2>3, <2>4, <2>5
<1>3. CASE Accepts(L) /\ ~ L.firing
  <2>1. M = fire(L, value, 1) /\ d = L.list
    BY <1>3 DEF fireWith
  <2>2. L.running = FALSE /\ L.disabled = FALSE /\ value \in Val
    BY <1>0, <1>3 DEF RoundIs, Accepts, Val
  <2>3. Begun(L, value, M)
    BY <2>1, <2>2, FireBegins
  <2>4. hollow = FALSE
    BY <1>3 DEF RoundIs
  <2> QED
    BY <1>0, <1>3, <2>1, <2>3, <2>4 DEF Begun
<1> QED
  BY <1>1, <1>2, <1>3

Ends(L, M, d) ==
  /\ M \in CbList /\ d \in Seq(Fs) /\ RoundIs(M, d, FALSE)
  /\ M.options = L.options /\ M.list \in {L.list, << >>} /\ M.locked = L.locked
  /\ M.running = FALSE /\ (M.fired = TRUE \/ M.fired = L.fired)
  /\ (M.firing => M.memory # NoFn \/ "memory" \notin L.options)
  /\ L.locked /\ ~ L.disabled /\ L.memory # NoFn =>
       /\ M.firing = FALSE /\ M.disabled = L.disabled /\ M.memory = L.memory
       /\ M.data = L.data /\ M.fired = L.fired

(* The end of a loop: the next round, or none, nothing being due.           *)
LEMMA LoopEndsRound ==
  ASSUME NEW L \in CbList, NEW dues \in Seq(Fs), NEW hollow \in BOOLEAN,
         RoundIs(L, dues, hollow), L.firing, ~ L.running,
         L.disabled \/ L.firingIndex > L.firingLength,
         NEW M, M = LoopEnds(L),
         NEW d, d = IF M.firing THEN M.list ELSE IF hollow THEN << >> ELSE dues
  PROVE  Ends(L, M, d)
<1> SUFFICES
      /\ M \in CbList /\ d \in Seq(Fs) /\ RoundIs(M, d, FALSE)
      /\ M.options = L.options /\ M.list \in {L.list, << >>} /\ M.locked = L.locked
      /\ M.running = FALSE /\ (M.fired = TRUE \/ M.fired = L.fired)
      /\ (M.firing => M.memory # NoFn \/ "memory" \notin L.options)
      /\ L.locked /\ ~ L.disabled /\ L.memory # NoFn =>
           /\ M.firing = FALSE /\ M.disabled = L.disabled /\ M.memory = L.memory
           /\ M.data = L.data /\ M.fired = L.fired
  BY DEF Ends
<1>0. /\ L.list \in Seq(Fs) /\ L.stack \in Seq(Values) /\ L.disabled \in BOOLEAN
      /\ L.locked \in BOOLEAN /\ L.memory \in Val
      /\ L.firingIndex \in Nat /\ L.firingLength \in Nat
      /\ << >> \in Seq(Fs)
  BY CbListFacts
<1>1. PICK E \in CbList : E = [L EXCEPT !.firing = FALSE]
  BY FiringType
<1>2. /\ E.list = L.list /\ E.options = L.options /\ E.disabled = L.disabled
      /\ E.stack = L.stack /\ E.locked = L.locked /\ E.memory = L.memory
      /\ E.data = L.data /\ E.fired = L.fired /\ E.firing = FALSE
      /\ E.running = FALSE
  <2>1. L.running = FALSE
    BY CbListFacts
  <2> QED
    BY <1>1, <2>1 DEF CbList
<1>3. (IF hollow THEN << >> ELSE dues) = << >>
  <2>1. CASE hollow
    BY <2>1
  <2>2. CASE ~ hollow /\ L.disabled
    BY <2>2 DEF RoundIs
  <2>3. CASE ~ hollow /\ ~ L.disabled
    <3>1. dues = SubSeq(L.list, L.firingIndex, L.firingLength)
      BY <2>3 DEF RoundIs, Place
    <3>2. L.firingIndex > L.firingLength
      BY <2>3
    <3>3. SubSeq(L.list, L.firingIndex, L.firingLength) = << >>
      BY <1>0, <3>2
    <3> QED
      BY <2>3, <3>1, <3>3
  <2> QED
    BY <2>1, <2>2, <2>3
<1>4. ASSUME ~ L.disabled, ~ L.locked, L.stack # << >>
      PROVE  /\ M \in CbList /\ d \in Seq(Fs) /\ RoundIs(M, d, FALSE)
             /\ M.options = L.options /\ M.list = L.list /\ M.locked = L.locked
             /\ M.running = FALSE /\ M.fired = TRUE
             /\ M.memory # NoFn \/ "memory" \notin L.options
  <2>1. PICK value \in Values, q \in ValueLists : value = Head(L.stack) /\ q = Tail(L.stack)
    <3>1. Head(L.stack) \in Values /\ Tail(L.stack) \in Seq(Values)
      BY <1>0, <1>4
    <3> QED
      BY <3>1 DEF ValueLists
  <2>2. PICK N \in CbList : N = [E EXCEPT !.stack = q]
    BY StackType
  <2>3. /\ N.list = E.list /\ N.options = E.options /\ N.disabled = E.disabled
        /\ N.locked = E.locked /\ N.memory = E.memory /\ N.running = E.running
    BY <2>2 DEF CbList
  <2>4. M = fire(N, value, 1)
    <3>1. [[L EXCEPT !.firing = FALSE] EXCEPT !.stack = Tail(@)] = N
      BY <1>1, <1>2, <2>1, <2>2 DEF CbList
    <3> QED
      BY <1>4, <2>1, <3>1 DEF LoopEnds
  <2>5. N.running = FALSE /\ N.disabled = FALSE /\ value \in Val /\ value # NoFn
    BY <1>0, <1>2, <1>4, <2>3 DEF Val, Values, NoFn
  <2>6. Begun(N, value, M)
    BY <2>4, <2>5, FireBegins
  <2>7. d = N.list
    BY <2>6 DEF Begun
  <2> QED
    BY <1>0, <1>2, <2>3, <2>5, <2>6, <2>7 DEF Begun
<1>5. ASSUME L.disabled \/ (~ L.locked /\ L.stack = << >>)
      PROVE  M = E
  BY <1>1, <1>5 DEF LoopEnds
<1>6. ASSUME ~ L.disabled, L.locked, L.memory # NoFn
      PROVE  /\ M \in CbList /\ M.list = << >> /\ M.options = L.options
             /\ M.disabled = L.disabled /\ M.locked = L.locked /\ M.memory = L.memory
             /\ M.data = L.data /\ M.fired = L.fired /\ M.firing = FALSE
             /\ M.running = FALSE
  <2>1. PICK q \in FnLists : q = << >>
    BY <1>0 DEF FnLists
  <2>2. M = [E EXCEPT !.list = q]
    BY <1>1, <1>6, <2>1 DEF LoopEnds
  <2> QED
    BY <1>2, <2>1, <2>2 DEF CbList
<1>7. ASSUME ~ L.disabled, L.locked, L.memory = NoFn
      PROVE  /\ M \in CbList /\ M.list = << >> /\ M.options = L.options
             /\ M.locked = L.locked /\ M.fired = L.fired /\ M.firing = FALSE
             /\ M.running = FALSE
  <2>1. M = disable(E)
    BY <1>1, <1>7 DEF LoopEnds
  <2>2. << >> \in FnLists /\ << >> \in ValueLists
    BY CbListFacts DEF FnLists, ValueLists
  <2>3. M \in CbList
    BY <2>1, <2>2, DisableType
  <2>4. /\ M.options = E.options /\ M.list = << >> /\ M.locked = TRUE
        /\ M.fired = E.fired /\ M.firing = E.firing /\ M.running = E.running
    BY <2>1, DisableFields
  <2> QED
    BY <1>0, <1>2, <1>7, <2>3, <2>4
<1>8. ASSUME M \in CbList, M.firing = FALSE, M.running = FALSE, M.disabled => M.list = << >>
      PROVE  d = << >> /\ RoundIs(M, d, FALSE)
  <2>1. d = << >>
    BY <1>3, <1>8
  <2> QED
    BY <1>8, <2>1 DEF RoundIs
<1>9. CASE ~ L.disabled /\ ~ L.locked /\ L.stack # << >>
  BY <1>4, <1>9
<1>10. CASE L.disabled \/ (~ L.locked /\ L.stack = << >>)
  <2>1. M.disabled => M.list = << >>
    BY <1>2, <1>5, <1>10 DEF RoundIs
  <2> QED
    BY <1>0, <1>2, <1>5, <1>8, <1>10, <2>1
<1>11. CASE ~ L.disabled /\ L.locked /\ L.memory # NoFn
  BY <1>0, <1>6, <1>8, <1>11
<1>12. CASE ~ L.disabled /\ L.locked /\ L.memory = NoFn
  BY <1>0, <1>7, <1>8, <1>12
<1> QED
  BY <1>9, <1>10, <1>11, <1>12

(* The next callback is the first that is due.                              *)
Nexts(L, dues, hollow, M, d) ==
  /\ M \in CbList /\ d \in Seq(Fs) /\ RoundIs(M, d, hollow)
  /\ M.list = L.list /\ M.options = L.options /\ M.disabled = L.disabled
  /\ M.locked = L.locked /\ M.memory = L.memory
  /\ M.data = L.data /\ M.fired = L.fired /\ M.firing = L.firing
  /\ M = [L EXCEPT !.firingIndex = @ + 1] =>
       M.running = L.running /\ M.firingIndex = L.firingIndex + 1
  /\ L.firingIndex \in 1 .. Len(L.list)
  /\ ~ hollow =>
       /\ dues # << >> /\ Head(dues) = L.list[L.firingIndex]
       /\ d = SubSeq(L.list, L.firingIndex + 1, Len(L.list))

(* A callback that is called is the first that is due.                      *)
LEMMA NextRound ==
  ASSUME NEW L \in CbList, NEW dues \in Seq(Fs), NEW hollow \in BOOLEAN,
         RoundIs(L, dues, hollow), L.firing, ~ L.running, ~ L.disabled,
         L.firingIndex <= L.firingLength,
         NEW M, M = [L EXCEPT !.firingIndex = @ + 1] \/ M = [L EXCEPT !.running = TRUE],
         NEW d, d = IF dues # << >> THEN Tail(dues) ELSE dues
  PROVE  Nexts(L, dues, hollow, M, d)
<1> SUFFICES
      /\ M \in CbList /\ d \in Seq(Fs) /\ RoundIs(M, d, hollow)
      /\ M.list = L.list /\ M.options = L.options /\ M.disabled = L.disabled
      /\ M.locked = L.locked /\ M.memory = L.memory
      /\ M.data = L.data /\ M.fired = L.fired /\ M.firing = L.firing
      /\ M = [L EXCEPT !.firingIndex = @ + 1] =>
           M.running = L.running /\ M.firingIndex = L.firingIndex + 1
      /\ L.firingIndex \in 1 .. Len(L.list)
      /\ ~ hollow =>
           /\ dues # << >> /\ Head(dues) = L.list[L.firingIndex]
           /\ d = SubSeq(L.list, L.firingIndex + 1, Len(L.list))
  BY DEF Nexts
<1>0. /\ L.list \in Seq(Fs) /\ Len(L.list) \in Nat /\ L.firingIndex \in Nat
      /\ L.running = FALSE /\ L.firing \in BOOLEAN
  BY CbListFacts
<1>1. L.firingIndex \in 1 .. Len(L.list) /\ Place(L) = L.firingIndex
      /\ L.firingLength = Len(L.list)
  BY <1>0 DEF RoundIs, Place
<1>2. d \in Seq(Fs)
  OBVIOUS
<1>3. PICK n \in Nat : n = L.firingIndex + 1
  BY <1>0
<1>4. /\ M \in CbList /\ M.list = L.list /\ M.options = L.options
      /\ M.disabled = L.disabled /\ M.locked = L.locked /\ M.memory = L.memory
      /\ M.data = L.data /\ M.fired = L.fired /\ M.firing = L.firing
      /\ M.firingLength = L.firingLength
  <2>1. CASE M = [L EXCEPT !.firingIndex = @ + 1]
    BY <1>3, <2>1 DEF CbList
  <2>2. CASE M = [L EXCEPT !.running = TRUE]
    BY <2>2 DEF CbList
  <2> QED
    BY <2>1, <2>2
<1>5. M = [L EXCEPT !.firingIndex = @ + 1] =>
         M.running = L.running /\ M.firingIndex = L.firingIndex + 1
  BY DEF CbList
<1>6. M = [L EXCEPT !.running = TRUE] =>
         M.running = TRUE /\ M.firingIndex = L.firingIndex
  BY DEF CbList
<1>7. Place(M) = L.firingIndex + 1
  BY <1>0, <1>5, <1>6 DEF Place
<1>8. ASSUME ~ hollow
      PROVE  /\ dues # << >> /\ Head(dues) = L.list[L.firingIndex]
             /\ d = SubSeq(L.list, L.firingIndex + 1, Len(L.list))
  <2>1. dues = SubSeq(L.list, L.firingIndex, Len(L.list))
    BY <1>1, <1>8 DEF RoundIs
  <2>2. Len(dues) = Len(L.list) - L.firingIndex + 1
    BY <1>0, <1>1, <2>1
  <2>3. dues # << >>
    BY <1>0, <1>1, <2>2
  <2>4. Len(L.list) \in L.firingIndex .. Len(L.list)
    BY <1>0, <1>1
  <2>5. /\ Head(SubSeq(L.list, L.firingIndex, Len(L.list))) = L.list[L.firingIndex]
        /\ Tail(SubSeq(L.list, L.firingIndex, Len(L.list)))
             = SubSeq(L.list, L.firingIndex + 1, Len(L.list))
    <3>1. PICK r \in Seq(Fs), k \in Nat, e \in Nat :
            r = L.list /\ k = L.firingIndex /\ e = Len(L.list)
      BY <1>0
    <3>2. k \in 1 .. Len(r) /\ e \in k .. Len(r)
      BY <1>0, <1>1, <3>1
    <3>3. /\ Head(SubSeq(r, k, e)) = r[k]
          /\ Tail(SubSeq(r, k, e)) = SubSeq(r, k + 1, e)
      BY ONLY r \in Seq(Fs), <3>2, HeadTailOfSubSeq
    <3> QED
      BY <3>1, <3>3
  <2> QED
    BY <2>1, <2>3, <2>5
<1>9. L.firingIndex + 1 \in 1 .. Len(L.list) + 1 /\ L.firingIndex + 1 >= 1
  BY <1>0, <1>1
<1>10. RoundIs(M, d, hollow)
  BY <1>0, <1>1, <1>4, <1>7, <1>8, <1>9 DEF RoundIs
<1> QED
  BY <1>1, <1>2, <1>4, <1>5, <1>8, <1>10

(* A callback that returns is passed.                                       *)
Passed(L) == [L EXCEPT !.running = FALSE, !.firingIndex = @ + 1]

Passes(L, dues, hollow, M) ==
  /\ M \in CbList /\ RoundIs(M, dues, hollow)
  /\ M.list = L.list /\ M.options = L.options /\ M.disabled = L.disabled
  /\ M.locked = L.locked /\ M.memory = L.memory
  /\ M.data = L.data /\ M.fired = L.fired /\ M.firing = L.firing

(* Its return changes nothing in what is due.                               *)
LEMMA ReturnRound ==
  ASSUME NEW L \in CbList, NEW dues, NEW hollow \in BOOLEAN,
         RoundIs(L, dues, hollow), L.running,
         NEW M, M = Passed(L)
  PROVE  Passes(L, dues, hollow, M)
<1>1. PICK n \in Nat : n = L.firingIndex + 1
  BY CbListFacts
<1>2. M = [L EXCEPT !.running = FALSE, !.firingIndex = n]
  BY <1>1 DEF CbList, Passed
<1>3. /\ M.list = L.list /\ M.options = L.options /\ M.disabled = L.disabled
      /\ M.locked = L.locked /\ M.memory = L.memory
      /\ M.data = L.data /\ M.fired = L.fired /\ M.firing = L.firing
      /\ M.running = FALSE /\ M.firingIndex = n /\ M.firingLength = L.firingLength
  BY <1>2 DEF CbList
<1>4. M \in CbList
  <2>1. PICK A \in CbList : A = [L EXCEPT !.running = FALSE]
    BY RunningType
  <2>2. [A EXCEPT !.firingIndex = n] \in CbList
    BY IndexType
  <2>3. M = [A EXCEPT !.firingIndex = n]
    BY <1>2, <2>1 DEF CbList
  <2> QED
    BY <2>2, <2>3
<1>5. Place(M) = Place(L)
  BY <1>1, <1>3 DEF Place
<1>6. RoundIs(M, dues, hollow)
  BY <1>3, <1>5 DEF RoundIs
<1> QED
  BY <1>3, <1>4, <1>6 DEF Passes

(* One that returns false ends the round.                                   *)
Stopped(L) ==
  [L EXCEPT !.running = FALSE, !.memory = NoFn, !.firingIndex = L.firingLength + 1]

Stops(L, dues, hollow, M) ==
  /\ M \in CbList /\ RoundIs(M, << >>, hollow)
  /\ M.list = L.list /\ M.options = L.options /\ M.firing = L.firing

(* Nothing is due after a false that stops.                                 *)
LEMMA ReturnFalseRound ==
  ASSUME NEW L \in CbList, NEW dues, NEW hollow \in BOOLEAN,
         RoundIs(L, dues, hollow), L.running,
         NEW M, M = Stopped(L)
  PROVE  Stops(L, dues, hollow, M)
<1>0. L.firingLength \in Nat /\ L.list \in Seq(Fs) /\ Len(L.list) \in Nat
  BY CbListFacts
<1>1. PICK n \in Nat : n = L.firingLength + 1
  BY <1>0
<1>2. M = [L EXCEPT !.running = FALSE, !.memory = NoFn, !.firingIndex = n]
  BY <1>1 DEF CbList, Stopped
<1>3. /\ M.list = L.list /\ M.options = L.options /\ M.disabled = L.disabled
      /\ M.firing = L.firing
      /\ M.running = FALSE /\ M.firingIndex = n /\ M.firingLength = L.firingLength
  BY <1>2 DEF CbList
<1>4. M \in CbList
  <2>1. PICK A \in CbList : A = [L EXCEPT !.running = FALSE]
    BY RunningType
  <2>2. PICK B \in CbList : B = [A EXCEPT !.memory = NoFn]
    BY DEF CbList, Val
  <2>3. [B EXCEPT !.firingIndex = n] \in CbList
    BY IndexType
  <2>4. M = [B EXCEPT !.firingIndex = n]
    BY <1>2, <2>1, <2>2 DEF CbList
  <2> QED
    BY <2>3, <2>4
<1>5. Place(M) = n /\ n >= 1
  BY <1>0, <1>1, <1>3 DEF Place
<1>6. ASSUME L.firing, ~ L.disabled
      PROVE  /\ SubSeq(L.list, n, L.firingLength) = << >>
             /\ n \in 1 .. Len(L.list) + 1
  <2>1. L.firingLength = Len(L.list)
    BY <1>6 DEF RoundIs
  <2> QED
    BY <1>0, <1>1, <2>1
<1>7. RoundIs(M, << >>, hollow)
  BY <1>3, <1>5, <1>6 DEF RoundIs
<1> QED
  BY <1>3, <1>4, <1>7 DEF Stops

(* How often a callback is in a list.                                       *)
Count(q, f) == Cardinality(Places(q, {f}))

(* A count is a number.                                                     *)
LEMMA CountType ==
  ASSUME NEW S, NEW q \in Seq(S), NEW f
  PROVE  Count(q, f) \in Nat
<1>1. Cardinality(Places(q, {f})) \in 0 .. Len(q) /\ Len(q) \in Nat
  BY PlacesFinite
<1> QED
  BY <1>1 DEF Count

(* Nothing is in the empty list.                                            *)
LEMMA CountNone == ASSUME NEW f PROVE Count(<< >>, f) = 0
<1>1. Places(<< >>, {f}) = {}
  BY DEF Places
<1> QED
  BY <1>1, FS_EmptySet DEF Count

(* One more, if what is added is it.                                        *)
LEMMA CountAppend ==
  ASSUME NEW S, NEW q \in Seq(S), NEW e \in S, NEW f
  PROVE  Count(Append(q, e), f) = Count(q, f) + (IF e = f THEN 1 ELSE 0)
<1>1. Cardinality(Places(Append(q, e), {f})) =
        Cardinality(Places(q, {f})) + (IF e \in {f} THEN 1 ELSE 0)
  BY PlacesAppend
<1> QED
  BY <1>1 DEF Count

(* One less, if the first was it.                                           *)
LEMMA CountFirst ==
  ASSUME NEW S, NEW q \in Seq(S), q # << >>, NEW f
  PROVE  Count(q, f) = Count(Tail(q), f) + (IF Head(q) = f THEN 1 ELSE 0)
<1>1. PICK t \in Seq(S), e \in S : t = Tail(q) /\ e = Head(q)
  <2>1. Tail(q) \in Seq(S) /\ Head(q) \in S
    BY HeadTailProperties
  <2> QED
    BY <2>1
<1>2. PICK p \in Seq(S) : p = Append(<< >>, e)
  <2>1. << >> \in Seq(S)
    OBVIOUS
  <2>2. Append(<< >>, e) \in Seq(S)
    BY <2>1
  <2> QED
    BY <2>2
<1>3. q = p \o t
  <2>1. PICK r \in Seq(S) : r = p \o t
    <3>1. p \o t \in Seq(S)
      OBVIOUS
    <3> QED
      BY <3>1
  <2>2. p[1] = e /\ Len(p) = 1
    BY <1>2
  <2>3. /\ Len(t) = Len(q) - 1 /\ Len(q) \in Nat /\ Len(q) # 0 /\ e = q[1]
        /\ \A i \in 1 .. Len(t) : t[i] = q[i + 1]
    BY <1>1, HeadTailProperties
  <2>4. Len(r) = Len(q)
    <3>1. Len(r) = Len(p) + Len(t)
      BY <2>1
    <3> QED
      BY <2>2, <2>3, <3>1
  <2>5. ASSUME NEW i \in 1 .. Len(r) PROVE r[i] = q[i]
    <3>1. r[i] = IF i <= 1 THEN p[i] ELSE t[i - 1]
      BY <2>1, <2>2, <2>3, <2>4, ConcatProperties
    <3>2. i # 1 => i - 1 \in 1 .. Len(t) /\ (i - 1) + 1 = i
      BY <2>3, <2>4
    <3>3. i <= 1 => i = 1
      BY <2>4
    <3> QED
      BY <2>2, <2>3, <2>4, <3>1, <3>2, <3>3
  <2>6. r = q
    BY <2>4, <2>5, SeqEqual
  <2> QED
    BY <2>1, <2>6
<1>4. Cardinality(Places(p \o t, {f})) = Cardinality(Places(p, {f})) + Cardinality(Places(t, {f}))
  BY PlacesConcat
<1>5. Count(p, f) = IF e = f THEN 1 ELSE 0
  <2>1. << >> \in Seq(S)
    OBVIOUS
  <2>2. PICK z \in Seq(S) : z = << >>
    BY <2>1
  <2>3. Count(Append(z, e), f) = Count(z, f) + (IF e = f THEN 1 ELSE 0)
    BY CountAppend
  <2>4. Count(z, f) = 0
    BY <2>2, CountNone
  <2> QED
    BY <1>2, <2>2, <2>3, <2>4
<1>6. Count(q, f) = Count(p, f) + Count(t, f)
  BY <1>3, <1>4 DEF Count
<1>7. Count(t, f) \in Nat
  BY CountType
<1> QED
  BY <1>1, <1>5, <1>6, <1>7

(* The same for a list of one that is joined to it.                         *)
LEMMA CountMore ==
  ASSUME NEW S, NEW q \in Seq(S), NEW e \in S, NEW f
  PROVE  Count(q \o <<e>>, f) = Count(q, f) + (IF e = f THEN 1 ELSE 0)
<1>1. Append(q, e) = q \o <<e>>
  BY AppendIsConcat
<1>2. Count(Append(q, e), f) = Count(q, f) + (IF e = f THEN 1 ELSE 0)
  BY CountAppend
<1> QED
  BY <1>1, <1>2

-----------------------------------------------------------------------------
(* The lists together.                                                      *)

Names == {{"list"}, DeferredLists}

ListsOf(N, ls, dues, em) ==
  /\ N \in Names /\ ls \in [N -> CbList] /\ dues \in [N -> FnLists]
  /\ em \subseteq N \cap {"list"}
  /\ \A n \in N : RoundIs(ls[n], dues[n], n \in em)
  /\ \A n \in N \ {"done", "fail"} : ls[n].list \in Seq(Fns)

(* g is f with x at n.                                                      *)
Changed(N, f, n, x, g) ==
  DOMAIN g = N /\ g[n] = x /\ \A m \in N \ {n} : g[m] = f[m]

(* An update of a function changes it at one place.                         *)
LEMMA ExceptChanges ==
  ASSUME NEW N, NEW S, NEW f \in [N -> S], NEW n \in N, NEW x
  PROVE  Changed(N, f, n, x, [f EXCEPT ![n] = x])
BY DEF Changed

(* A step that changes one list and keeps its round keeps them all.         *)
LEMMA OneList ==
  ASSUME NEW N, NEW ls, NEW dues, NEW em, ListsOf(N, ls, dues, em),
         NEW n \in N, NEW M \in CbList, NEW d \in Seq(Fs),
         NEW em2, em2 \subseteq N \cap {"list"}, em2 \ {n} = em \ {n},
         RoundIs(M, d, n \in em2), n \in {"done", "fail"} \/ M.list \in Seq(Fns),
         NEW ls2, NEW dues2, ls2 \in [N -> CbList], dues2 \in [N -> FnLists],
         Changed(N, ls, n, M, ls2), Changed(N, dues, n, d, dues2)
  PROVE  ListsOf(N, ls2, dues2, em2)
<1>1. ASSUME NEW m \in N PROVE RoundIs(ls2[m], dues2[m], m \in em2)
  <2>1. CASE m = n
    BY <2>1 DEF Changed
  <2>2. CASE m # n
    <3>1. ls2[m] = ls[m] /\ dues2[m] = dues[m] /\ (m \in em2) = (m \in em)
      BY <2>2 DEF Changed
    <3> QED
      BY <3>1 DEF ListsOf
  <2> QED
    BY <2>1, <2>2
<1>2. ASSUME NEW m \in N \ {"done", "fail"} PROVE ls2[m].list \in Seq(Fns)
  <2>1. CASE m = n
    BY <2>1 DEF Changed
  <2>2. CASE m # n
    BY <2>2 DEF Changed, ListsOf
  <2> QED
    BY <2>1, <2>2
<1> QED
  BY <1>1, <1>2 DEF ListsOf

(* The lists that fire are on the stack, and those below the innermost wait *)
(* for a callback to return.                                                *)
FramesOf(N, ls, fr) ==
  /\ fr \in Seq(N)
  /\ \A i \in 1 .. Len(fr), j \in 1 .. Len(fr) : fr[i] = fr[j] => i = j
  /\ \A n \in N : ls[n].firing <=> \E i \in 1 .. Len(fr) : fr[i] = n
  /\ \A i \in 1 .. Len(fr) : i < Len(fr) => ls[fr[i]].running

InControl(ls, fr) == fr # << >> => ls[Last(fr)].running

(* The innermost list of the stack fires.                                   *)
LEMMA LastFires ==
  ASSUME NEW N, NEW ls, NEW fr, FramesOf(N, ls, fr), fr # << >>
  PROVE  Last(fr) \in N /\ ls[Last(fr)].firing /\ Last(fr) = fr[Len(fr)] /\ Len(fr) \in 1 .. Len(fr)
<1>1. fr \in Seq(N) /\ Len(fr) \in Nat /\ Len(fr) # 0
  BY DEF FramesOf
<1>2. Len(fr) \in 1 .. Len(fr)
  BY <1>1
<1>3. Last(fr) = fr[Len(fr)] /\ fr[Len(fr)] \in N
  BY <1>1, <1>2 DEF Last
<1> QED
  BY <1>2, <1>3 DEF FramesOf

(* Whoever has control: every list that fires is running.                   *)
LEMMA AllRun ==
  ASSUME NEW N, NEW ls, NEW fr, FramesOf(N, ls, fr), InControl(ls, fr),
         NEW n \in N, ls[n].firing
  PROVE  ls[n].running
<1>1. PICK i \in 1 .. Len(fr) : fr[i] = n
  BY DEF FramesOf
<1>2. Len(fr) \in Nat /\ fr # << >>
  BY <1>1 DEF FramesOf
<1>3. CASE i < Len(fr)
  BY <1>1, <1>3 DEF FramesOf
<1>4. CASE ~ i < Len(fr)
  <2>1. i = Len(fr)
    BY <1>2, <1>4
  <2> QED
    BY <1>1, <1>2, <2>1 DEF InControl, Last
<1> QED
  BY <1>3, <1>4

(* Steps that begin and end no round, and stop only the innermost.          *)
LEMMA SameFrames ==
  ASSUME NEW N, NEW ls, NEW fr, FramesOf(N, ls, fr), NEW ls2,
         \A n \in N : ls2[n].firing = ls[n].firing,
         \A n \in N : ls2[n].running = ls[n].running \/ (fr # << >> /\ n = Last(fr))
  PROVE  FramesOf(N, ls2, fr)
<1>1. ASSUME NEW i \in 1 .. Len(fr), i < Len(fr) PROVE ls2[fr[i]].running
  <2>1. fr \in Seq(N) /\ Len(fr) \in Nat /\ fr # << >> /\ fr[i] \in N
    BY DEF FramesOf
  <2>2. fr[i] # Last(fr)
    <3>1. Last(fr) = fr[Len(fr)] /\ Len(fr) \in 1 .. Len(fr) /\ i # Len(fr)
      BY <1>1, <2>1, LastFires
    <3> QED
      BY <3>1 DEF FramesOf
  <2>3. ls[fr[i]].running
    BY <1>1 DEF FramesOf
  <2> QED
    BY <2>1, <2>2, <2>3
<1> QED
  BY <1>1 DEF FramesOf

(* A call that begins a round puts its list on the stack.                   *)
LEMMA NewFrame ==
  ASSUME NEW N, NEW ls, NEW fr, FramesOf(N, ls, fr), InControl(ls, fr),
         NEW n \in N, ls[n].firing = FALSE, NEW M, M.firing = TRUE, M.running = ls[n].running,
         NEW ls2, Changed(N, ls, n, M, ls2), NEW fr2, fr2 = Append(fr, n)
  PROVE  FramesOf(N, ls2, fr2)
<1>1. fr \in Seq(N) /\ Len(fr) \in Nat
  BY DEF FramesOf
<1>2. /\ fr2 \in Seq(N) /\ Len(fr2) = Len(fr) + 1 /\ fr2[Len(fr) + 1] = n
      /\ \A i \in 1 .. Len(fr) : fr2[i] = fr[i]
  BY <1>1
<1>3. \A i \in 1 .. Len(fr2) : i \in 1 .. Len(fr) \/ i = Len(fr) + 1
  BY <1>1, <1>2
<1>4. \A i \in 1 .. Len(fr) : fr[i] \in N /\ fr[i] # n
  BY <1>1 DEF FramesOf
<1>5. ASSUME NEW i \in 1 .. Len(fr2), NEW j \in 1 .. Len(fr2), fr2[i] = fr2[j]
      PROVE  i = j
  BY <1>2, <1>3, <1>4, <1>5 DEF FramesOf
<1>6. ASSUME NEW m \in N
      PROVE  ls2[m].firing <=> \E i \in 1 .. Len(fr2) : fr2[i] = m
  <2>1. CASE m = n
    <3>1. Len(fr) + 1 \in 1 .. Len(fr2)
      BY <1>1, <1>2
    <3> QED
      BY <1>2, <2>1, <3>1 DEF Changed
  <2>2. CASE m # n
    <3>1. ls2[m].firing = ls[m].firing
      BY <2>2 DEF Changed
    <3>2. (\E i \in 1 .. Len(fr2) : fr2[i] = m) <=> \E i \in 1 .. Len(fr) : fr[i] = m
      <4>1. \A i \in 1 .. Len(fr) : i \in 1 .. Len(fr2)
        BY <1>1, <1>2
      <4> QED
        BY <1>2, <1>3, <2>2, <4>1
    <3> QED
      BY <3>1, <3>2 DEF FramesOf
  <2> QED
    BY <2>1, <2>2
<1>7. ASSUME NEW i \in 1 .. Len(fr2), i < Len(fr2) PROVE ls2[fr2[i]].running
  <2>1. i \in 1 .. Len(fr)
    BY <1>1, <1>2, <1>7
  <2>2. fr2[i] = fr[i] /\ fr[i] \in N /\ fr[i] # n
    BY <1>2, <1>4, <2>1
  <2>3. ls[fr[i]].firing
    BY <2>1, <2>2 DEF FramesOf
  <2>4. ls[fr[i]].running
    BY <2>2, <2>3, AllRun
  <2> QED
    BY <2>2, <2>4 DEF Changed
<1> QED
  BY <1>2, <1>5, <1>6, <1>7 DEF FramesOf

(* A round that ends leaves the stack.                                      *)
LEMMA FrameEnds ==
  ASSUME NEW N, NEW ls, NEW fr, FramesOf(N, ls, fr), fr # << >>,
         NEW n, n = Last(fr), NEW M, M.firing = FALSE,
         NEW ls2, Changed(N, ls, n, M, ls2), NEW fr2, fr2 = Front(fr)
  PROVE  FramesOf(N, ls2, fr2)
<1>1. /\ fr \in Seq(N) /\ Len(fr) \in Nat /\ Len(fr) # 0 /\ n \in N /\ n = fr[Len(fr)]
      /\ Len(fr) \in 1 .. Len(fr)
  <2>1. fr \in Seq(N)
    BY DEF FramesOf
  <2>2. /\ Last(fr) \in N /\ Last(fr) = fr[Len(fr)] /\ Len(fr) \in 1 .. Len(fr)
    BY LastFires
  <2>3. Len(fr) \in Nat /\ Len(fr) # 0
    BY <2>1
  <2> QED
    BY <2>1, <2>2, <2>3
<1>2. fr2 = SubSeq(fr, 1, Len(fr) - 1)
  BY DEF Front
<1>3. /\ fr2 \in Seq(N) /\ Len(fr2) = Len(fr) - 1
      /\ \A i \in 1 .. Len(fr2) : fr2[i] = fr[i]
  <2>1. PICK k \in Nat : k = Len(fr) - 1
    BY <1>1
  <2>2. fr2 = SubSeq(fr, 1, k) /\ k <= Len(fr)
    BY <1>1, <1>2, <2>1
  <2>3. \A i \in 1 .. k : fr[i] \in N
    BY <1>1, <2>1
  <2>4. /\ SubSeq(fr, 1, k) \in Seq(N) /\ Len(SubSeq(fr, 1, k)) = k
        /\ \A i \in 1 .. k : SubSeq(fr, 1, k)[i] = fr[i]
    BY <1>1, <2>1, <2>3
  <2> QED
    BY <2>1, <2>2, <2>4
<1>4. \A i \in 1 .. Len(fr2) : i \in 1 .. Len(fr) /\ i < Len(fr)
  BY <1>1, <1>3
<1>5. \A i \in 1 .. Len(fr) : i \in 1 .. Len(fr2) \/ i = Len(fr)
  BY <1>1, <1>3
<1>6. ASSUME NEW i \in 1 .. Len(fr2), NEW j \in 1 .. Len(fr2), fr2[i] = fr2[j]
      PROVE  i = j
  BY <1>3, <1>4, <1>6 DEF FramesOf
<1>7. \A i \in 1 .. Len(fr2) : fr[i] \in N /\ fr[i] # n
  <2>1. ASSUME NEW i \in 1 .. Len(fr2) PROVE fr[i] \in N /\ fr[i] # n
    <3>1. i # Len(fr) /\ i \in 1 .. Len(fr)
      BY <1>1, <1>4
    <3> QED
      BY <1>1, <3>1 DEF FramesOf
  <2> QED
    BY <2>1
<1>8. ASSUME NEW m \in N
      PROVE  ls2[m].firing <=> \E i \in 1 .. Len(fr2) : fr2[i] = m
  <2>1. CASE m = n
    BY <1>3, <1>7, <2>1 DEF Changed
  <2>2. CASE m # n
    <3>1. ls2[m].firing = ls[m].firing
      BY <2>2 DEF Changed
    <3>2. (\E i \in 1 .. Len(fr2) : fr2[i] = m) <=> \E i \in 1 .. Len(fr) : fr[i] = m
      BY <1>1, <1>3, <1>4, <1>5, <2>2
    <3> QED
      BY <3>1, <3>2 DEF FramesOf
  <2> QED
    BY <2>1, <2>2
<1>9. ASSUME NEW i \in 1 .. Len(fr2) PROVE ls2[fr2[i]].running
  <2>1. fr2[i] = fr[i] /\ fr[i] \in N /\ fr[i] # n
    BY <1>3, <1>7
  <2>2. ls2[fr[i]] = ls[fr[i]]
    BY <2>1 DEF Changed
  <2>3. i \in 1 .. Len(fr) /\ i < Len(fr)
    BY <1>4
  <2>4. ls[fr[i]].running
    BY <2>3 DEF FramesOf
  <2> QED
    BY <2>1, <2>2, <2>4
<1> QED
  BY <1>3, <1>6, <1>8, <1>9 DEF FramesOf

Two == {"done", "fail"}
OutcomeOf(w) == IF w = "done" THEN "resolved" ELSE "rejected"

(* Of the two lists of the outcomes each is the other's other.              *)
LEMMA OtherFacts ==
  ASSUME NEW n \in Two
  PROVE  /\ Other(n) \in Two /\ Other(n) # n /\ Other(Other(n)) = n
         /\ \A w \in Two : w = n \/ w = Other(n)
BY DEF Other, Two

(* The Deferred's own callbacks are three, and none is the page's.          *)
LEMMA OwnFacts ==
  /\ OwnCallbacks[1] = "state" /\ OwnCallbacks[2] = "disable" /\ OwnCallbacks[3] = "lock"
  /\ ToSet(OwnCallbacks) = Own /\ Fns \cap Own = {}
<1>1. /\ OwnCallbacks[1] = "state" /\ OwnCallbacks[2] = "disable" /\ OwnCallbacks[3] = "lock"
      /\ DOMAIN OwnCallbacks = 1 .. 3
  BY DEF OwnCallbacks
<1>2. 1 .. 3 = {1, 2, 3}
  OBVIOUS
<1>3. ToSet(OwnCallbacks) = Own
  BY <1>1, <1>2 DEF ToSet, Own
<1> QED
  BY <1>1, <1>3, CallbacksAssumption

(* The list of a Deferred's outcome: its own callbacks, then the page's.    *)
HasOwn(q) ==
  /\ Len(q) >= 3
  /\ q[1] = "state" /\ q[2] = "disable" /\ q[3] = "lock"
  /\ \A i \in 4 .. Len(q) : q[i] \in Fns

(* Not settled: what is owed is what is in the list.                        *)
Untouched(n, L, ow) ==
  /\ L.fired = FALSE /\ L.firing = FALSE /\ L.disabled = FALSE
  /\ L.data = NoFn /\ L.memory = NoFn
  /\ HasOwn(L.list)
  /\ \A f \in Fns : ow[<<n, f>>] = Count(L.list, f)

(* Settled as w: what is owed is what is due.                               *)
Winner(w, L, O, d, ow, sw) ==
  /\ L.fired = TRUE /\ L.disabled = FALSE /\ L.data = sw /\ L.memory = sw
  /\ O.fired = FALSE /\ O.firing = FALSE /\ O.data = NoFn
  /\ \A f \in Fns : ow[<<w, f>>] = Count(d, f)

OpenedOf(w, L, O, d, ow, st, sw) ==
  Winner(w, L, O, d, ow, sw) /\ O.disabled = TRUE /\ st = OutcomeOf(w) /\ d \in Seq(Fns)

(* While its own callbacks run nobody else has control.                     *)
OpeningOf(w, L, O, d, ow, st, sw) ==
  /\ Winner(w, L, O, d, ow, sw)
  /\ L.firing = TRUE /\ L.running = FALSE /\ HasOwn(L.list)
  /\ L.firingIndex \in 1 .. 3 /\ (L.firingIndex = 3 => O.disabled = TRUE)
  /\ st = IF L.firingIndex = 1 THEN "pending" ELSE OutcomeOf(w)

Quiet(ls, dues, ow, st, sw) ==
  \/ sw = NoFn /\ st = "pending" /\ \A n \in Two : Untouched(n, ls[n], ow)
  \/ /\ sw \in Values
     /\ \E w \in Two : OpenedOf(w, ls[w], ls[Other(w)], dues[w], ow, st, sw)

Opens(ls, fr, dues, ow, st, sw) ==
  /\ sw \in Values /\ fr # << >>
  /\ \E w \in Two : w = Last(fr) /\ OpeningOf(w, ls[w], ls[Other(w)], dues[w], ow, st, sw)

Kinds(ls) ==
  /\ \A n \in Two : ls[n].options = {"once", "memory"} /\ ls[n].locked = TRUE
  /\ ls["progress"].options = {"memory"}
  /\ ls["progress"].firing => ls["progress"].memory # NoFn

(* Whoever calls a method, no opening is under way.                         *)
LEMMA QuietNow ==
  ASSUME NEW ls, NEW fr, NEW dues, NEW ow, NEW st, NEW sw,
         Quiet(ls, dues, ow, st, sw) \/ Opens(ls, fr, dues, ow, st, sw),
         InControl(ls, fr) \/ Last(fr) = "progress"
  PROVE  Quiet(ls, dues, ow, st, sw)
BY DEF Opens, OpeningOf, InControl, Two

(* Steps of the progress list do not touch the outcome.                     *)
LEMMA QuietElsewhere ==
  ASSUME NEW ls, NEW dues, NEW ow, NEW st, NEW sw, Quiet(ls, dues, ow, st, sw),
         NEW ls2, NEW dues2, NEW ow2,
         \A n \in Two : ls2[n] = ls[n] /\ dues2[n] = dues[n],
         \A n \in Two, f \in Fns : ow2[<<n, f>>] = ow[<<n, f>>]
  PROVE  Quiet(ls2, dues2, ow2, st, sw)
<1>1. CASE sw = NoFn /\ st = "pending" /\ \A n \in Two : Untouched(n, ls[n], ow)
  BY <1>1 DEF Quiet, Untouched
<1>2. ASSUME sw \in Values, NEW w \in Two,
             OpenedOf(w, ls[w], ls[Other(w)], dues[w], ow, st, sw)
      PROVE  Quiet(ls2, dues2, ow2, st, sw)
  <2>1. /\ ls2[w] = ls[w] /\ ls2[Other(w)] = ls[Other(w)] /\ dues2[w] = dues[w]
    BY OtherFacts
  <2>2. OpenedOf(w, ls2[w], ls2[Other(w)], dues2[w], ow2, st, sw)
    BY <1>2, <2>1 DEF OpenedOf, Winner
  <2> QED
    BY <1>2, <2>2 DEF Quiet
<1> QED
  BY <1>1, <1>2 DEF Quiet

(* A callback is added to n, and owed if it is new.                         *)
AddOf(ls, dues, ow, n, f, ls2, dues2, ow2) ==
  /\ ls[n] \in CbList /\ dues[n] \in Seq(Fs)
  /\ RoundIs(ls[n], dues[n], FALSE) /\ ls[n].options = {"once", "memory"}
  /\ ls2[n] = addCallback(ls[n], f) /\ ls2[Other(n)] = ls[Other(n)]
  /\ dues2[n] = (IF Hears(ls[n]) THEN dues[n] \o NewCall(ls[n], f) ELSE dues[n])
  /\ dues2[Other(n)] = dues[Other(n)]
  /\ \A g \in Fns : ow2[<<n, g>>] =
                      ow[<<n, g>>] + (IF g = f THEN Len(NewCall(ls[n], f)) ELSE 0)
  /\ \A g \in Fns : ow2[<<Other(n), g>>] = ow[<<Other(n), g>>]
  /\ \A g \in Fns : ow[<<n, g>>] \in Nat

(* Callbacks that are added are called if the outcome is the list's.        *)
LEMMA QuietAdd ==
  ASSUME NEW ls, NEW dues, NEW ow, NEW st, NEW sw, Quiet(ls, dues, ow, st, sw),
         NEW n \in Two, NEW f \in Fns,
         NEW ls2, NEW dues2, NEW ow2, AddOf(ls, dues, ow, n, f, ls2, dues2, ow2)
  PROVE  Quiet(ls2, dues2, ow2, st, sw)
<1> USE DEF AddOf
<1>1. PICK L \in CbList, q \in Seq(Fs) : L = ls[n] /\ q = dues[n]
  OBVIOUS
<1>2. PICK M : M = ls2[n]
  OBVIOUS
<1>3. PICK O : O = ls[Other(n)]
  OBVIOUS
<1>4. PICK d : d = dues2[n]
  OBVIOUS
<1>5. PICK old \in Seq(Fs) : old = L.list
  BY CbListFacts
<1>6. Skips(L, f) = L.disabled /\ L.disabled \in BOOLEAN /\ L.firing \in BOOLEAN
  BY <1>1, CbListFacts DEF Skips
<1>7. Adds(L, f, FALSE, M, d)
  <2>1. RoundIs(L, q, FALSE) /\ M = addCallback(L, f) /\ FALSE \in BOOLEAN
    BY <1>1, <1>2
  <2>2. d = IF Hears(L) THEN q \o NewCall(L, f) ELSE q
    BY <1>1, <1>4
  <2>3. f \in Fs
    BY DEF Fs
  <2> QED
    BY <2>1, <2>2, <2>3, AddRound
<1>8. Other(n) \in Two /\ Other(n) # n /\ Other(Other(n)) = n
      /\ \A w \in Two : w = n \/ w = Other(n)
  BY OtherFacts
<1>9. ASSUME ~ Skips(L, f), NEW g \in Fns
      PROVE  ow2[<<n, g>>] = ow[<<n, g>>] + (IF f = g THEN 1 ELSE 0)
  <2>1. NewCall(ls[n], f) = <<f>> /\ Len(<<f>>) = 1
    BY <1>1, <1>9 DEF NewCall
  <2> QED
    BY <2>1
<1>10. CASE sw = NoFn /\ st = "pending" /\ \A m \in Two : Untouched(m, ls[m], ow)
  <2>1. Untouched(n, L, ow) /\ Untouched(Other(n), O, ow)
    BY <1>1, <1>3, <1>8, <1>10
  <2>2. Hears(L) = FALSE /\ ~ Skips(L, f)
    BY <1>6, <2>1 DEF Untouched, Hears
  <2>3. PICK r \in Seq(Fs) : r = Append(old, f)
    <3>1. Append(old, f) \in Seq(Fs)
      BY DEF Fs
    <3> QED
      BY <3>1
  <2>4. M.list = r
    BY <1>5, <1>7, <2>2, <2>3 DEF Adds
  <2>5. HasOwn(r)
    <3>1. HasOwn(old)
      BY <1>5, <2>1 DEF Untouched
    <3>2. /\ Len(r) = Len(old) + 1 /\ Len(old) \in Nat /\ r[Len(old) + 1] = f
          /\ \A i \in 1 .. Len(old) : r[i] = old[i]
      BY <2>3
    <3>3. Len(r) >= 3 /\ 1 \in 1 .. Len(old) /\ 2 \in 1 .. Len(old) /\ 3 \in 1 .. Len(old)
      BY <3>1, <3>2 DEF HasOwn
    <3>4. ASSUME NEW i \in 4 .. Len(r) PROVE r[i] \in Fns
      <4>1. CASE i = Len(old) + 1
        BY <3>2, <4>1
      <4>2. CASE i # Len(old) + 1
        <5>1. i \in 1 .. Len(old) /\ i \in 4 .. Len(old)
          BY <3>2, <4>2
        <5> QED
          BY <3>1, <3>2, <5>1 DEF HasOwn
      <4> QED
        BY <4>1, <4>2
    <3> QED
      BY <3>1, <3>2, <3>3, <3>4 DEF HasOwn
  <2>6. ASSUME NEW g \in Fns PROVE ow2[<<n, g>>] = Count(r, g)
    <3>1. Count(Append(old, f), g) = Count(old, g) + (IF f = g THEN 1 ELSE 0)
      <4>1. f \in Fs
        BY DEF Fs
      <4> QED
        BY <4>1, CountAppend
    <3>2. ow[<<n, g>>] = Count(old, g)
      BY <1>5, <2>1 DEF Untouched
    <3> QED
      BY <1>9, <2>2, <2>3, <3>1, <3>2
  <2>7. Untouched(n, M, ow2)
    <3>1. /\ M.fired = FALSE /\ M.firing = FALSE /\ M.disabled = FALSE
          /\ M.data = NoFn /\ M.memory = NoFn
      BY <1>7, <2>1, <2>2 DEF Untouched, Adds
    <3> QED
      BY <2>4, <2>5, <2>6, <3>1 DEF Untouched
  <2>8. Untouched(Other(n), O, ow2)
    BY <2>1 DEF Untouched
  <2>9. \A m \in Two : Untouched(m, ls2[m], ow2)
    BY <1>2, <1>3, <1>8, <2>7, <2>8
  <2> QED
    BY <1>10, <2>9 DEF Quiet
<1>11. ASSUME sw \in Values, NEW w \in Two,
              OpenedOf(w, ls[w], ls[Other(w)], dues[w], ow, st, sw)
       PROVE  Quiet(ls2, dues2, ow2, st, sw)
  <2>1. CASE w = n
    <3>1. OpenedOf(n, L, O, q, ow, st, sw)
      BY <1>1, <1>3, <1>11, <2>1
    <3>2. sw # NoFn
      BY <1>11 DEF Values, NoFn
    <3>3. Hears(L) /\ ~ Skips(L, f)
      BY <1>6, <3>1, <3>2 DEF OpenedOf, Winner, Hears
    <3>4. d = q \o <<f>> /\ q \in Seq(Fns)
      BY <1>1, <1>4, <3>1, <3>3 DEF OpenedOf, NewCall
    <3>5. d \in Seq(Fns)
      BY <3>4
    <3>6. ASSUME NEW g \in Fns PROVE ow2[<<n, g>>] = Count(d, g)
      <4>1. Count(q \o <<f>>, g) = Count(q, g) + (IF f = g THEN 1 ELSE 0)
        BY <3>4, CountMore
      <4>2. ow[<<n, g>>] = Count(q, g)
        BY <3>1 DEF OpenedOf, Winner
      <4> QED
        BY <1>9, <3>3, <3>4, <4>1, <4>2
    <3>7. M.fired = TRUE /\ M.disabled = FALSE /\ M.data = sw /\ M.memory = sw
      BY <1>1, <1>7, <3>1, <3>3 DEF OpenedOf, Winner, Adds
    <3>8. OpenedOf(n, M, O, d, ow2, st, sw)
      BY <3>1, <3>5, <3>6, <3>7 DEF OpenedOf, Winner
    <3>9. OpenedOf(n, ls2[n], ls2[Other(n)], dues2[n], ow2, st, sw)
      BY <1>2, <1>3, <1>4, <3>8
    <3> QED
      BY <1>11, <3>9 DEF Quiet
  <2>2. CASE w = Other(n)
    <3>1. OpenedOf(w, O, L, dues[w], ow, st, sw)
      BY <1>1, <1>3, <1>8, <1>11, <2>2
    <3>2. L.disabled = TRUE /\ Skips(L, f)
      BY <1>6, <3>1 DEF OpenedOf
    <3>3. M = L
      BY <1>1, <1>2, <3>2 DEF addCallback
    <3>4. OpenedOf(w, O, L, dues[w], ow2, st, sw)
      BY <2>2, <3>1 DEF OpenedOf, Winner
    <3>5. OpenedOf(w, ls2[w], ls2[Other(w)], dues2[w], ow2, st, sw)
      BY <1>2, <1>3, <1>8, <2>2, <3>3, <3>4
    <3> QED
      BY <1>11, <3>5 DEF Quiet
  <2> QED
    BY <1>8, <2>1, <2>2
<1> QED
  BY <1>10, <1>11 DEF Quiet

(* n is fired, which puts it on the stack if it begins a round.             *)
FireOf(N, ls, fr, dues, sw, n, value, ls2, fr2, dues2, sw2) ==
  /\ ls[n] \in CbList /\ dues[n] \in Seq(Fs) /\ RoundIs(ls[n], dues[n], FALSE)
  /\ ls[n].options = {"once", "memory"} /\ ls[n].locked = TRUE
  /\ ls2[n] = fireWith(ls[n], value) /\ ls2[Other(n)] = ls[Other(n)]
  /\ dues2[n] = (IF Accepts(ls[n]) /\ ~ ls[n].firing THEN ls[n].list ELSE dues[n])
  /\ dues2[Other(n)] = dues[Other(n)]
  /\ sw2 = (IF sw = NoFn THEN value ELSE sw)
  /\ fr \in Seq(N) /\ n \in N
  /\ fr2 = (IF ls2[n].firing /\ ~ ls[n].firing THEN Append(fr, n) ELSE fr)

(* resolve or reject: the first settles, the others do nothing.             *)
LEMMA QuietFire ==
  ASSUME NEW ls, NEW dues, NEW ow, NEW st, NEW sw, Quiet(ls, dues, ow, st, sw),
         NEW n \in Two, NEW value \in Values, NEW N, NEW fr,
         NEW ls2, NEW fr2, NEW dues2, NEW sw2,
         FireOf(N, ls, fr, dues, sw, n, value, ls2, fr2, dues2, sw2)
  PROVE  Quiet(ls2, dues2, ow, st, sw2) \/ Opens(ls2, fr2, dues2, ow, st, sw2)
<1> USE DEF FireOf
<1>1. PICK L \in CbList, q \in Seq(Fs) : L = ls[n] /\ q = dues[n]
  OBVIOUS
<1>2. PICK M, O, d : M = ls2[n] /\ O = ls[Other(n)] /\ d = dues2[n]
  OBVIOUS
<1>3. Fires(L, value, FALSE, M, d)
  <2>1. RoundIs(L, q, FALSE) /\ M = fireWith(L, value) /\ FALSE \in BOOLEAN
    BY <1>1, <1>2
  <2>2. d = IF Accepts(L) /\ ~ L.firing THEN L.list ELSE q
    BY <1>1, <1>2
  <2> QED
    BY <2>1, <2>2, FireRound
<1>4. L.disabled \in BOOLEAN /\ L.firing \in BOOLEAN /\ L.running \in BOOLEAN
  BY CbListFacts
<1>5. Other(n) \in Two /\ Other(n) # n /\ Other(Other(n)) = n
      /\ \A w \in Two : w = n \/ w = Other(n)
  BY OtherFacts
<1>6. value # NoFn
  BY DEF Values, NoFn
<1>7. CASE sw = NoFn /\ st = "pending" /\ \A m \in Two : Untouched(m, ls[m], ow)
  <2>1. Untouched(n, L, ow) /\ Untouched(Other(n), O, ow)
    BY <1>1, <1>2, <1>5, <1>7
  <2>2. Accepts(L) /\ L.firing = FALSE /\ L.running = FALSE
    <3>1. L.disabled = FALSE /\ L.fired = FALSE /\ L.firing = FALSE
      BY <2>1 DEF Untouched
    <3>2. ~ L.running
      BY <1>1, <3>1 DEF RoundIs
    <3> QED
      BY <1>4, <3>1, <3>2 DEF Accepts
  <2>3. /\ M.firing = TRUE /\ M.running = FALSE /\ M.firingIndex = 1 /\ M.fired = TRUE
        /\ M.disabled = FALSE /\ M.data = value /\ M.memory = value /\ M.list = L.list
        /\ d = L.list
    BY <1>1, <1>2, <1>3, <2>1, <2>2 DEF Untouched, Fires
  <2>4. sw2 = value
    BY <1>7
  <2>5. fr2 = Append(fr, n)
    BY <1>1, <1>2, <2>2, <2>3
  <2>6. Last(fr2) = n /\ fr2 # << >>
    <3>1. Len(Append(fr, n)) = Len(fr) + 1 /\ Append(fr, n)[Len(fr) + 1] = n
      OBVIOUS
    <3>2. Last(fr2) = fr2[Len(fr2)]
      BY DEF Last
    <3>3. Append(fr, n) # << >>
      <4>1. Len(fr) + 1 # 0 /\ Len(<< >>) = 0
        OBVIOUS
      <4> QED
        BY <3>1, <4>1
    <3> QED
      BY <2>5, <3>1, <3>2, <3>3
  <2>7. OpeningOf(n, M, O, d, ow, st, sw2)
    BY <1>7, <2>1, <2>3, <2>4 DEF OpeningOf, Winner, Untouched
  <2>8. ls2[Other(n)] = O
    BY <1>2
  <2>9. Opens(ls2, fr2, dues2, ow, st, sw2)
    BY <1>2, <2>4, <2>6, <2>7, <2>8 DEF Opens
  <2> QED
    BY <2>9
<1>8. ASSUME sw \in Values, NEW w \in Two,
             OpenedOf(w, ls[w], ls[Other(w)], dues[w], ow, st, sw)
      PROVE  Quiet(ls2, dues2, ow, st, sw2)
  <2>1. ~ Accepts(L)
    <3>1. CASE w = n
      <4>1. L.fired = TRUE
        BY <1>1, <1>8, <3>1 DEF OpenedOf, Winner
      <4> QED
        BY <1>1, <4>1 DEF Accepts
    <3>2. CASE w = Other(n)
      BY <1>1, <1>5, <1>8, <3>2 DEF OpenedOf, Accepts
    <3> QED
      BY <1>5, <3>1, <3>2
  <2>2. sw2 = sw /\ M = L /\ d = q
    <3>1. sw # NoFn
      BY <1>8 DEF Values, NoFn
    <3> QED
      BY <1>1, <1>2, <1>3, <2>1, <3>1 DEF Fires
  <2>3. ls2[w] = ls[w] /\ ls2[Other(w)] = ls[Other(w)] /\ dues2[w] = dues[w]
    BY <1>1, <1>2, <1>5, <2>2
  <2> QED
    BY <1>8, <2>2, <2>3 DEF Quiet
<1> QED
  BY <1>7, <1>8 DEF Quiet

(* The list that fires is that of the outcome.                              *)
LEMMA QuietOwes ==
  ASSUME NEW ls, NEW dues, NEW ow, NEW st, NEW sw, Quiet(ls, dues, ow, st, sw),
         NEW n \in Two, ls[n].firing = TRUE
  PROVE  sw \in Values /\ OpenedOf(n, ls[n], ls[Other(n)], dues[n], ow, st, sw)
<1>1. Other(n) \in Two /\ Other(n) # n /\ Other(Other(n)) = n
      /\ \A w \in Two : w = n \/ w = Other(n)
  BY OtherFacts
<1>2. ~ \A m \in Two : Untouched(m, ls[m], ow)
  BY DEF Untouched
<1>3. PICK w \in Two : sw \in Values /\ OpenedOf(w, ls[w], ls[Other(w)], dues[w], ow, st, sw)
  BY <1>2 DEF Quiet
<1>4. w # Other(n)
  BY <1>1, <1>3 DEF OpenedOf, Winner
<1> QED
  BY <1>1, <1>3, <1>4

(* The outcome's list goes on: what is owed stays what is due.              *)
LEMMA QuietRun ==
  ASSUME NEW ls, NEW dues, NEW ow, NEW st, NEW sw, Quiet(ls, dues, ow, st, sw),
         NEW n \in Two, ls[n].firing = TRUE,
         NEW ls2, ls2[Other(n)] = ls[Other(n)], NEW dues2, dues2[n] \in Seq(Fns), NEW ow2,
         ls2[n].fired = ls[n].fired, ls2[n].disabled = ls[n].disabled,
         ls2[n].data = ls[n].data, ls2[n].memory = ls[n].memory,
         \A g \in Fns : ow2[<<n, g>>] = Count(dues2[n], g)
  PROVE  Quiet(ls2, dues2, ow2, st, sw)
<1>1. sw \in Values /\ OpenedOf(n, ls[n], ls[Other(n)], dues[n], ow, st, sw)
  BY QuietOwes
<1>2. OpenedOf(n, ls2[n], ls2[Other(n)], dues2[n], ow2, st, sw)
  BY <1>1 DEF OpenedOf, Winner
<1> QED
  BY <1>1, <1>2 DEF Quiet

DeferredOf(ls, fr, dues, ow, st, sw) ==
  "done" \in DOMAIN ls =>
    Kinds(ls) /\ (Quiet(ls, dues, ow, st, sw) \/ Opens(ls, fr, dues, ow, st, sw))

CallbacksInv ==
  /\ ListsOf(DOMAIN lists, lists, dueCalls, emptied)
  /\ FramesOf(DOMAIN lists, lists, callbackFrames)
  /\ owed \in [(DOMAIN lists) \X Fns -> Nat]
  /\ DeferredOf(lists, callbackFrames, dueCalls, owed, state, settledWith)

(* The invariant, for one list.                                             *)
LEMMA InvFacts ==
  ASSUME CallbacksInv, NEW n \in DOMAIN lists
  PROVE  /\ lists \in [DOMAIN lists -> CbList] /\ dueCalls \in [DOMAIN lists -> FnLists]
         /\ lists[n] \in CbList /\ dueCalls[n] \in Seq(Fs)
         /\ (n \in emptied) \in BOOLEAN /\ RoundIs(lists[n], dueCalls[n], n \in emptied)
         /\ (n # "list" => (n \in emptied) = FALSE)
<1>1. /\ lists \in [DOMAIN lists -> CbList] /\ dueCalls \in [DOMAIN lists -> FnLists]
      /\ RoundIs(lists[n], dueCalls[n], n \in emptied) /\ emptied \subseteq {"list"}
  BY DEF CallbacksInv, ListsOf
<1>2. dueCalls[n] \in Seq(Fs)
  BY <1>1 DEF FnLists
<1> QED
  BY <1>1, <1>2

(* The invariant, for the names of a Deferred's lists.                      *)
LEMMA NameFacts ==
  ASSUME CallbacksInv, "done" \in DOMAIN lists
  PROVE  /\ DOMAIN lists = {"done", "fail", "progress"} /\ Two \subseteq DOMAIN lists
         /\ \A n \in DOMAIN lists : n \in Two \/ n = "progress"
         /\ "list" \notin DOMAIN lists /\ "progress" \notin Two
BY DEF CallbacksInv, ListsOf, Names, DeferredLists, Two

(* A function is itself, changed at one place to what was there.            *)
LEMMA SameChanges ==
  ASSUME NEW N, NEW S, NEW f \in [N -> S], NEW n \in N
  PROVE  Changed(N, f, n, f[n], f)
BY DEF Changed

(* What every call does to the lists together.                              *)
LEMMA CallStep ==
  ASSUME CallbacksInv, NEW n \in DOMAIN lists, NEW M \in CbList, Call(n, M),
         M.running = lists[n].running, lists[n].firing => M.firing,
         NEW d \in Seq(Fs), dueCalls' \in [DOMAIN lists -> FnLists],
         Changed(DOMAIN lists, dueCalls, n, d, dueCalls'),
         emptied' \subseteq (DOMAIN lists) \cap {"list"}, emptied' \ {n} = emptied \ {n},
         RoundIs(M, d, n \in emptied'), n \in {"done", "fail"} \/ M.list \in Seq(Fns)
  PROVE  /\ DOMAIN lists' = DOMAIN lists
         /\ ListsOf(DOMAIN lists, lists', dueCalls', emptied')
         /\ FramesOf(DOMAIN lists, lists', callbackFrames')
         /\ Changed(DOMAIN lists, lists, n, M, lists')
         /\ InControl(lists, callbackFrames)
         /\ callbackFrames' = IF M.firing /\ ~ lists[n].firing
                              THEN Append(callbackFrames, n) ELSE callbackFrames
<1>0. PICK N : N = DOMAIN lists
  OBVIOUS
<1>1. PICK ls \in [N -> CbList], dues \in [N -> FnLists] :
        N = DOMAIN lists /\ ls = lists /\ dues = dueCalls
  BY <1>0, InvFacts
<1>2. PICK fr, em : fr = callbackFrames /\ em = emptied
  OBVIOUS
<1>3. PICK ls2 : ls2 = lists'
  OBVIOUS
<1>4. PICK dues2 \in [N -> FnLists] : dues2 = dueCalls'
  BY <1>1
<1>5. PICK em2 : em2 = emptied'
  OBVIOUS
<1>6. PICK fr2 : fr2 = callbackFrames'
  OBVIOUS
<1>7. n \in N
  BY <1>1
<1>8. ls2 = [ls EXCEPT ![n] = M]
  BY <1>1, <1>3 DEF Call
<1>9. ls2 \in [N -> CbList]
  BY <1>8
<1>10. Changed(N, ls, n, M, ls2)
  BY <1>7, <1>8, ExceptChanges
<1>11. ListsOf(N, ls, dues, em) /\ FramesOf(N, ls, fr)
  BY <1>1, <1>2 DEF CallbacksInv
<1>12. ListsOf(N, ls2, dues2, em2)
  <2>1. Changed(N, dues, n, d, dues2) /\ em2 \subseteq N \cap {"list"} /\ em2 \ {n} = em \ {n}
    BY <1>1, <1>2, <1>4, <1>5
  <2>2. RoundIs(M, d, n \in em2)
    BY <1>5
  <2> QED
    BY <1>7, <1>9, <1>10, <1>11, <2>1, <2>2, OneList
<1>13. InControl(ls, fr)
  BY <1>1, <1>2 DEF Call, CallerInControl, InControl
<1>14. fr2 = IF M.firing /\ ~ ls[n].firing THEN Append(fr, n) ELSE fr
  BY <1>1, <1>2, <1>6 DEF Call
<1>15. M.running = ls[n].running /\ (ls[n].firing => M.firing)
       /\ M.firing \in BOOLEAN /\ ls[n].firing \in BOOLEAN
  BY <1>1, CbListFacts
<1>16. FramesOf(N, ls2, fr2)
  <2>1. CASE M.firing /\ ~ ls[n].firing
    <3>1. M.firing = TRUE /\ ls[n].firing = FALSE /\ fr2 = Append(fr, n)
      BY <1>14, <1>15, <2>1
    <3> QED
      BY <1>7, <1>10, <1>11, <1>13, <1>15, <3>1, NewFrame
  <2>2. CASE ~ (M.firing /\ ~ ls[n].firing)
    <3>1. M.firing = ls[n].firing /\ fr2 = fr
      BY <1>14, <1>15, <2>2
    <3>2. \A m \in N : ls2[m].firing = ls[m].firing /\ ls2[m].running = ls[m].running
      BY <1>10, <1>15, <3>1 DEF Changed
    <3> QED
      BY <1>11, <3>1, <3>2, SameFrames
  <2> QED
    BY <2>1, <2>2
<1> QED
  BY <1>1, <1>2, <1>3, <1>4, <1>5, <1>6, <1>10, <1>12, <1>13, <1>14, <1>16 DEF Changed

(* add, done, fail and progress keep the invariant.                         *)
LEMMA AddStep ==
  ASSUME CallbacksInv, NEW n \in DOMAIN lists, NEW f \in Fns, CallAdd(n, f)
  PROVE  CallbacksInv'
<1>1. PICK L \in CbList, q \in Seq(Fs) : L = lists[n] /\ q = dueCalls[n]
  BY InvFacts
<1>2. PICK hollow \in BOOLEAN : hollow = (n \in emptied)
  BY InvFacts
<1>3. PICK M : M = addCallback(L, f)
  OBVIOUS
<1>4. PICK d : d = IF Hears(L) THEN q \o NewCall(L, f) ELSE q
  OBVIOUS
<1>5. Adds(L, f, hollow, M, d)
  <2>1. RoundIs(L, q, hollow) /\ f \in Fs
    BY <1>1, <1>2, InvFacts DEF Fs
  <2> QED
    BY <1>3, <1>4, <2>1, AddRound
<1>6. M \in CbList /\ d \in Seq(Fs) /\ RoundIs(M, d, hollow)
  BY <1>5 DEF Adds
<1>7. Call(n, M) /\ emptied' = emptied /\ state' = state /\ settledWith' = settledWith
  BY <1>1, <1>3 DEF CallAdd
<1>8. dueCalls' = IF Hears(L) THEN [dueCalls EXCEPT ![n] = d] ELSE dueCalls
  BY <1>1, <1>4 DEF CallAdd, Hears, NewCall
<1>9. Changed(DOMAIN lists, dueCalls, n, d, dueCalls') /\ dueCalls' \in [DOMAIN lists -> FnLists]
  <2>1. dueCalls \in [DOMAIN lists -> FnLists] /\ d \in FnLists
    BY <1>6, InvFacts DEF FnLists
  <2>2. CASE Hears(L)
    BY <1>8, <2>1, <2>2, ExceptChanges
  <2>3. CASE ~ Hears(L)
    <3>1. d = dueCalls[n] /\ dueCalls' = dueCalls
      BY <1>1, <1>4, <1>8, <2>3
    <3> QED
      BY <2>1, <3>1, SameChanges
  <2> QED
    BY <2>2, <2>3
<1>10. emptied' \subseteq (DOMAIN lists) \cap {"list"} /\ emptied' \ {n} = emptied \ {n}
  BY <1>7 DEF CallbacksInv, ListsOf
<1>11. n \in {"done", "fail"} \/ M.list \in Seq(Fns)
  <2>1. ASSUME n \notin {"done", "fail"} PROVE M.list \in Seq(Fns)
    <3>1. L.list \in Seq(Fns)
      BY <1>1, <2>1 DEF CallbacksInv, ListsOf
    <3>2. Append(L.list, f) \in Seq(Fns)
      BY <3>1
    <3> QED
      BY <1>5, <3>1, <3>2 DEF Adds
  <2> QED
    BY <2>1
<1>12. M.running = L.running /\ (L.firing => M.firing)
  BY <1>5, CbListFacts DEF Adds, Hears
<1>13. RoundIs(M, d, n \in emptied')
  BY <1>2, <1>6, <1>7
<1>14. /\ DOMAIN lists' = DOMAIN lists
       /\ ListsOf(DOMAIN lists, lists', dueCalls', emptied')
       /\ FramesOf(DOMAIN lists, lists', callbackFrames')
       /\ Changed(DOMAIN lists, lists, n, M, lists')
       /\ InControl(lists, callbackFrames)
  BY <1>1, <1>6, <1>7, <1>9, <1>10, <1>11, <1>12, <1>13, CallStep
<1>15. PICK k \in Nat : k = Len(NewCall(L, f))
  <2>1. Len(<<f>>) = 1 /\ Len(<< >>) = 0
    OBVIOUS
  <2>2. Len(NewCall(L, f)) \in Nat
    BY <2>1 DEF NewCall
  <2> QED
    BY <2>2
<1>16. owed' = [owed EXCEPT ![<<n, f>>] = @ + k]
  BY <1>1, <1>15 DEF CallAdd, NewCall
<1>17. /\ owed' \in [(DOMAIN lists) \X Fns -> Nat]
       /\ \A g \in Fns : owed'[<<n, g>>] = owed[<<n, g>>] + (IF g = f THEN k ELSE 0)
       /\ \A m \in DOMAIN lists, g \in Fns : m # n => owed'[<<m, g>>] = owed[<<m, g>>]
       /\ \A g \in Fns : owed[<<n, g>>] \in Nat
  <2>1. owed \in [(DOMAIN lists) \X Fns -> Nat]
    BY DEF CallbacksInv
  <2>2. \A m \in DOMAIN lists, g \in Fns : owed[<<m, g>>] \in Nat
    BY <2>1
  <2>3. owed' \in [(DOMAIN lists) \X Fns -> Nat]
    BY <1>16, <2>1, <2>2
  <2>4. \A m \in DOMAIN lists, g \in Fns :
           owed'[<<m, g>>] = IF m = n /\ g = f THEN owed[<<m, g>>] + k ELSE owed[<<m, g>>]
    BY <1>16, <2>1
  <2>5. \A g \in Fns : owed'[<<n, g>>] = owed[<<n, g>>] + (IF g = f THEN k ELSE 0)
    BY <2>2, <2>4
  <2> QED
    BY <2>2, <2>3, <2>4, <2>5
<1>18. ASSUME "done" \in DOMAIN lists
       PROVE  Kinds(lists') /\ Quiet(lists', dueCalls', owed', state', settledWith')
  <2>1. /\ Two \subseteq DOMAIN lists /\ (n \in Two \/ n = "progress")
        /\ "progress" \notin Two /\ n # "list" /\ "progress" \in DOMAIN lists
    BY <1>18, NameFacts
  <2>2. Kinds(lists) /\ Quiet(lists, dueCalls, owed, state, settledWith)
    BY <1>14, <1>18, QuietNow DEF CallbacksInv, DeferredOf
  <2>3. /\ lists'[n] = M /\ \A m \in (DOMAIN lists) \ {n} : lists'[m] = lists[m]
        /\ dueCalls'[n] = d /\ \A m \in (DOMAIN lists) \ {n} : dueCalls'[m] = dueCalls[m]
    BY <1>9, <1>14 DEF Changed
  <2>4. CASE n \in Two
    <3>1. Other(n) \in Two /\ Other(n) # n
      BY <2>4, OtherFacts
    <3>2. /\ lists'[Other(n)] = lists[Other(n)] /\ dueCalls'[Other(n)] = dueCalls[Other(n)]
          /\ lists'["progress"] = lists["progress"]
      BY <2>1, <2>3, <2>4, <3>1
    <3>3. Kinds(lists')
      <4>1. M.options = L.options /\ M.locked = L.locked
        BY <1>5 DEF Adds
      <4>2. \A m \in Two : lists'[m].options = {"once", "memory"} /\ lists'[m].locked = TRUE
        BY <1>1, <2>1, <2>2, <2>3, <2>4, <4>1 DEF Kinds
      <4> QED
        BY <2>2, <3>2, <4>2 DEF Kinds
    <3>4. Quiet(lists', dueCalls', owed', state, settledWith)
      <4>1. lists[n].options = {"once", "memory"} /\ RoundIs(lists[n], dueCalls[n], FALSE)
        BY <2>1, <2>2, <2>4, InvFacts DEF Kinds
      <4>2. lists[n] \in CbList /\ dueCalls[n] \in Seq(Fs)
        BY <1>1
      <4>3. /\ lists'[n] = addCallback(lists[n], f)
            /\ dueCalls'[n] = (IF Hears(lists[n]) THEN dueCalls[n] \o NewCall(lists[n], f)
                               ELSE dueCalls[n])
        BY <1>1, <1>3, <1>4, <2>3
      <4>4. \A g \in Fns : owed'[<<n, g>>] =
                 owed[<<n, g>>] + (IF g = f THEN Len(NewCall(lists[n], f)) ELSE 0)
        BY <1>1, <1>15, <1>17
      <4>5. \A g \in Fns : owed'[<<Other(n), g>>] = owed[<<Other(n), g>>]
        BY <1>17, <2>1, <3>1
      <4>6. \A g \in Fns : owed[<<n, g>>] \in Nat
        BY <1>17
      <4>7. AddOf(lists, dueCalls, owed, n, f, lists', dueCalls', owed')
        BY <3>2, <4>1, <4>2, <4>3, <4>4, <4>5, <4>6 DEF AddOf
      <4> QED
        BY <2>2, <2>4, <4>7, QuietAdd
    <3> QED
      BY <1>7, <3>3, <3>4
  <2>5. CASE n = "progress"
    <3>1. \A m \in Two : m # n /\ lists'[m] = lists[m] /\ dueCalls'[m] = dueCalls[m]
      BY <2>1, <2>3, <2>5
    <3>2. Kinds(lists')
      <4>1. /\ M.options = L.options /\ M.firing = Hears(L)
            /\ M.memory = (IF ~ L.firing /\ Hears(L) /\ "memory" \notin L.options
                           THEN NoFn ELSE L.memory)
        BY <1>5 DEF Adds
      <4>2. L.options = {"memory"} /\ (L.firing => L.memory # NoFn)
        BY <1>1, <2>2, <2>5 DEF Kinds
      <4>3. M.options = {"memory"} /\ (M.firing => M.memory # NoFn)
        BY <4>1, <4>2 DEF Hears
      <4> QED
        BY <2>2, <2>3, <2>5, <3>1, <4>3 DEF Kinds
    <3>3. \A m \in Two, g \in Fns : owed'[<<m, g>>] = owed[<<m, g>>]
      BY <1>17, <2>1, <3>1
    <3>4. Quiet(lists', dueCalls', owed', state, settledWith)
      BY <2>2, <3>1, <3>3, QuietElsewhere
    <3> QED
      BY <1>7, <3>2, <3>4
  <2> QED
    BY <2>1, <2>4, <2>5
<1> QED
  BY <1>14, <1>17, <1>18 DEF CallbacksInv, DeferredOf

(* Calls of the one list that is not a Deferred's.                          *)
LEMMA ListCall ==
  ASSUME CallbacksInv, NEW n \in DOMAIN lists, n = "list", NEW M \in CbList, Call(n, M),
         M.running = lists[n].running, M.firing = lists[n].firing,
         NEW d \in Seq(Fs), dueCalls' \in [DOMAIN lists -> FnLists],
         Changed(DOMAIN lists, dueCalls, n, d, dueCalls'),
         emptied' \subseteq (DOMAIN lists) \cap {"list"}, emptied' \ {n} = emptied \ {n},
         RoundIs(M, d, n \in emptied'), M.list \in Seq(Fns), owed' = owed
  PROVE  CallbacksInv'
<1>1. /\ DOMAIN lists' = DOMAIN lists
      /\ ListsOf(DOMAIN lists, lists', dueCalls', emptied')
      /\ FramesOf(DOMAIN lists, lists', callbackFrames')
  BY CallStep
<1>2. "done" \notin DOMAIN lists
  BY NameFacts
<1> QED
  BY <1>1, <1>2 DEF CallbacksInv, DeferredOf

(* What is due of one list changes.                                         *)
LEMMA DueChanges ==
  ASSUME CallbacksInv, NEW n \in DOMAIN lists, NEW d \in Seq(Fs),
         dueCalls' = [dueCalls EXCEPT ![n] = d]
  PROVE  /\ dueCalls' \in [DOMAIN lists -> FnLists]
         /\ Changed(DOMAIN lists, dueCalls, n, d, dueCalls')
<1>1. dueCalls \in [DOMAIN lists -> FnLists] /\ d \in FnLists
  BY InvFacts DEF FnLists
<1> QED
  BY <1>1, ExceptChanges

(* What stays of the page's callbacks are the page's.                       *)
LEMMA WithoutFns ==
  ASSUME NEW q \in Seq(Fns), NEW gone
  PROVE  Without(q, gone) \in Seq(Fns)
BY WithoutType

(* remove keeps the invariant.                                              *)
LEMMA RemoveStep ==
  ASSUME CallbacksInv, NEW n \in DOMAIN lists, n = "list", NEW f \in Fns, CallRemove(n, f)
  PROVE  CallbacksInv'
<1>1. PICK L \in CbList, q \in Seq(Fs) : L = lists[n] /\ q = dueCalls[n]
  BY InvFacts
<1>2. PICK hollow \in BOOLEAN : hollow = (n \in emptied)
  BY InvFacts
<1>3. PICK M : M = removeCallback(L, f)
  OBVIOUS
<1>4. PICK d : d = Without(q, {f})
  OBVIOUS
<1>5. Call(n, M) /\ emptied' = emptied /\ owed' = owed
  BY <1>1, <1>3 DEF CallRemove
<1>6. dueCalls' = [dueCalls EXCEPT ![n] = d]
  <2>1. dueCalls' = [dueCalls EXCEPT ![n] = Without(dueCalls[n], {f})]
    BY DEF CallRemove
  <2> QED
    BY <1>1, <1>4, <2>1
<1>7. L.firing => L.running
  <2>1. InControl(lists, callbackFrames) /\ FramesOf(DOMAIN lists, lists, callbackFrames)
    BY <1>5 DEF Call, CallerInControl, InControl, CallbacksInv
  <2> QED
    BY <1>1, <2>1, AllRun
<1>8. /\ M \in CbList /\ d \in Seq(Fs) /\ RoundIs(M, d, hollow)
      /\ M.options = L.options /\ M.running = L.running /\ M.firing = L.firing
      /\ M.list = Without(L.list, {f})
  <2>1. RoundIs(L, q, hollow) /\ f \in Fs
    BY <1>1, <1>2, InvFacts DEF Fs
  <2>2. Removes(L, f, hollow, M, d)
    BY <1>3, <1>4, <1>7, <2>1, RemoveRound
  <2> QED
    BY <2>2 DEF Removes
<1>9. M.list \in Seq(Fns)
  <2>1. L.list \in Seq(Fns)
    BY <1>1 DEF CallbacksInv, ListsOf
  <2> QED
    BY <1>8, <2>1, WithoutFns
<1>10. /\ dueCalls' \in [DOMAIN lists -> FnLists]
       /\ Changed(DOMAIN lists, dueCalls, n, d, dueCalls')
  BY <1>6, <1>8, DueChanges
<1>11. /\ emptied' \subseteq (DOMAIN lists) \cap {"list"} /\ emptied' \ {n} = emptied \ {n}
       /\ RoundIs(M, d, n \in emptied')
  BY <1>2, <1>5, <1>8 DEF CallbacksInv, ListsOf
<1> QED
  BY <1>1, <1>5, <1>8, <1>9, <1>10, <1>11, ListCall

(* The empty list is a list of the page's callbacks, and of any.            *)
LEMMA NoneFns ==
  << >> \in Seq(Fns) /\ << >> \in Seq(Fs)
<1>1. << >> \in Seq(Fns)
  OBVIOUS
<1>2. << >> \in Seq(Fs)
  OBVIOUS
<1> QED
  BY <1>1, <1>2

(* empty keeps the invariant.                                               *)
LEMMA EmptyStep ==
  ASSUME CallbacksInv, NEW n \in DOMAIN lists, n = "list", CallEmpty(n)
  PROVE  CallbacksInv'
<1>1. PICK L \in CbList : L = lists[n]
  BY InvFacts
<1>2. PICK d : d = << >>
  OBVIOUS
<1>3. PICK M : M = empty(L)
  OBVIOUS
<1>4. /\ Call(n, M) /\ owed' = owed /\ dueCalls' = [dueCalls EXCEPT ![n] = d]
      /\ emptied' = IF L.firing THEN emptied \cup {n} ELSE emptied
  BY <1>1, <1>2, <1>3 DEF CallEmpty
<1>5. (n \in emptied') = L.firing
  <2>1. RoundIs(L, dueCalls[n], n \in emptied) /\ (n \in emptied) \in BOOLEAN
    BY <1>1, InvFacts
  <2>2. (n \in emptied) => L.firing
    BY <2>1 DEF RoundIs
  <2>3. L.firing \in BOOLEAN
    BY CbListFacts
  <2> QED
    BY <1>4, <2>2, <2>3
<1>6. /\ M \in CbList /\ RoundIs(M, << >>, L.firing)
      /\ M.options = L.options /\ M.running = L.running /\ M.firing = L.firing
      /\ M.list = << >>
  <2>1. RoundIs(L, dueCalls[n], n \in emptied) /\ (n \in emptied) \in BOOLEAN
    BY <1>1, InvFacts
  <2> QED
    BY <1>3, <2>1, EmptyRound
<1>7. /\ dueCalls' \in [DOMAIN lists -> FnLists]
      /\ Changed(DOMAIN lists, dueCalls, n, d, dueCalls')
  BY <1>2, <1>4, NoneFns, DueChanges
<1>8. /\ emptied' \subseteq (DOMAIN lists) \cap {"list"} /\ emptied' \ {n} = emptied \ {n}
  BY <1>4 DEF CallbacksInv, ListsOf
<1>9. RoundIs(M, d, n \in emptied')
  BY <1>2, <1>5, <1>6
<1>10. d \in Seq(Fs) /\ M.list \in Seq(Fns)
  BY <1>2, <1>6, NoneFns
<1> QED
  BY <1>1, <1>4, <1>6, <1>7, <1>8, <1>9, <1>10, ListCall

(* disable keeps the invariant.                                             *)
LEMMA DisableStep ==
  ASSUME CallbacksInv, NEW n \in DOMAIN lists, n = "list", CallDisable(n)
  PROVE  CallbacksInv'
<1>1. PICK L \in CbList : L = lists[n]
  BY InvFacts
<1>2. PICK d : d = << >>
  OBVIOUS
<1>3. PICK M : M = disable(L)
  OBVIOUS
<1>4. /\ Call(n, M) /\ owed' = owed /\ dueCalls' = [dueCalls EXCEPT ![n] = d]
      /\ emptied' = emptied
  BY <1>1, <1>2, <1>3 DEF CallDisable
<1>5. /\ M \in CbList /\ RoundIs(M, << >>, n \in emptied)
      /\ M.running = L.running /\ M.firing = L.firing /\ M.list = << >>
  <2>1. RoundIs(L, dueCalls[n], n \in emptied) /\ (n \in emptied) \in BOOLEAN
    BY <1>1, InvFacts
  <2> QED
    BY <1>3, <2>1, DisableRound
<1>6. /\ dueCalls' \in [DOMAIN lists -> FnLists]
      /\ Changed(DOMAIN lists, dueCalls, n, d, dueCalls')
  BY <1>2, <1>4, NoneFns, DueChanges
<1>7. /\ emptied' \subseteq (DOMAIN lists) \cap {"list"} /\ emptied' \ {n} = emptied \ {n}
  BY <1>4 DEF CallbacksInv, ListsOf
<1>8. RoundIs(M, d, n \in emptied')
  BY <1>2, <1>4, <1>5
<1>9. d \in Seq(Fs) /\ M.list \in Seq(Fns)
  BY <1>2, <1>5, NoneFns
<1> QED
  BY <1>1, <1>4, <1>5, <1>6, <1>7, <1>8, <1>9, ListCall

(* lock keeps the invariant.                                                *)
LEMMA LockStep ==
  ASSUME CallbacksInv, NEW n \in DOMAIN lists, n = "list", CallLock(n)
  PROVE  CallbacksInv'
<1>1. PICK L \in CbList, q \in Seq(Fs) : L = lists[n] /\ q = dueCalls[n]
  BY InvFacts
<1>2. PICK hollow \in BOOLEAN : hollow = (n \in emptied)
  BY InvFacts
<1>3. PICK M : M = lock(L)
  OBVIOUS
<1>4. PICK d : d = IF M.disabled THEN << >> ELSE q
  OBVIOUS
<1>5. /\ M \in CbList /\ RoundIs(M, IF M.disabled THEN << >> ELSE q, hollow)
      /\ M.running = L.running /\ M.firing = L.firing /\ M.list \in {L.list, << >>}
  <2>1. RoundIs(L, q, hollow)
    BY <1>1, <1>2, InvFacts
  <2> QED
    BY <1>3, <2>1, LockRound
<1>6. Call(n, M) /\ owed' = owed /\ emptied' = emptied
  BY <1>1, <1>3 DEF CallLock
<1>7. lists'[n] = M
  <2>1. lists \in [DOMAIN lists -> CbList]
    BY InvFacts
  <2>2. lists' = [lists EXCEPT ![n] = M]
    BY <1>6 DEF Call
  <2> QED
    BY <2>1, <2>2
<1>8. dueCalls' = IF M.disabled THEN [dueCalls EXCEPT ![n] = << >>] ELSE dueCalls
  BY <1>7 DEF CallLock
<1>9. d \in Seq(Fs)
  BY <1>4, NoneFns
<1>10. /\ dueCalls' \in [DOMAIN lists -> FnLists]
       /\ Changed(DOMAIN lists, dueCalls, n, d, dueCalls')
  <2>1. CASE M.disabled
    BY <1>4, <1>8, <1>9, <2>1, DueChanges
  <2>2. CASE ~ M.disabled
    <3>1. d = dueCalls[n] /\ dueCalls' = dueCalls
      BY <1>1, <1>4, <1>8, <2>2
    <3>2. dueCalls \in [DOMAIN lists -> FnLists]
      BY InvFacts
    <3> QED
      BY <3>1, <3>2, SameChanges
  <2> QED
    BY <2>1, <2>2
<1>11. /\ emptied' \subseteq (DOMAIN lists) \cap {"list"} /\ emptied' \ {n} = emptied \ {n}
       /\ RoundIs(M, d, n \in emptied')
  BY <1>2, <1>4, <1>5, <1>6 DEF CallbacksInv, ListsOf
<1>12. M.list \in Seq(Fns)
  <2>1. L.list \in Seq(Fns)
    BY <1>1 DEF CallbacksInv, ListsOf
  <2> QED
    BY <1>5, <2>1, NoneFns
<1> QED
  BY <1>1, <1>5, <1>6, <1>9, <1>10, <1>11, <1>12, ListCall

(* fire, resolve, reject and notify keep the invariant.                     *)
LEMMA FireStep ==
  ASSUME CallbacksInv, NEW n \in DOMAIN lists, NEW value \in Values, CallFire(n, value)
  PROVE  CallbacksInv'
<1>1. PICK L \in CbList, q \in Seq(Fs) : L = lists[n] /\ q = dueCalls[n]
  BY InvFacts
<1>2. PICK hollow \in BOOLEAN : hollow = (n \in emptied)
  BY InvFacts
<1>3. PICK M : M = fireWith(L, value)
  OBVIOUS
<1>4. PICK d : d = IF Accepts(L) /\ ~ L.firing THEN L.list ELSE q
  OBVIOUS
<1>5. Fires(L, value, hollow, M, d)
  <2>1. RoundIs(L, q, hollow)
    BY <1>1, <1>2, InvFacts
  <2> QED
    BY <1>3, <1>4, <2>1, FireRound
<1>6. M \in CbList /\ d \in Seq(Fs) /\ RoundIs(M, d, hollow)
  BY <1>5 DEF Fires
<1>7. Call(n, M) /\ emptied' = emptied /\ state' = state /\ owed' = owed
  BY <1>1, <1>3 DEF CallFire
<1>8. dueCalls' = IF Accepts(L) /\ ~ L.firing THEN [dueCalls EXCEPT ![n] = d] ELSE dueCalls
  BY <1>1, <1>4 DEF CallFire
<1>9. Changed(DOMAIN lists, dueCalls, n, d, dueCalls') /\ dueCalls' \in [DOMAIN lists -> FnLists]
  <2>1. CASE Accepts(L) /\ ~ L.firing
    BY <1>6, <1>8, <2>1, DueChanges
  <2>2. CASE ~ (Accepts(L) /\ ~ L.firing)
    <3>1. d = dueCalls[n] /\ dueCalls' = dueCalls
      BY <1>1, <1>4, <1>8, <2>2
    <3>2. dueCalls \in [DOMAIN lists -> FnLists]
      BY InvFacts
    <3> QED
      BY <3>1, <3>2, SameChanges
  <2> QED
    BY <2>1, <2>2
<1>10. emptied' \subseteq (DOMAIN lists) \cap {"list"} /\ emptied' \ {n} = emptied \ {n}
       /\ RoundIs(M, d, n \in emptied')
  BY <1>2, <1>6, <1>7 DEF CallbacksInv, ListsOf
<1>11. n \in {"done", "fail"} \/ M.list \in Seq(Fns)
  BY <1>1, <1>5 DEF CallbacksInv, ListsOf, Fires
<1>12. M.running = L.running /\ (L.firing => M.firing)
  BY <1>5, CbListFacts DEF Fires
<1>13. /\ DOMAIN lists' = DOMAIN lists
       /\ ListsOf(DOMAIN lists, lists', dueCalls', emptied')
       /\ FramesOf(DOMAIN lists, lists', callbackFrames')
       /\ Changed(DOMAIN lists, lists, n, M, lists')
       /\ InControl(lists, callbackFrames)
       /\ callbackFrames' = IF M.firing /\ ~ L.firing
                            THEN Append(callbackFrames, n) ELSE callbackFrames
  BY <1>1, <1>6, <1>7, <1>9, <1>10, <1>11, <1>12, CallStep
<1>14. ASSUME "done" \in DOMAIN lists
       PROVE  /\ Kinds(lists')
              /\ \/ Quiet(lists', dueCalls', owed', state', settledWith')
                 \/ Opens(lists', callbackFrames', dueCalls', owed', state', settledWith')
  <2>1. /\ Two \subseteq DOMAIN lists /\ (n \in Two \/ n = "progress")
        /\ "progress" \notin Two /\ n # "list" /\ "progress" \in DOMAIN lists
    BY <1>14, NameFacts
  <2>2. Kinds(lists) /\ Quiet(lists, dueCalls, owed, state, settledWith)
    BY <1>13, <1>14, QuietNow DEF CallbacksInv, DeferredOf
  <2>3. /\ lists'[n] = M /\ \A m \in (DOMAIN lists) \ {n} : lists'[m] = lists[m]
        /\ dueCalls'[n] = d /\ \A m \in (DOMAIN lists) \ {n} : dueCalls'[m] = dueCalls[m]
    BY <1>9, <1>13 DEF Changed
  <2>4. CASE n \in Two
    <3>1. Other(n) \in Two /\ Other(n) # n
      BY <2>4, OtherFacts
    <3>2. /\ lists'[Other(n)] = lists[Other(n)] /\ dueCalls'[Other(n)] = dueCalls[Other(n)]
          /\ lists'["progress"] = lists["progress"]
      BY <2>1, <2>3, <2>4, <3>1
    <3>3. Kinds(lists')
      <4>1. M.options = L.options /\ M.locked = L.locked
        BY <1>5 DEF Fires
      <4>2. \A m \in Two : lists'[m].options = {"once", "memory"} /\ lists'[m].locked = TRUE
        BY <1>1, <2>1, <2>2, <2>3, <2>4, <4>1 DEF Kinds
      <4> QED
        BY <2>2, <3>2, <4>2 DEF Kinds
    <3>4. settledWith' = IF settledWith = NoFn THEN value ELSE settledWith
      BY <2>4 DEF CallFire, Two
    <3>5. FireOf(DOMAIN lists, lists, callbackFrames, dueCalls, settledWith, n, value,
                 lists', callbackFrames', dueCalls', settledWith')
      <4>1. /\ lists[n].options = {"once", "memory"} /\ lists[n].locked = TRUE
            /\ RoundIs(lists[n], dueCalls[n], FALSE)
        BY <2>1, <2>2, <2>4, InvFacts DEF Kinds
      <4>2. lists[n] \in CbList /\ dueCalls[n] \in Seq(Fs) /\ lists'[n] = fireWith(lists[n], value)
        BY <1>1, <1>3, <2>3
      <4>3. dueCalls'[n] =
              (IF Accepts(lists[n]) /\ ~ lists[n].firing THEN lists[n].list ELSE dueCalls[n])
        BY <1>1, <1>4, <2>3
      <4>4. /\ callbackFrames \in Seq(DOMAIN lists)
            /\ callbackFrames' = (IF lists'[n].firing /\ ~ lists[n].firing
                                  THEN Append(callbackFrames, n) ELSE callbackFrames)
        BY <1>1, <1>13, <2>3 DEF CallbacksInv, FramesOf
      <4> QED
        BY <3>2, <3>4, <4>1, <4>2, <4>3, <4>4 DEF FireOf
    <3>6. \/ Quiet(lists', dueCalls', owed, state, settledWith')
          \/ Opens(lists', callbackFrames', dueCalls', owed, state, settledWith')
      BY <2>2, <2>4, <3>5, QuietFire
    <3> QED
      BY <1>7, <3>3, <3>6
  <2>5. CASE n = "progress"
    <3>1. \A m \in Two : m # n /\ lists'[m] = lists[m] /\ dueCalls'[m] = dueCalls[m]
      BY <2>1, <2>3, <2>5
    <3>2. Kinds(lists')
      <4>1. L.options = {"memory"} /\ (L.firing => L.memory # NoFn) /\ value # NoFn
        BY <1>1, <2>2, <2>5 DEF Kinds, Values, NoFn
      <4>2. M.options = {"memory"} /\ (M.firing => M.memory # NoFn)
        BY <1>5, <4>1 DEF Fires
      <4> QED
        BY <2>2, <2>3, <2>5, <3>1, <4>2 DEF Kinds
    <3>3. settledWith' = settledWith
      BY <2>5 DEF CallFire
    <3>4. Quiet(lists', dueCalls', owed', state, settledWith)
      <4>1. \A m \in Two, g \in Fns : owed'[<<m, g>>] = owed[<<m, g>>]
        BY <1>7
      <4> QED
        BY <2>2, <3>1, <4>1, QuietElsewhere
    <3> QED
      BY <1>7, <3>2, <3>3, <3>4
  <2> QED
    BY <2>1, <2>4, <2>5
<1> QED
  BY <1>7, <1>13, <1>14 DEF CallbacksInv, DeferredOf

(* What a step of the innermost loop does to the lists together.            *)
LEMMA LastStep ==
  ASSUME CallbacksInv, callbackFrames # << >>, NEW n, n = Last(callbackFrames),
         NEW M \in CbList, lists' = [lists EXCEPT ![n] = M],
         M.firing = lists[n].firing, M.list = lists[n].list,
         callbackFrames' = callbackFrames, emptied' = emptied,
         NEW d \in Seq(Fs), dueCalls' = [dueCalls EXCEPT ![n] = d],
         RoundIs(M, d, n \in emptied)
  PROVE  /\ DOMAIN lists' = DOMAIN lists
         /\ ListsOf(DOMAIN lists, lists', dueCalls', emptied')
         /\ FramesOf(DOMAIN lists, lists', callbackFrames')
         /\ Changed(DOMAIN lists, lists, n, M, lists')
         /\ Changed(DOMAIN lists, dueCalls, n, d, dueCalls')
<1>1. FramesOf(DOMAIN lists, lists, callbackFrames) /\ ListsOf(DOMAIN lists, lists, dueCalls, emptied)
  BY DEF CallbacksInv
<1>2. n \in DOMAIN lists
  BY <1>1, LastFires
<1>3. lists \in [DOMAIN lists -> CbList] /\ emptied \subseteq (DOMAIN lists) \cap {"list"}
  BY <1>1 DEF ListsOf
<1>4. lists' \in [DOMAIN lists -> CbList] /\ DOMAIN lists' = DOMAIN lists
  BY <1>2, <1>3
<1>5. Changed(DOMAIN lists, lists, n, M, lists')
  BY <1>2, <1>3, ExceptChanges
<1>6. /\ dueCalls' \in [DOMAIN lists -> FnLists]
      /\ Changed(DOMAIN lists, dueCalls, n, d, dueCalls')
  BY <1>2, DueChanges
<1>7. n \in {"done", "fail"} \/ M.list \in Seq(Fns)
  BY <1>1, <1>2 DEF ListsOf
<1>8. ListsOf(DOMAIN lists, lists', dueCalls', emptied')
  <2>1. emptied' \ {n} = emptied \ {n} /\ RoundIs(M, d, n \in emptied')
    OBVIOUS
  <2> QED
    BY <1>1, <1>2, <1>3, <1>4, <1>5, <1>6, <1>7, <2>1, OneList
<1>9. FramesOf(DOMAIN lists, lists', callbackFrames)
  <2>1. /\ \A m \in DOMAIN lists : lists'[m].firing = lists[m].firing
        /\ \A m \in DOMAIN lists : lists'[m].running = lists[m].running
             \/ (callbackFrames # << >> /\ m = Last(callbackFrames))
    BY <1>5 DEF Changed
  <2> QED
    BY <1>1, <2>1, SameFrames
<1> QED
  BY <1>4, <1>5, <1>6, <1>8, <1>9

(* The page's callback is called, which pays what is owed.                  *)
LEMMA PageStep ==
  ASSUME CallbacksInv, callbackFrames # << >>, NEW n, n = Last(callbackFrames),
         ~ lists[n].running, NEW f \in Fns, f = lists[n].list[lists[n].firingIndex],
         ~ lists[n].disabled, lists[n].firingIndex <= lists[n].firingLength,
         dueCalls' = [dueCalls EXCEPT ![n] = IF @ # << >> THEN Tail(@) ELSE @],
         lists' = [lists EXCEPT ![n].running = TRUE],
         owed' = [owed EXCEPT ![<<n, f>>] = IF @ > 0 THEN @ - 1 ELSE @],
         UNCHANGED <<callbackFrames, state, emptied, settledWith>>
  PROVE  CallbacksInv'
<1>0. n \in DOMAIN lists /\ lists[n].firing
  BY LastFires DEF CallbacksInv
<1>1. PICK L \in CbList, q \in Seq(Fs) : L = lists[n] /\ q = dueCalls[n]
  BY <1>0, InvFacts
<1>2. PICK hollow \in BOOLEAN : hollow = (n \in emptied)
  BY <1>0, InvFacts
<1>3. PICK M : M = [L EXCEPT !.running = TRUE]
  OBVIOUS
<1>4. PICK d : d = IF q # << >> THEN Tail(q) ELSE q
  OBVIOUS
<1>5. Nexts(L, q, hollow, M, d)
  <2>1. RoundIs(L, q, hollow)
    BY <1>0, <1>1, <1>2, InvFacts
  <2>2. L.firing /\ ~ L.running /\ ~ L.disabled /\ L.firingIndex <= L.firingLength
    BY <1>0, <1>1
  <2> QED
    BY <1>3, <1>4, <2>1, <2>2, NextRound
<1>6. /\ M \in CbList /\ d \in Seq(Fs) /\ RoundIs(M, d, n \in emptied)
      /\ M.firing = lists[n].firing /\ M.list = lists[n].list
  BY <1>1, <1>2, <1>5 DEF Nexts
<1>7. dueCalls' = [dueCalls EXCEPT ![n] = d]
  BY <1>1, <1>4
<1>8. lists' = [lists EXCEPT ![n] = M]
  BY <1>1, <1>3
<1>9. callbackFrames' = callbackFrames /\ emptied' = emptied /\ state' = state
      /\ settledWith' = settledWith
  OBVIOUS
<1>10. /\ DOMAIN lists' = DOMAIN lists
       /\ ListsOf(DOMAIN lists, lists', dueCalls', emptied')
       /\ FramesOf(DOMAIN lists, lists', callbackFrames')
       /\ Changed(DOMAIN lists, lists, n, M, lists')
       /\ Changed(DOMAIN lists, dueCalls, n, d, dueCalls')
  BY <1>6, <1>7, <1>8, <1>9, LastStep
<1>11. /\ owed' \in [(DOMAIN lists) \X Fns -> Nat]
       /\ \A g \in Fns : owed'[<<n, g>>] =
            IF g = f /\ owed[<<n, g>>] > 0 THEN owed[<<n, g>>] - 1 ELSE owed[<<n, g>>]
       /\ \A m \in DOMAIN lists, g \in Fns : m # n => owed'[<<m, g>>] = owed[<<m, g>>]
  <2>1. owed \in [(DOMAIN lists) \X Fns -> Nat]
    BY DEF CallbacksInv
  <2>2. \A m \in DOMAIN lists, g \in Fns : owed[<<m, g>>] \in Nat
    BY <2>1
  <2>3. PICK k \in Nat : k = IF owed[<<n, f>>] > 0 THEN owed[<<n, f>>] - 1 ELSE owed[<<n, f>>]
    BY <1>0, <2>2
  <2>4. owed' = [owed EXCEPT ![<<n, f>>] = k]
    BY <2>3
  <2>5. owed' \in [(DOMAIN lists) \X Fns -> Nat]
    BY <2>1, <2>4
  <2>6. \A m \in DOMAIN lists, g \in Fns :
           owed'[<<m, g>>] = IF m = n /\ g = f THEN k ELSE owed[<<m, g>>]
    BY <2>1, <2>4
  <2> QED
    BY <1>0, <2>3, <2>5, <2>6
<1>12. ASSUME "done" \in DOMAIN lists
       PROVE  Kinds(lists') /\ Quiet(lists', dueCalls', owed', state', settledWith')
  <2>1. /\ Two \subseteq DOMAIN lists /\ (n \in Two \/ n = "progress")
        /\ "progress" \notin Two /\ n # "list" /\ "progress" \in DOMAIN lists
    BY <1>0, <1>12, NameFacts
  <2>2. /\ Kinds(lists)
        /\ \/ Quiet(lists, dueCalls, owed, state, settledWith)
           \/ Opens(lists, callbackFrames, dueCalls, owed, state, settledWith)
    BY <1>12 DEF CallbacksInv, DeferredOf
  <2>3. /\ lists'[n] = M /\ \A m \in (DOMAIN lists) \ {n} : lists'[m] = lists[m]
        /\ dueCalls'[n] = d /\ \A m \in (DOMAIN lists) \ {n} : dueCalls'[m] = dueCalls[m]
    BY <1>10 DEF Changed
  <2>4. /\ M.options = L.options /\ M.disabled = L.disabled /\ M.locked = L.locked
        /\ M.memory = L.memory /\ M.data = L.data /\ M.fired = L.fired /\ M.firing = L.firing
    BY <1>5 DEF Nexts
  <2>5. Kinds(lists')
    BY <1>1, <2>1, <2>2, <2>3, <2>4 DEF Kinds
  <2>6. CASE n \in Two
    <3>1. Quiet(lists, dueCalls, owed, state, settledWith)
      <4>1. ASSUME Opens(lists, callbackFrames, dueCalls, owed, state, settledWith)
            PROVE  FALSE
        <5>1. HasOwn(L.list) /\ L.firingIndex \in 1 .. 3
          BY <1>1, <4>1 DEF Opens, OpeningOf
        <5>2. L.firingIndex = 1 \/ L.firingIndex = 2 \/ L.firingIndex = 3
          BY <5>1
        <5>3. f \in Own
          BY <1>1, <5>1, <5>2 DEF HasOwn, Own
        <5> QED
          BY <5>3, OwnFacts
      <4> QED
        BY <2>2, <4>1
    <3>2. lists[n].firing = TRUE
      BY <1>0, <1>1, CbListFacts
    <3>3. OpenedOf(n, lists[n], lists[Other(n)], dueCalls[n], owed, state, settledWith)
      BY <2>6, <3>1, <3>2, QuietOwes
    <3>4. q # << >> /\ Head(q) = f /\ q \in Seq(Fns) /\ d = Tail(q)
      <4>1. hollow = FALSE
        BY <1>0, <1>2, <2>1, InvFacts
      <4>2. q # << >> /\ Head(q) = L.list[L.firingIndex]
        BY <1>5, <4>1 DEF Nexts
      <4> QED
        BY <1>1, <1>4, <3>3, <4>2 DEF OpenedOf
    <3>5. d \in Seq(Fns)
      BY <3>4
    <3>6. ASSUME NEW g \in Fns PROVE owed'[<<n, g>>] = Count(d, g)
      <4>1. Count(q, g) = Count(d, g) + (IF f = g THEN 1 ELSE 0)
        BY <3>4, CountFirst
      <4>2. owed[<<n, g>>] = Count(q, g) /\ Count(d, g) \in Nat
        BY <1>1, <3>3, <3>5, CountType DEF OpenedOf, Winner
      <4>3. PICK k \in Nat : k = Count(d, g) /\ owed[<<n, g>>] = k + (IF f = g THEN 1 ELSE 0)
        BY ONLY <4>1, <4>2
      <4>4. PICK before, after :
              /\ before = owed[<<n, g>>] /\ after = owed'[<<n, g>>]
              /\ before = k + (IF f = g THEN 1 ELSE 0)
              /\ after = IF g = f /\ before > 0 THEN before - 1 ELSE before
        BY ONLY <1>11, <4>3, g \in Fns
      <4>5. after = k
        BY ONLY <4>4
      <4> QED
        BY ONLY <4>3, <4>4, <4>5
    <3>7. lists'[Other(n)] = lists[Other(n)]
      BY <2>1, <2>3, <2>6, OtherFacts
    <3>8. dueCalls'[n] \in Seq(Fns) /\ \A g \in Fns : owed'[<<n, g>>] = Count(dueCalls'[n], g)
      BY <2>3, <3>5, <3>6
    <3>9. /\ lists'[n].fired = lists[n].fired /\ lists'[n].disabled = lists[n].disabled
          /\ lists'[n].data = lists[n].data /\ lists'[n].memory = lists[n].memory
      BY <1>1, <2>3, <2>4
    <3>10. Quiet(lists', dueCalls', owed', state, settledWith)
      BY ONLY <2>6, <3>1, <3>2, <3>7, <3>8, <3>9, QuietRun
    <3> QED
      BY <1>9, <2>5, <3>10
  <2>7. CASE n = "progress"
    <3>1. Quiet(lists, dueCalls, owed, state, settledWith)
      BY <2>2, <2>7, QuietNow
    <3>2. \A m \in Two : m # n /\ lists'[m] = lists[m] /\ dueCalls'[m] = dueCalls[m]
      BY <2>1, <2>3, <2>7
    <3>3. \A m \in Two, g \in Fns : owed'[<<m, g>>] = owed[<<m, g>>]
      BY <1>11, <2>1, <3>2
    <3>4. Quiet(lists', dueCalls', owed', state, settledWith)
      BY ONLY <3>1, <3>2, <3>3, QuietElsewhere
    <3> QED
      BY <1>9, <2>5, <3>4
  <2> QED
    BY <2>1, <2>6, <2>7
<1> QED
  BY <1>10, <1>11, <1>12 DEF CallbacksInv, DeferredOf

(* Two lists changed at once.                                               *)
LEMMA DisablesToo ==
  ASSUME NEW N, NEW S, NEW f \in [N -> S], NEW n \in N, NEW o \in N, n # o, NEW x
  PROVE  [f EXCEPT ![n] = x, ![o] = disable(@)]
           = [[f EXCEPT ![n] = x] EXCEPT ![o] = disable(f[o])]
OBVIOUS

(* The same for lock.                                                       *)
LEMMA LocksToo ==
  ASSUME NEW N, NEW S, NEW f \in [N -> S], NEW n \in N, NEW o \in N, n # o, NEW x
  PROVE  [f EXCEPT ![n] = x, ![o] = lock(@)]
           = [[f EXCEPT ![n] = x] EXCEPT ![o] = lock(f[o])]
OBVIOUS

(* After a Deferred's own three callbacks come the page's.                  *)
LEMMA EndFns ==
  ASSUME NEW q \in Seq(Fs), HasOwn(q)
  PROVE  SubSeq(q, 4, Len(q)) \in Seq(Fns)
<1>1. Len(q) \in Nat /\ \A i \in 4 .. Len(q) : q[i] \in Fns
  BY DEF HasOwn
<1>2. 4 \in Int /\ Len(q) \in Int
  BY <1>1
<1> QED
  BY <1>1, <1>2, SubSeqProperties

(* A Deferred's own callback ran: the state, the other list, progress.      *)
LEMMA OwnFrame ==
  ASSUME CallbacksInv, callbackFrames # << >>, NEW n, n = Last(callbackFrames),
         ~ lists[n].running,
         ~ lists[n].disabled, lists[n].firingIndex <= lists[n].firingLength,
         NEW f \in Own, f = lists[n].list[lists[n].firingIndex]
  PROVE  /\ n \in Two /\ "done" \in DOMAIN lists
         /\ settledWith \in Values
         /\ OpeningOf(n, lists[n], lists[Other(n)], dueCalls[n], owed, state, settledWith)
<1>0. n \in DOMAIN lists /\ lists[n].firing
  BY LastFires DEF CallbacksInv
<1>1. PICK L \in CbList, q \in Seq(Fs) : L = lists[n] /\ q = dueCalls[n]
  BY <1>0, InvFacts
<1>2. PICK hollow \in BOOLEAN : hollow = (n \in emptied)
  BY <1>0, InvFacts
<1>3. PICK M : M = [L EXCEPT !.running = TRUE]
  OBVIOUS
<1>4. PICK d : d = IF q # << >> THEN Tail(q) ELSE q
  OBVIOUS
<1>5. Nexts(L, q, hollow, M, d)
  <2>1. RoundIs(L, q, hollow)
    BY <1>0, <1>1, <1>2, InvFacts
  <2>2. L.firing /\ ~ L.running /\ ~ L.disabled /\ L.firingIndex <= L.firingLength
    BY <1>0, <1>1
  <2> QED
    BY <1>3, <1>4, <2>1, <2>2, NextRound
<1>6. n \in Two
  <2>1. ASSUME n \notin Two PROVE FALSE
    <3>1. L.list \in Seq(Fns)
      BY <1>0, <1>1, <2>1 DEF CallbacksInv, ListsOf, Two
    <3>2. L.firingIndex \in 1 .. Len(L.list)
      BY <1>5 DEF Nexts
    <3>3. L.list[L.firingIndex] \in Fns
      BY <3>1, <3>2
    <3> QED
      BY <1>1, <3>3, OwnFacts
  <2> QED
    BY <2>1
<1>7. "done" \in DOMAIN lists
  BY <1>0, <1>6 DEF CallbacksInv, ListsOf, Names, DeferredLists, Two
<1>8. \/ Quiet(lists, dueCalls, owed, state, settledWith)
      \/ Opens(lists, callbackFrames, dueCalls, owed, state, settledWith)
  BY <1>7 DEF CallbacksInv, DeferredOf
<1>9. ASSUME Quiet(lists, dueCalls, owed, state, settledWith) PROVE FALSE
  <2>1. lists[n].firing = TRUE
    BY <1>0, <1>1, CbListFacts
  <2>2. OpenedOf(n, lists[n], lists[Other(n)], dueCalls[n], owed, state, settledWith)
    BY <1>6, <1>9, <2>1, QuietOwes
  <2>3. hollow = FALSE
    BY <1>0, <1>2, <1>6, InvFacts DEF Two
  <2>4. q # << >> /\ Head(q) = f /\ q \in Seq(Fns)
    BY <1>1, <1>5, <2>2, <2>3 DEF Nexts, OpenedOf
  <2>5. f \in Fns
    BY <2>4
  <2> QED
    BY <2>5, OwnFacts
<1>10. OpeningOf(n, lists[n], lists[Other(n)], dueCalls[n], owed, state, settledWith)
       /\ settledWith \in Values
  BY <1>8, <1>9 DEF Opens
<1> QED
  BY <1>6, <1>7, <1>10

(* The state is set, the other list disabled, progress locked: each keeps   *)
(* the invariant.                                                           *)
LEMMA OwnStep ==
  ASSUME CallbacksInv, callbackFrames # << >>, NEW n, n = Last(callbackFrames),
         ~ lists[n].running,
         ~ lists[n].disabled, lists[n].firingIndex <= lists[n].firingLength,
         NEW f \in Own, f = lists[n].list[lists[n].firingIndex],
         dueCalls' = [dueCalls EXCEPT ![n] = IF @ # << >> THEN Tail(@) ELSE @],
         CallsOwn(n, f, [lists[n] EXCEPT !.firingIndex = @ + 1]),
         UNCHANGED <<owed, callbackFrames, emptied, settledWith>>
  PROVE  CallbacksInv'
<1>0. n \in DOMAIN lists /\ lists[n].firing
  BY LastFires DEF CallbacksInv
<1>1. PICK L \in CbList, q \in Seq(Fs) : L = lists[n] /\ q = dueCalls[n]
  BY <1>0, InvFacts
<1>2. /\ n \in Two /\ "done" \in DOMAIN lists /\ settledWith \in Values
      /\ OpeningOf(n, lists[n], lists[Other(n)], dueCalls[n], owed, state, settledWith)
  BY OwnFrame
<1>3. PICK M : M = [L EXCEPT !.firingIndex = @ + 1]
  OBVIOUS
<1>4. PICK d : d = IF q # << >> THEN Tail(q) ELSE q
  OBVIOUS
<1>5. Nexts(L, q, FALSE, M, d)
  <2>1. RoundIs(L, q, FALSE) /\ FALSE \in BOOLEAN
    BY <1>0, <1>1, <1>2, InvFacts DEF Two
  <2>2. L.firing /\ ~ L.running /\ ~ L.disabled /\ L.firingIndex <= L.firingLength
    BY <1>0, <1>1
  <2> QED
    BY <1>3, <1>4, <2>1, <2>2, NextRound
<1>6. /\ M \in CbList /\ d \in Seq(Fs) /\ RoundIs(M, d, FALSE)
      /\ M.list = L.list /\ M.options = L.options /\ M.disabled = L.disabled
      /\ M.locked = L.locked /\ M.memory = L.memory
      /\ M.data = L.data /\ M.fired = L.fired /\ M.firing = L.firing
      /\ M.running = L.running /\ M.firingIndex = L.firingIndex + 1
      /\ q # << >> /\ Head(q) = L.list[L.firingIndex]
      /\ d = SubSeq(L.list, L.firingIndex + 1, Len(L.list))
  BY <1>3, <1>5 DEF Nexts
<1>7. PICK O \in CbList, P \in CbList : O = lists[Other(n)] /\ P = lists["progress"]
  <2>1. Other(n) \in DOMAIN lists /\ "progress" \in DOMAIN lists
    BY <1>2, NameFacts, OtherFacts
  <2> QED
    BY <2>1, InvFacts
<1>8. /\ Other(n) \in Two /\ Other(n) # n /\ n # "progress" /\ Other(n) # "progress"
      /\ Other(n) \in DOMAIN lists /\ "progress" \in DOMAIN lists
      /\ Two \subseteq DOMAIN lists /\ "list" \notin DOMAIN lists
      /\ \A w \in Two : w = n \/ w = Other(n)
  BY <1>2, NameFacts, OtherFacts
<1>9. OpeningOf(n, L, O, q, owed, state, settledWith)
  BY <1>1, <1>2, <1>7
<1>10. Winner(n, M, O, d, owed, settledWith)
  <2>1. ASSUME NEW g \in Fns PROVE Count(q, g) = Count(d, g)
    <3>1. Count(q, g) = Count(Tail(q), g) + (IF Head(q) = g THEN 1 ELSE 0)
      BY <1>6, CountFirst
    <3>2. Head(q) # g /\ Tail(q) = d
      BY <1>1, <1>4, <1>6, OwnFacts
    <3>3. Count(d, g) \in Nat
      BY <1>6, CountType
    <3>4. (IF Head(q) = g THEN 1 ELSE 0) = 0
      BY ONLY <3>2
    <3>5. Count(q, g) = Count(d, g) + 0
      BY ONLY <3>1, <3>2, <3>4
    <3>6. PICK k \in Nat : k = Count(d, g)
      BY ONLY <3>3
    <3>7. Count(q, g) = k + 0 /\ k + 0 = k
      BY ONLY <3>5, <3>6, k \in Nat
    <3> QED
      BY ONLY <3>6, <3>7
  <2> QED
    BY <1>6, <1>9, <2>1 DEF OpeningOf, Winner
<1>11. HasOwn(M.list) /\ M.firing = TRUE /\ M.running = FALSE
  BY <1>6, <1>9 DEF OpeningOf
<1>12. Kinds(lists)
  BY <1>2 DEF CallbacksInv, DeferredOf
<1>13. PICK ls1 : ls1 = [lists EXCEPT ![n] = M]
  OBVIOUS
<1>14. /\ lists \in [DOMAIN lists -> CbList] /\ dueCalls \in [DOMAIN lists -> FnLists]
       /\ emptied = {}
       /\ ListsOf(DOMAIN lists, lists, dueCalls, emptied)
       /\ FramesOf(DOMAIN lists, lists, callbackFrames)
  <2>1. emptied \subseteq (DOMAIN lists) \cap {"list"}
    BY DEF CallbacksInv, ListsOf
  <2> QED
    BY <1>0, <1>8, <2>1, InvFacts DEF CallbacksInv
<1>15. /\ ls1 \in [DOMAIN lists -> CbList] /\ Changed(DOMAIN lists, lists, n, M, ls1)
  BY <1>0, <1>6, <1>13, <1>14, ExceptChanges
<1>16. dueCalls' = [dueCalls EXCEPT ![n] = d]
  BY <1>1, <1>4
<1>17. dueCalls' \in [DOMAIN lists -> FnLists] /\ Changed(DOMAIN lists, dueCalls, n, d, dueCalls')
  BY <1>0, <1>6, <1>16, DueChanges
<1>18. ListsOf(DOMAIN lists, ls1, dueCalls', emptied)
  <2>1. n \in {"done", "fail"} /\ RoundIs(M, d, n \in emptied)
        /\ emptied \subseteq (DOMAIN lists) \cap {"list"}
    <3>1. (n \in emptied) = FALSE
      BY ONLY <1>14
    <3>2. n \in {"done", "fail"}
      BY ONLY <1>2 DEF Two
    <3>3. emptied \subseteq (DOMAIN lists) \cap {"list"}
      BY ONLY <1>14
    <3> QED
      BY ONLY <1>6, <3>1, <3>2, <3>3
  <2> QED
    BY <1>0, <1>6, <1>14, <1>15, <1>17, <2>1, OneList
<1>19. /\ emptied' = emptied /\ owed' = owed /\ callbackFrames' = callbackFrames
       /\ settledWith' = settledWith
  OBVIOUS
<1>20. owed' \in [(DOMAIN lists) \X Fns -> Nat]
  BY <1>19 DEF CallbacksInv
<1>21. dueCalls'[n] = d /\ ls1[n] = M /\ ls1[Other(n)] = O /\ ls1["progress"] = P
       /\ dueCalls'[Other(n)] = dueCalls[Other(n)] /\ dueCalls'["progress"] = dueCalls["progress"]
       /\ \A m \in DOMAIN lists : ls1[m].firing = lists[m].firing /\ ls1[m].running = lists[m].running
  <2>1. M.firing = lists[n].firing /\ M.running = lists[n].running
    BY <1>1, <1>6
  <2> QED
    BY <1>7, <1>8, <1>15, <1>17, <2>1 DEF Changed
<1>22. CallsOwn(n, f, M)
  BY <1>1, <1>3
<1>23. CASE L.firingIndex = 1
  <2>1. f = "state"
    BY <1>1, <1>9, <1>23 DEF OpeningOf, HasOwn
  <2>2. state' = OutcomeOf(n) /\ lists' = ls1
    BY <1>13, <1>22, <2>1 DEF CallsOwn, OutcomeOf
  <2>3. FramesOf(DOMAIN lists, ls1, callbackFrames)
    BY <1>14, <1>21, SameFrames
  <2>4. Kinds(ls1)
    <3>1. M.options = L.options /\ M.locked = L.locked
      BY <1>6
    <3>2. /\ ls1[n] = M /\ \A m \in (DOMAIN lists) \ {n} : ls1[m] = lists[m]
      BY <1>15 DEF Changed
    <3> QED
      BY <1>1, <1>7, <1>8, <1>12, <1>21, <3>1, <3>2 DEF Kinds
  <2>5. OpeningOf(n, M, O, d, owed, OutcomeOf(n), settledWith)
    <3>1. M.firingIndex = 2
      BY <1>6, <1>23
    <3> QED
      BY <1>10, <1>11, <3>1 DEF OpeningOf
  <2>6. Opens(ls1, callbackFrames, dueCalls', owed, OutcomeOf(n), settledWith)
    BY <1>2, <1>21, <2>5 DEF Opens
  <2>7. DeferredOf(lists', callbackFrames', dueCalls', owed', state', settledWith')
    BY <1>19, <2>2, <2>4, <2>6 DEF DeferredOf
  <2>8. DOMAIN lists' = DOMAIN lists
    BY <1>15, <2>2
  <2> QED
    BY <1>18, <1>19, <1>20, <2>2, <2>3, <2>7, <2>8 DEF CallbacksInv
<1>24. CASE L.firingIndex = 2
  <2>1. f = "disable"
    BY <1>1, <1>9, <1>24 DEF OpeningOf, HasOwn
  <2>2. PICK D : D = disable(O)
    OBVIOUS
  <2>3. state' = state /\ lists' = [ls1 EXCEPT ![Other(n)] = D]
    <3>1. lists' = [lists EXCEPT ![n] = M, ![Other(n)] = disable(@)]
      BY <1>22, <2>1 DEF CallsOwn
    <3>2. n \in DOMAIN lists /\ Other(n) \in DOMAIN lists /\ n # Other(n)
          /\ lists \in [DOMAIN lists -> CbList]
      BY ONLY <1>0, <1>8, <1>14
    <3>3. lists' = [ls1 EXCEPT ![Other(n)] = D]
      BY ONLY <1>7, <1>13, <2>2, <3>1, <3>2, DisablesToo
    <3> QED
      BY <1>22, <2>1, <3>3 DEF CallsOwn
  <2>4. RoundIs(O, dueCalls[Other(n)], FALSE) /\ O.firing = FALSE /\ O.running \in BOOLEAN
    <3>1. O.firing = FALSE
      BY <1>9 DEF OpeningOf, Winner
    <3> QED
      BY <1>7, <1>8, <3>1, InvFacts, CbListFacts
  <2>5. dueCalls[Other(n)] = << >> /\ O.running = FALSE
    BY <2>4 DEF RoundIs
  <2>6. /\ D \in CbList /\ RoundIs(D, << >>, FALSE)
        /\ D.options = O.options /\ D.running = O.running /\ D.firing = O.firing
        /\ D.disabled = TRUE /\ D.fired = O.fired /\ D.data = O.data
        /\ D.locked = TRUE
    <3>1. << >> \in FnLists /\ << >> \in ValueLists
      BY CbListFacts DEF FnLists, ValueLists
    <3>2. D \in CbList
      BY <2>2, <3>1, DisableType
    <3>3. /\ D.options = O.options /\ D.list = << >> /\ D.disabled = TRUE
          /\ D.locked = TRUE /\ D.data = O.data /\ D.fired = O.fired
          /\ D.firing = O.firing /\ D.running = O.running
      BY <2>2, DisableFields
    <3>4. RoundIs(D, << >>, FALSE)
      BY ONLY <2>4, <2>5, <3>3 DEF RoundIs
    <3> QED
      BY ONLY <3>2, <3>3, <3>4
  <2>7. /\ lists' \in [DOMAIN lists -> CbList] /\ Changed(DOMAIN lists, ls1, Other(n), D, lists')
    BY <1>8, <1>15, <2>3, <2>6, ExceptChanges
  <2>8. Changed(DOMAIN lists, dueCalls', Other(n), << >>, dueCalls')
    BY <1>8, <1>17, <1>21, <2>5 DEF Changed
  <2>9. ListsOf(DOMAIN lists, lists', dueCalls', emptied)
    <3>1. Other(n) \in {"done", "fail"} /\ RoundIs(D, << >>, Other(n) \in emptied)
          /\ emptied \subseteq (DOMAIN lists) \cap {"list"}
      <4>1. (Other(n) \in emptied) = FALSE /\ emptied \subseteq (DOMAIN lists) \cap {"list"}
        BY ONLY <1>14
      <4>2. Other(n) \in {"done", "fail"}
        BY ONLY <1>8 DEF Two
      <4> QED
        BY ONLY <2>6, <4>1, <4>2
    <3>2. << >> \in Seq(Fs)
      BY NoneFns
    <3> QED
      BY <1>8, <1>17, <1>18, <2>6, <2>7, <2>8, <3>1, <3>2, OneList
  <2>10. /\ lists'[n] = M /\ lists'[Other(n)] = D /\ lists'["progress"] = P
    BY <1>0, <1>8, <1>21, <2>7 DEF Changed
  <2>11. FramesOf(DOMAIN lists, lists', callbackFrames)
    <3>1. /\ \A m \in DOMAIN lists : lists'[m].firing = lists[m].firing
          /\ \A m \in DOMAIN lists : lists'[m].running = lists[m].running
      <4>1. D.firing = ls1[Other(n)].firing /\ D.running = ls1[Other(n)].running
        BY <1>21, <2>6
      <4>2. \A m \in DOMAIN lists : lists'[m] = IF m = Other(n) THEN D ELSE ls1[m]
        BY <2>7 DEF Changed
      <4>3. \A m \in DOMAIN lists :
              lists'[m].firing = ls1[m].firing /\ lists'[m].running = ls1[m].running
        BY ONLY <4>1, <4>2
      <4> QED
        BY ONLY <1>21, <4>3
    <3> QED
      BY ONLY <1>14, <3>1, SameFrames
  <2>12. Kinds(lists')
    BY <1>1, <1>6, <1>7, <1>8, <1>12, <2>6, <2>10 DEF Kinds
  <2>13. OpeningOf(n, M, D, d, owed, state, settledWith)
    <3>1. M.firingIndex = 3 /\ state = OutcomeOf(n)
      BY <1>6, <1>9, <1>24 DEF OpeningOf
    <3> QED
      BY <1>10, <1>11, <2>6, <3>1 DEF OpeningOf, Winner
  <2>14. Opens(lists', callbackFrames, dueCalls', owed, state, settledWith)
    <3>1. n \in Two /\ n = Last(callbackFrames) /\ callbackFrames # << >> /\ settledWith \in Values
      BY <1>2
    <3> QED
      BY ONLY <1>21, <2>10, <2>13, <3>1 DEF Opens
  <2>15. DeferredOf(lists', callbackFrames', dueCalls', owed', state', settledWith')
    BY <1>19, <2>3, <2>12, <2>14 DEF DeferredOf
  <2>16. DOMAIN lists' = DOMAIN lists
    BY <2>7
  <2> QED
    BY <1>19, <1>20, <2>9, <2>11, <2>15, <2>16 DEF CallbacksInv
<1>25. CASE L.firingIndex = 3
  <2>1. f = "lock"
    BY <1>1, <1>9, <1>25 DEF OpeningOf, HasOwn
  <2>2. PICK D : D = lock(P)
    OBVIOUS
  <2>3. state' = state /\ lists' = [ls1 EXCEPT !["progress"] = D]
    <3>1. lists' = [lists EXCEPT ![n] = M, !["progress"] = lock(@)]
      BY <1>22, <2>1 DEF CallsOwn
    <3>2. n \in DOMAIN lists /\ "progress" \in DOMAIN lists /\ n # "progress"
          /\ lists \in [DOMAIN lists -> CbList]
      BY ONLY <1>0, <1>8, <1>14
    <3>3. lists' = [ls1 EXCEPT !["progress"] = D]
      BY ONLY <1>7, <1>13, <2>2, <3>1, <3>2, LocksToo
    <3> QED
      BY <1>22, <2>1, <3>3 DEF CallsOwn
  <2>4. PICK e \in Seq(Fs) : e = dueCalls["progress"]
    BY <1>8, InvFacts
  <2>5. RoundIs(P, e, FALSE) /\ P.firing \in BOOLEAN /\ (P.firing => P.memory # NoFn)
    <3>1. ("progress" \in emptied) = FALSE
      BY ONLY <1>14
    <3>2. RoundIs(lists["progress"], dueCalls["progress"], "progress" \in emptied)
      BY ONLY <1>8, InvFacts, CallbacksInv
    <3>3. RoundIs(P, e, FALSE)
      BY ONLY <1>7, <2>4, <3>1, <3>2
    <3>4. P.firing \in BOOLEAN
      BY CbListFacts
    <3> QED
      BY ONLY <1>7, <1>12, <3>3, <3>4 DEF Kinds
  <2>6. /\ D \in CbList
        /\ RoundIs(D, IF D.disabled THEN << >> ELSE e, FALSE)
        /\ P.memory # NoFn => RoundIs(D, e, FALSE)
        /\ D.options = P.options /\ D.running = P.running /\ D.firing = P.firing
        /\ D.list \in {P.list, << >>} /\ D.memory = P.memory
    <3>1. PICK hollow \in BOOLEAN : hollow = FALSE
      OBVIOUS
    <3>2. P \in CbList /\ RoundIs(P, e, hollow)
      BY <2>5, <3>1
    <3>3. /\ D \in CbList
          /\ RoundIs(D, IF D.disabled THEN << >> ELSE e, hollow)
          /\ P.memory # NoFn => RoundIs(D, e, hollow)
          /\ D.options = P.options /\ D.running = P.running /\ D.firing = P.firing
          /\ D.list \in {P.list, << >>} /\ D.memory = P.memory
      BY ONLY <2>2, <3>2, hollow \in BOOLEAN, LockRound
    <3> QED
      BY ONLY <3>1, <3>3
  <2>7. RoundIs(D, e, FALSE)
    <3>1. CASE P.memory # NoFn
      BY <2>6, <3>1
    <3>2. CASE P.memory = NoFn
      <4>1. e = << >>
        BY <2>5, <3>2 DEF RoundIs
      <4> QED
        BY <2>6, <4>1
    <3> QED
      BY <3>1, <3>2
  <2>8. /\ lists' \in [DOMAIN lists -> CbList] /\ Changed(DOMAIN lists, ls1, "progress", D, lists')
    BY <1>8, <1>15, <2>3, <2>6, ExceptChanges
  <2>9. Changed(DOMAIN lists, dueCalls', "progress", e, dueCalls')
    BY <1>8, <1>17, <1>21, <2>4 DEF Changed
  <2>10. ListsOf(DOMAIN lists, lists', dueCalls', emptied)
    <3>1. P.list \in Seq(Fns)
      BY <1>7, <1>8, <1>14 DEF ListsOf
    <3>2. D.list \in Seq(Fns)
      BY <2>6, <3>1, NoneFns
    <3>3. RoundIs(D, e, "progress" \in emptied) /\ emptied \subseteq (DOMAIN lists) \cap {"list"}
      <4>1. ("progress" \in emptied) = FALSE /\ emptied \subseteq (DOMAIN lists) \cap {"list"}
        BY ONLY <1>14
      <4> QED
        BY ONLY <2>7, <4>1
    <3> QED
      BY <1>8, <1>17, <1>18, <2>6, <2>8, <2>9, <3>2, <3>3, OneList
  <2>11. /\ lists'[n] = M /\ lists'[Other(n)] = O /\ lists'["progress"] = D
    BY <1>0, <1>8, <1>21, <2>8 DEF Changed
  <2>12. FramesOf(DOMAIN lists, lists', callbackFrames)
    <3>1. /\ \A m \in DOMAIN lists : lists'[m].firing = lists[m].firing
          /\ \A m \in DOMAIN lists : lists'[m].running = lists[m].running
      BY <1>7, <1>21, <2>6, <2>8 DEF Changed
    <3> QED
      BY ONLY <1>14, <3>1, SameFrames
  <2>13. Kinds(lists')
    <3>1. M.options = lists[n].options /\ M.locked = lists[n].locked
          /\ (D.firing => D.memory # NoFn) /\ D.options = P.options
      BY <1>1, <1>6, <2>5, <2>6
    <3> QED
      BY ONLY <1>2, <1>7, <1>8, <1>12, <2>11, <3>1 DEF Kinds
  <2>14. OpenedOf(n, M, O, d, owed, state, settledWith)
    <3>1. state = OutcomeOf(n) /\ O.disabled = TRUE
      BY <1>9, <1>25 DEF OpeningOf
    <3>2. d = SubSeq(L.list, 4, Len(L.list)) /\ HasOwn(L.list) /\ L.list \in Seq(Fs)
      BY <1>6, <1>9, <1>25, CbListFacts DEF OpeningOf
    <3>3. d \in Seq(Fns)
      BY <3>2, EndFns
    <3> QED
      BY <1>10, <3>1, <3>3 DEF OpenedOf
  <2>15. Quiet(lists', dueCalls', owed, state, settledWith)
    BY ONLY <1>2, <1>21, <2>11, <2>14 DEF Quiet
  <2>16. DeferredOf(lists', callbackFrames', dueCalls', owed', state', settledWith')
    BY <1>19, <2>3, <2>13, <2>15 DEF DeferredOf
  <2>17. DOMAIN lists' = DOMAIN lists
    BY <2>8
  <2> QED
    BY <1>19, <1>20, <2>10, <2>12, <2>16, <2>17 DEF CallbacksInv
<1>26. L.firingIndex = 1 \/ L.firingIndex = 2 \/ L.firingIndex = 3
  BY <1>9 DEF OpeningOf
<1> QED
  BY <1>23, <1>24, <1>25, <1>26

(* While no caller has control the innermost list is between callbacks.     *)
LEMMA Innermost ==
  ASSUME CallbacksInv, ~ CallerInControl
  PROVE  callbackFrames # << >> /\ lists[Last(callbackFrames)].running = FALSE
         /\ Last(callbackFrames) \in DOMAIN lists /\ lists[Last(callbackFrames)].firing = TRUE
<1>1. callbackFrames # << >> /\ ~ lists[Last(callbackFrames)].running
  BY DEF CallerInControl
<1>2. Last(callbackFrames) \in DOMAIN lists /\ lists[Last(callbackFrames)].firing
  BY <1>1, LastFires DEF CallbacksInv
<1>3. PICK L \in CbList : L = lists[Last(callbackFrames)]
  BY <1>2, InvFacts
<1>4. L.running \in BOOLEAN /\ L.firing \in BOOLEAN
  BY CbListFacts
<1> QED
  BY <1>1, <1>2, <1>3, <1>4

(* The loop's next callback keeps the invariant, whose ever it is.          *)
LEMMA NextStep == ASSUME CallbacksInv, CallsNext PROVE CallbacksInv'
<1>1. PICK n : n = Last(callbackFrames)
  OBVIOUS
<1>2. PICK f : f = lists[n].list[lists[n].firingIndex]
  OBVIOUS
<1>3. callbackFrames # << >> /\ ~ lists[n].running
  BY <1>1, Innermost DEF CallsNext
<1>4. /\ ~ lists[n].disabled /\ lists[n].firingIndex <= lists[n].firingLength
      /\ dueCalls' = [dueCalls EXCEPT ![n] = IF @ # << >> THEN Tail(@) ELSE @]
      /\ UNCHANGED <<callbackFrames, emptied, settledWith>>
  BY <1>1 DEF CallsNext
<1>5. \/ /\ f \in ToSet(OwnCallbacks)
         /\ CallsOwn(n, f, [lists[n] EXCEPT !.firingIndex = @ + 1])
         /\ UNCHANGED owed
      \/ /\ f \in Fns
         /\ lists' = [lists EXCEPT ![n].running = TRUE]
         /\ owed' = [owed EXCEPT ![<<n, f>>] = IF @ > 0 THEN @ - 1 ELSE @]
         /\ UNCHANGED state
  BY <1>1, <1>2 DEF CallsNext
<1>6. CASE f \in ToSet(OwnCallbacks) /\ CallsOwn(n, f, [lists[n] EXCEPT !.firingIndex = @ + 1])
           /\ UNCHANGED owed
  <2>1. f \in Own
    BY <1>6, OwnFacts
  <2>2. UNCHANGED <<owed, callbackFrames, emptied, settledWith>>
    BY <1>4, <1>6
  <2> QED
    BY ONLY CallbacksInv, <1>1, <1>2, <1>3, <1>4, <1>6, <2>1, <2>2, OwnStep
<1>7. CASE f \in Fns /\ lists' = [lists EXCEPT ![n].running = TRUE]
           /\ owed' = [owed EXCEPT ![<<n, f>>] = IF @ > 0 THEN @ - 1 ELSE @]
           /\ UNCHANGED state
  <2>1. UNCHANGED <<callbackFrames, state, emptied, settledWith>>
    BY <1>4, <1>7
  <2> QED
    BY ONLY CallbacksInv, <1>1, <1>2, <1>3, <1>4, <1>7, <2>1, PageStep
<1> QED
  BY <1>5, <1>6, <1>7

(* What Quiet looks at in a list.                                           *)
Alike(L, M) ==
  /\ M.fired = L.fired /\ M.firing = L.firing /\ M.disabled = L.disabled
  /\ M.data = L.data /\ M.memory = L.memory /\ M.list = L.list

(* A return changes nothing that the outcome depends on.                    *)
LEMMA QuietAlike ==
  ASSUME NEW ls, NEW dues, NEW ow, NEW st, NEW sw, Quiet(ls, dues, ow, st, sw),
         NEW ls2, NEW dues2, \A n \in Two : Alike(ls[n], ls2[n]) /\ dues2[n] = dues[n]
  PROVE  Quiet(ls2, dues2, ow, st, sw)
<1>1. CASE sw = NoFn /\ st = "pending" /\ \A n \in Two : Untouched(n, ls[n], ow)
  BY <1>1 DEF Quiet, Untouched, Alike
<1>2. ASSUME sw \in Values, NEW w \in Two,
             OpenedOf(w, ls[w], ls[Other(w)], dues[w], ow, st, sw)
      PROVE  Quiet(ls2, dues2, ow, st, sw)
  <2>1. Alike(ls[w], ls2[w]) /\ Alike(ls[Other(w)], ls2[Other(w)]) /\ dues2[w] = dues[w]
    BY OtherFacts
  <2>2. OpenedOf(w, ls2[w], ls2[Other(w)], dues2[w], ow, st, sw)
    BY <1>2, <2>1 DEF OpenedOf, Winner, Alike
  <2> QED
    BY <1>2, <2>2 DEF Quiet
<1> QED
  BY <1>1, <1>2 DEF Quiet

(* A return keeps the invariant.                                            *)
LEMMA ReturnsStep == ASSUME CallbacksInv, Returns PROVE CallbacksInv'
<1>1. PICK n : n = Last(callbackFrames)
  OBVIOUS
<1>2. /\ callbackFrames # << >> /\ n \in DOMAIN lists /\ lists[n].running
      /\ InControl(lists, callbackFrames)
  BY <1>1, LastFires DEF Returns, CallerInControl, InControl, CallbacksInv
<1>3. PICK L \in CbList, q \in Seq(Fs) : L = lists[n] /\ q = dueCalls[n]
  BY <1>2, InvFacts
<1>4. PICK hollow \in BOOLEAN : hollow = (n \in emptied)
  BY <1>2, InvFacts
<1>5. PICK M : M = Passed(L)
  OBVIOUS
<1>6. /\ M \in CbList /\ RoundIs(M, q, hollow)
      /\ M.list = L.list /\ M.options = L.options /\ M.disabled = L.disabled
      /\ M.locked = L.locked /\ M.memory = L.memory
      /\ M.data = L.data /\ M.fired = L.fired /\ M.firing = L.firing
  <2>1. RoundIs(L, q, hollow) /\ L.running
    BY <1>2, <1>3, <1>4, InvFacts
  <2>2. Passes(L, q, hollow, M)
    BY <1>5, <2>1, ReturnRound
  <2> QED
    BY <2>2 DEF Passes
<1>7. lists \in [DOMAIN lists -> CbList] /\ dueCalls \in [DOMAIN lists -> FnLists]
  BY <1>2, InvFacts
<1>8. lists' = [lists EXCEPT ![n] = M]
  <2>1. lists' = [lists EXCEPT ![n].running = FALSE, ![n].firingIndex = @ + 1]
    BY <1>1 DEF Returns
  <2>2. lists' = [lists EXCEPT ![n] = [lists[n] EXCEPT !.running = FALSE, !.firingIndex = @ + 1]]
    BY ONLY <1>2, <1>7, <2>1 DEF CbList
  <2> QED
    BY ONLY <1>3, <1>5, <2>2 DEF Passed
<1>9. /\ callbackFrames' = callbackFrames /\ emptied' = emptied /\ dueCalls' = dueCalls
      /\ owed' = owed /\ state' = state /\ settledWith' = settledWith
  BY DEF Returns
<1>10. dueCalls' = [dueCalls EXCEPT ![n] = q]
  BY <1>3, <1>7, <1>9
<1>11. /\ DOMAIN lists' = DOMAIN lists
       /\ ListsOf(DOMAIN lists, lists', dueCalls', emptied')
       /\ FramesOf(DOMAIN lists, lists', callbackFrames')
       /\ Changed(DOMAIN lists, lists, n, M, lists')
  <2>1. M.firing = lists[n].firing /\ M.list = lists[n].list /\ RoundIs(M, q, n \in emptied)
    BY ONLY <1>3, <1>4, <1>6
  <2> QED
    BY ONLY CallbacksInv, <1>1, <1>2, <1>6, <1>8, <1>9, <1>10, <2>1, q \in Seq(Fs), LastStep
<1>12. ASSUME "done" \in DOMAIN lists
       PROVE  Kinds(lists') /\ Quiet(lists', dueCalls', owed', state', settledWith')
  <2>1. /\ Two \subseteq DOMAIN lists /\ "progress" \in DOMAIN lists
    BY <1>12, NameFacts
  <2>2. Kinds(lists) /\ Quiet(lists, dueCalls, owed, state, settledWith)
    BY <1>2, <1>12, QuietNow DEF CallbacksInv, DeferredOf
  <2>3. \A m \in DOMAIN lists : Alike(lists[m], lists'[m])
            /\ lists'[m].options = lists[m].options /\ lists'[m].locked = lists[m].locked
    BY <1>3, <1>6, <1>11 DEF Changed, Alike
  <2>4. Kinds(lists')
    BY <2>1, <2>2, <2>3 DEF Kinds, Alike
  <2>5. \A m \in Two : Alike(lists[m], lists'[m]) /\ dueCalls'[m] = dueCalls[m]
    BY <1>9, <2>1, <2>3
  <2>6. Quiet(lists', dueCalls', owed, state, settledWith)
    BY ONLY <2>2, <2>5, QuietAlike
  <2> QED
    BY <1>9, <2>4, <2>6
<1>13. owed' \in [(DOMAIN lists) \X Fns -> Nat]
  BY <1>9 DEF CallbacksInv
<1> QED
  BY <1>11, <1>12, <1>13 DEF CallbacksInv, DeferredOf

(* A false that stops keeps the invariant: no list of a Deferred stops.     *)
LEMMA ReturnsFalseStep == ASSUME CallbacksInv, ReturnsFalse PROVE CallbacksInv'
<1>1. PICK n : n = Last(callbackFrames)
  OBVIOUS
<1>2. /\ callbackFrames # << >> /\ n \in DOMAIN lists /\ lists[n].running
  BY <1>1, LastFires DEF ReturnsFalse, CallerInControl, CallbacksInv
<1>3. PICK L \in CbList, q \in Seq(Fs) : L = lists[n] /\ q = dueCalls[n]
  BY <1>2, InvFacts
<1>4. PICK hollow \in BOOLEAN : hollow = (n \in emptied)
  BY <1>2, InvFacts
<1>5. PICK M : M = Stopped(L)
  OBVIOUS
<1>6. /\ M \in CbList /\ RoundIs(M, << >>, hollow)
      /\ M.list = L.list /\ M.firing = L.firing
  <2>1. RoundIs(L, q, hollow) /\ L.running
    BY <1>2, <1>3, <1>4, InvFacts
  <2>2. Stops(L, q, hollow, M)
    BY <1>5, <2>1, ReturnFalseRound
  <2> QED
    BY <2>2 DEF Stops
<1>7. lists \in [DOMAIN lists -> CbList]
  BY <1>2, InvFacts
<1>8. lists' = [lists EXCEPT ![n] = M]
  <2>1. lists' = [lists EXCEPT ![n].running = FALSE, ![n].memory = NoFn,
                               ![n].firingIndex = lists[n].firingLength + 1]
    BY <1>1 DEF ReturnsFalse
  <2>2. lists' = [lists EXCEPT ![n] = [lists[n] EXCEPT !.running = FALSE, !.memory = NoFn,
                                         !.firingIndex = lists[n].firingLength + 1]]
    BY ONLY <1>2, <1>7, <2>1 DEF CbList
  <2> QED
    BY ONLY <1>3, <1>5, <2>2 DEF Stopped
<1>9. /\ callbackFrames' = callbackFrames /\ emptied' = emptied /\ owed' = owed
      /\ dueCalls' = [dueCalls EXCEPT ![n] = << >>]
  BY <1>1 DEF ReturnsFalse
<1>10. /\ DOMAIN lists' = DOMAIN lists
       /\ ListsOf(DOMAIN lists, lists', dueCalls', emptied')
       /\ FramesOf(DOMAIN lists, lists', callbackFrames')
  <2>1. M.firing = lists[n].firing /\ M.list = lists[n].list /\ RoundIs(M, << >>, n \in emptied)
    BY ONLY <1>3, <1>4, <1>6
  <2>2. << >> \in Seq(Fs)
    BY NoneFns
  <2> QED
    BY ONLY CallbacksInv, <1>1, <1>2, <1>6, <1>8, <1>9, <2>1, <2>2, LastStep
<1>11. "done" \notin DOMAIN lists
  <2>1. ASSUME "done" \in DOMAIN lists PROVE FALSE
    <3>1. Kinds(lists) /\ (n \in Two \/ n = "progress")
      BY <1>2, <2>1, NameFacts DEF CallbacksInv, DeferredOf
    <3>2. "stopOnFalse" \in lists[n].options
      BY <1>1 DEF ReturnsFalse
    <3> QED
      BY <3>1, <3>2 DEF Kinds
  <2> QED
    BY <2>1
<1>12. owed' \in [(DOMAIN lists) \X Fns -> Nat]
  BY <1>9 DEF CallbacksInv
<1> QED
  BY <1>10, <1>11, <1>12 DEF CallbacksInv, DeferredOf

(* The end of a loop keeps the invariant: a Deferred's own callbacks are    *)
(* done by then.                                                            *)
LEMMA EndStep == ASSUME CallbacksInv, FireEnds PROVE CallbacksInv'
<1>1. PICK n : n = Last(callbackFrames)
  OBVIOUS
<1>2. /\ callbackFrames # << >> /\ n \in DOMAIN lists
      /\ lists[n].firing = TRUE /\ lists[n].running = FALSE
  BY <1>1, Innermost DEF FireEnds
<1>3. PICK L \in CbList, q \in Seq(Fs) : L = lists[n] /\ q = dueCalls[n]
  BY <1>2, InvFacts
<1>4. PICK hollow \in BOOLEAN : hollow = (n \in emptied)
  BY <1>2, InvFacts
<1>5. PICK M : M = LoopEnds(L)
  OBVIOUS
<1>6. PICK d : d = IF M.firing THEN M.list ELSE IF hollow THEN << >> ELSE q
  OBVIOUS
<1>7. L.disabled \/ L.firingIndex > L.firingLength
  BY <1>1, <1>3 DEF FireEnds
<1>8. RoundIs(L, q, hollow)
  BY <1>2, <1>3, <1>4, InvFacts
<1>9. Ends(L, M, d)
  <2>1. L.firing /\ ~ L.running
    BY <1>2, <1>3
  <2> QED
    BY <1>5, <1>6, <1>7, <1>8, <2>1, LoopEndsRound
<1>10. M \in CbList /\ d \in Seq(Fs) /\ RoundIs(M, d, FALSE) /\ M.running = FALSE
       /\ M.list \in {L.list, << >>} /\ M.options = L.options /\ M.locked = L.locked
  BY <1>9 DEF Ends
<1>11. lists \in [DOMAIN lists -> CbList] /\ dueCalls \in [DOMAIN lists -> FnLists]
  BY <1>2, InvFacts
<1>12. lists' = [lists EXCEPT ![n] = M]
       /\ callbackFrames' = (IF M.firing THEN callbackFrames ELSE Front(callbackFrames))
       /\ emptied' = emptied \ {n}
       /\ dueCalls' = (IF M.firing THEN [dueCalls EXCEPT ![n] = M.list]
                       ELSE IF n \in emptied THEN [dueCalls EXCEPT ![n] = << >>] ELSE dueCalls)
       /\ state' = state /\ owed' = owed /\ settledWith' = settledWith
  BY <1>1, <1>3, <1>5 DEF FireEnds
<1>13. /\ lists' \in [DOMAIN lists -> CbList] /\ Changed(DOMAIN lists, lists, n, M, lists')
  BY <1>2, <1>10, <1>11, <1>12, ExceptChanges
<1>14. dueCalls' = [dueCalls EXCEPT ![n] = d]
  <2>1. CASE M.firing
    BY <1>6, <1>12, <2>1
  <2>2. CASE ~ M.firing /\ hollow
    BY <1>4, <1>6, <1>12, <2>2
  <2>3. CASE ~ M.firing /\ ~ hollow
    <3>1. d = dueCalls[n] /\ dueCalls' = dueCalls
      BY <1>3, <1>4, <1>6, <1>12, <2>3
    <3> QED
      BY <1>11, <3>1
  <2> QED
    BY <2>1, <2>2, <2>3
<1>15. /\ dueCalls' \in [DOMAIN lists -> FnLists]
       /\ Changed(DOMAIN lists, dueCalls, n, d, dueCalls')
  BY <1>2, <1>10, <1>14, DueChanges
<1>16. ListsOf(DOMAIN lists, lists', dueCalls', emptied')
  <2>1. /\ emptied' \subseteq (DOMAIN lists) \cap {"list"} /\ emptied' \ {n} = emptied \ {n}
        /\ ListsOf(DOMAIN lists, lists, dueCalls, emptied)
    BY <1>12 DEF CallbacksInv, ListsOf
  <2>2. RoundIs(M, d, n \in emptied')
    <3>1. (n \in emptied') = FALSE
      BY ONLY <1>12
    <3> QED
      BY ONLY <1>10, <3>1
  <2>3. n \in {"done", "fail"} \/ M.list \in Seq(Fns)
    <3>1. n \in {"done", "fail"} \/ L.list \in Seq(Fns)
      BY <1>2, <1>3, <2>1 DEF ListsOf
    <3> QED
      BY <1>10, <3>1, NoneFns
  <2> QED
    BY ONLY <1>2, <1>10, <1>13, <1>15, <2>1, <2>2, <2>3, OneList
<1>17. FramesOf(DOMAIN lists, lists', callbackFrames')
  <2>1. FramesOf(DOMAIN lists, lists, callbackFrames) /\ M.firing \in BOOLEAN
    BY <1>10, CbListFacts DEF CallbacksInv
  <2>2. CASE M.firing
    <3>1. /\ \A m \in DOMAIN lists : lists'[m].firing = lists[m].firing
          /\ \A m \in DOMAIN lists : lists'[m].running = lists[m].running
      BY <1>2, <1>10, <1>13, <2>1, <2>2 DEF Changed
    <3>2. callbackFrames' = callbackFrames
      BY <1>12, <2>2
    <3> QED
      BY ONLY <2>1, <3>1, <3>2, SameFrames
  <2>3. CASE ~ M.firing
    <3>1. M.firing = FALSE /\ callbackFrames' = Front(callbackFrames)
      BY <1>12, <2>1, <2>3
    <3> QED
      BY ONLY <1>1, <1>2, <1>13, <2>1, <3>1, FrameEnds
  <2> QED
    BY <2>2, <2>3
<1>18. owed' \in [(DOMAIN lists) \X Fns -> Nat]
  BY <1>12 DEF CallbacksInv
<1>19. ASSUME "done" \in DOMAIN lists
       PROVE  Kinds(lists') /\ Quiet(lists', dueCalls', owed', state', settledWith')
  <2>1. /\ Two \subseteq DOMAIN lists /\ (n \in Two \/ n = "progress")
        /\ "progress" \notin Two /\ n # "list" /\ "progress" \in DOMAIN lists
    BY <1>2, <1>19, NameFacts
  <2>2. /\ Kinds(lists)
        /\ \/ Quiet(lists, dueCalls, owed, state, settledWith)
           \/ Opens(lists, callbackFrames, dueCalls, owed, state, settledWith)
    BY <1>19 DEF CallbacksInv, DeferredOf
  <2>3. /\ lists'[n] = M /\ \A m \in (DOMAIN lists) \ {n} : lists'[m] = lists[m]
        /\ dueCalls'[n] = d /\ \A m \in (DOMAIN lists) \ {n} : dueCalls'[m] = dueCalls[m]
    BY <1>13, <1>15 DEF Changed
  <2>4. Quiet(lists, dueCalls, owed, state, settledWith)
    <3>1. ASSUME Opens(lists, callbackFrames, dueCalls, owed, state, settledWith)
          PROVE  FALSE
      <4>1. OpeningOf(n, L, lists[Other(n)], q, owed, state, settledWith)
        BY <1>1, <1>3, <3>1 DEF Opens
      <4>2. L.disabled = FALSE /\ HasOwn(L.list) /\ L.firingIndex \in 1 .. 3
        BY <4>1 DEF OpeningOf, Winner
      <4>3. L.firingLength = Len(L.list) /\ Len(L.list) >= 3 /\ Len(L.list) \in Nat
        BY <1>2, <1>3, <1>8, <4>2, CbListFacts DEF RoundIs, HasOwn
      <4> QED
        BY <1>7, <4>2, <4>3
    <3> QED
      BY <2>2, <3>1
  <2>5. CASE n \in Two
    <3>1. settledWith \in Values
          /\ OpenedOf(n, L, lists[Other(n)], q, owed, state, settledWith)
      BY <1>2, <1>3, <2>4, <2>5, QuietOwes
    <3>2. /\ M.firing = FALSE /\ M.disabled = L.disabled /\ M.memory = L.memory
          /\ M.data = L.data /\ M.fired = L.fired
      <4>1. L.locked = TRUE /\ L.disabled = FALSE /\ L.memory # NoFn
        BY <1>3, <2>2, <2>5, <3>1 DEF Kinds, OpenedOf, Winner, Values, NoFn
      <4> QED
        BY <1>9, <4>1 DEF Ends
    <3>3. d = q /\ q \in Seq(Fns)
      <4>1. hollow = FALSE
        BY <1>2, <1>4, <2>1, InvFacts
      <4> QED
        BY <1>6, <3>1, <3>2, <4>1 DEF OpenedOf
    <3>4. dueCalls'[n] \in Seq(Fns) /\ \A g \in Fns : owed[<<n, g>>] = Count(dueCalls'[n], g)
      BY <2>3, <3>1, <3>3 DEF OpenedOf, Winner
    <3>5. lists'[Other(n)] = lists[Other(n)]
      BY <2>1, <2>3, <2>5, OtherFacts
    <3>6. /\ lists'[n].fired = lists[n].fired /\ lists'[n].disabled = lists[n].disabled
          /\ lists'[n].data = lists[n].data /\ lists'[n].memory = lists[n].memory
      BY <1>3, <2>3, <3>2
    <3>7. Quiet(lists', dueCalls', owed, state, settledWith)
      BY ONLY <1>2, <2>4, <2>5, <3>4, <3>5, <3>6, QuietRun
    <3>8. Kinds(lists')
      BY ONLY <1>3, <1>10, <2>1, <2>2, <2>3, <2>5 DEF Kinds
    <3> QED
      BY <1>12, <3>7, <3>8
  <2>6. CASE n = "progress"
    <3>1. \A m \in Two : m # n /\ lists'[m] = lists[m] /\ dueCalls'[m] = dueCalls[m]
      BY <2>1, <2>3, <2>6
    <3>2. Quiet(lists', dueCalls', owed, state, settledWith)
      BY ONLY <2>4, <3>1, QuietElsewhere
    <3>3. Kinds(lists')
      <4>1. L.options = {"memory"}
        BY <1>3, <2>2, <2>6 DEF Kinds
      <4>2. M.options = {"memory"} /\ (M.firing => M.memory # NoFn)
        BY <1>9, <4>1 DEF Ends
      <4> QED
        BY ONLY <2>2, <2>3, <2>6, <3>1, <4>2 DEF Kinds
    <3> QED
      BY <1>12, <3>2, <3>3
  <2> QED
    BY <2>1, <2>5, <2>6
<1>20. DOMAIN lists' = DOMAIN lists
  BY <1>13
<1> QED
  BY <1>16, <1>17, <1>18, <1>19, <1>20 DEF CallbacksInv, DeferredOf

(* A new list: no round, nothing due.                                       *)
Fresh(options, list, L) ==
  /\ L \in CbList /\ RoundIs(L, << >>, FALSE)
  /\ L.options = options /\ L.list = list /\ L.locked = ("once" \in options)
  /\ L.disabled = FALSE /\ L.fired = FALSE /\ L.firing = FALSE /\ L.running = FALSE
  /\ L.data = NoFn /\ L.memory = NoFn

(* A new list is a list, and has no round.                                  *)
LEMMA NewListIs ==
  ASSUME NEW options \in SUBSET Options, NEW list \in Seq(Fs)
  PROVE  Fresh(options, list, NewList(options, list))
<1>0. PICK L : L = NewList(options, list)
  OBVIOUS
<1>1. list \in FnLists /\ << >> \in ValueLists
  BY CbListFacts DEF FnLists, ValueLists
<1>2. NoFn \in Val /\ 1 \in Nat /\ 0 \in Nat
  BY DEF Val
<1>3. L \in CbList
  BY <1>0, <1>1, <1>2 DEF CbList, NewList
<1>4. /\ L.options = options /\ L.list = list /\ L.locked = ("once" \in options)
      /\ L.disabled = FALSE /\ L.fired = FALSE /\ L.firing = FALSE /\ L.running = FALSE
      /\ L.data = NoFn /\ L.memory = NoFn
  BY <1>0 DEF NewList
<1>5. RoundIs(L, << >>, FALSE)
  BY <1>4 DEF RoundIs
<1> QED
  BY <1>0, <1>3, <1>4, <1>5 DEF Fresh

(* The Deferred's own callbacks are not the page's: none is owed.           *)
LEMMA OwnCounts ==
  /\ OwnCallbacks \in Seq(Fs) /\ HasOwn(OwnCallbacks)
  /\ \A f \in Fns : Count(OwnCallbacks, f) = 0
<1>1. OwnCallbacks \in Seq(Fs)
  BY DEF OwnCallbacks, Fs, Own
<1>2. Len(OwnCallbacks) = 3 /\ DOMAIN OwnCallbacks = 1 .. 3 /\ 1 .. 3 = {1, 2, 3}
  BY DEF OwnCallbacks
<1>3. HasOwn(OwnCallbacks)
  <2>1. 4 .. 3 = {}
    OBVIOUS
  <2> QED
    BY <1>2, <2>1, OwnFacts DEF HasOwn
<1>4. ASSUME NEW f \in Fns PROVE Count(OwnCallbacks, f) = 0
  <2>1. Places(OwnCallbacks, {f}) = {}
    BY <1>2, OwnFacts DEF Places, Own
  <2> QED
    BY <2>1, FS_EmptySet DEF Count
<1> QED
  BY <1>1, <1>3, <1>4

(* Nothing fires at first.                                                  *)
LEMMA NoFrames ==
  ASSUME NEW N, NEW ls, \A n \in N : ls[n].firing = FALSE
  PROVE  FramesOf(N, ls, << >>)
<1>1. << >> \in Seq(N) /\ Len(<< >>) = 0 /\ 1 .. 0 = {}
  OBVIOUS
<1> QED
  BY <1>1 DEF FramesOf

(* The invariant holds at first.                                            *)
LEMMA Started == ASSUME CallbacksInit PROVE CallbacksInv
<1>1. /\ callbackFrames = << >> /\ state = "pending"
      /\ dueCalls = [n \in DOMAIN lists |-> << >>] /\ emptied = {}
      /\ owed = [a \in (DOMAIN lists) \X Fns |-> 0] /\ settledWith = NoFn
  BY DEF CallbacksInit
<1>2. << >> \in FnLists /\ << >> \in Seq(Fs)
  BY NoneFns DEF FnLists
<1>3. owed \in [(DOMAIN lists) \X Fns -> Nat]
  BY <1>1
<1>4. dueCalls \in [DOMAIN lists -> FnLists]
  BY <1>1, <1>2
<1>5. ASSUME NEW options \in SUBSET Options, lists = [n \in {"list"} |-> NewList(options, << >>)]
      PROVE  CallbacksInv
  <2>1. DOMAIN lists = {"list"}
    BY <1>5
  <2>2. PICK L : L = NewList(options, << >>)
    OBVIOUS
  <2>3. L \in CbList /\ RoundIs(L, << >>, FALSE) /\ L.list = << >> /\ L.firing = FALSE
    <3>1. Fresh(options, << >>, L)
      BY ONLY options \in SUBSET Options, <1>2, <2>2, NewListIs
    <3> QED
      BY <3>1 DEF Fresh
  <2>4. \A n \in DOMAIN lists : lists[n] = L
    BY <1>5, <2>2
  <2>5. lists \in [DOMAIN lists -> CbList]
    BY <1>5, <2>1, <2>2, <2>3
  <2>6. ListsOf(DOMAIN lists, lists, dueCalls, emptied)
    <3>1. \A n \in DOMAIN lists : RoundIs(lists[n], dueCalls[n], n \in emptied)
      <4>1. ASSUME NEW n \in DOMAIN lists PROVE RoundIs(lists[n], dueCalls[n], n \in emptied)
        <5>1. (n \in emptied) = FALSE /\ dueCalls[n] = << >> /\ lists[n] = L
          BY <1>1, <2>4
        <5> QED
          BY ONLY <2>3, <5>1
      <4> QED
        BY <4>1
    <3>2. \A n \in DOMAIN lists : lists[n].list \in Seq(Fns)
      BY <2>3, <2>4, NoneFns
    <3> QED
      BY <1>1, <1>4, <2>1, <2>5, <3>1, <3>2 DEF ListsOf, Names
  <2>7. FramesOf(DOMAIN lists, lists, callbackFrames)
    BY <1>1, <2>3, <2>4, NoFrames
  <2> QED
    BY <1>3, <2>1, <2>6, <2>7 DEF CallbacksInv, DeferredOf
<1>6. CASE lists = NewDeferred
  <2>1. DOMAIN lists = DeferredLists
    BY <1>6 DEF NewDeferred
  <2>2. PICK W, P : W = NewList({"once", "memory"}, OwnCallbacks) /\ P = NewList({"memory"}, << >>)
    OBVIOUS
  <2>3. {"once", "memory"} \in SUBSET Options /\ {"memory"} \in SUBSET Options
    BY DEF Options
  <2>4. /\ W \in CbList /\ RoundIs(W, << >>, FALSE)
        /\ W.options = {"once", "memory"} /\ W.list = OwnCallbacks /\ W.locked = TRUE
        /\ W.disabled = FALSE /\ W.fired = FALSE /\ W.firing = FALSE
        /\ W.data = NoFn /\ W.memory = NoFn
    <3>1. Fresh({"once", "memory"}, OwnCallbacks, W)
      BY ONLY <2>2, <2>3, OwnCounts, NewListIs
    <3> QED
      BY <3>1 DEF Fresh
  <2>5. /\ P \in CbList /\ RoundIs(P, << >>, FALSE)
        /\ P.options = {"memory"} /\ P.list = << >> /\ P.firing = FALSE
    <3>1. Fresh({"memory"}, << >>, P)
      BY ONLY <1>2, <2>2, <2>3, NewListIs
    <3> QED
      BY <3>1 DEF Fresh
  <2>6. /\ lists["progress"] = P /\ \A n \in Two : lists[n] = W
        /\ \A n \in DOMAIN lists : n \in Two \/ n = "progress"
        /\ Two \subseteq DOMAIN lists
    BY <1>6, <2>1, <2>2 DEF NewDeferred, DeferredLists, Two
  <2>7. lists \in [DOMAIN lists -> CbList]
    <3>1. \A n \in DOMAIN lists : lists[n] \in CbList
      BY <2>4, <2>5, <2>6
    <3>2. lists = [n \in DOMAIN lists |-> lists[n]]
      BY <1>6 DEF NewDeferred
    <3> QED
      BY <3>1, <3>2
  <2>8. ListsOf(DOMAIN lists, lists, dueCalls, emptied)
    <3>1. \A n \in DOMAIN lists : RoundIs(lists[n], dueCalls[n], n \in emptied)
      <4>1. ASSUME NEW n \in DOMAIN lists PROVE RoundIs(lists[n], dueCalls[n], n \in emptied)
        <5>1. (n \in emptied) = FALSE /\ dueCalls[n] = << >> /\ (lists[n] = W \/ lists[n] = P)
          BY <1>1, <2>6
        <5> QED
          BY ONLY <2>4, <2>5, <5>1
      <4> QED
        BY <4>1
    <3>2. \A n \in (DOMAIN lists) \ {"done", "fail"} : lists[n].list \in Seq(Fns)
      BY <2>5, <2>6, NoneFns DEF Two
    <3> QED
      BY <1>1, <1>4, <2>1, <2>7, <3>1, <3>2 DEF ListsOf, Names
  <2>9. FramesOf(DOMAIN lists, lists, callbackFrames)
    BY <1>1, <2>4, <2>5, <2>6, NoFrames
  <2>10. Kinds(lists)
    BY <2>4, <2>5, <2>6 DEF Kinds
  <2>11. \A n \in Two : Untouched(n, lists[n], owed)
    <3>1. \A n \in Two, f \in Fns : owed[<<n, f>>] = 0
      BY <1>1, <2>6
    <3> QED
      BY <2>4, <2>6, <3>1, OwnCounts DEF Untouched
  <2> QED
    BY <1>1, <1>3, <2>8, <2>9, <2>10, <2>11 DEF CallbacksInv, DeferredOf, Quiet
<1> QED
  BY <1>5, <1>6 DEF CallbacksInit

(* Every step keeps the invariant.                                          *)
LEMMA Stepped == ASSUME CallbacksInv, [CallbacksNext]_callbackVars PROVE CallbacksInv'
<1>1. ASSUME NEW n \in DOMAIN lists, NEW f \in Fns, CallAdd(n, f) PROVE CallbacksInv'
  BY <1>1, AddStep
<1>2. ASSUME NEW n \in DOMAIN lists, NEW value \in Values, CallFire(n, value) PROVE CallbacksInv'
  BY <1>2, FireStep
<1>3. ASSUME NEW n \in DOMAIN lists, n = "list", CallEmpty(n) PROVE CallbacksInv'
  BY <1>3, EmptyStep
<1>4. ASSUME NEW n \in DOMAIN lists, n = "list", CallDisable(n) PROVE CallbacksInv'
  BY <1>4, DisableStep
<1>5. ASSUME NEW n \in DOMAIN lists, n = "list", CallLock(n) PROVE CallbacksInv'
  BY <1>5, LockStep
<1>6. ASSUME NEW n \in DOMAIN lists, n = "list", NEW f \in Fns, CallRemove(n, f) PROVE CallbacksInv'
  BY <1>6, RemoveStep
<1>7. CASE CallsNext
  BY <1>7, NextStep
<1>8. CASE Returns
  BY <1>8, ReturnsStep
<1>9. CASE ReturnsFalse
  BY <1>9, ReturnsFalseStep
<1>10. CASE FireEnds
  BY <1>10, EndStep
<1>11. CASE UNCHANGED callbackVars
  BY <1>11 DEF callbackVars, CallbacksInv
<1> QED
  BY <1>1, <1>2, <1>3, <1>4, <1>5, <1>6, <1>7, <1>8, <1>9, <1>10, <1>11 DEF CallbacksNext

(* The invariant implies the property: with no list on the stack nothing is *)
(* due, so nothing is owed.                                                 *)
LEMMA InOrder == ASSUME CallbacksInv PROVE CallbacksInOrder
<1>1. EachDueOnce
  <2>1. ASSUME NEW n \in (DOMAIN lists) \ emptied
        PROVE  dueCalls[n] = IF ~ lists[n].firing \/ lists[n].disabled THEN << >>
                             ELSE SubSeq(lists[n].list, Place(lists[n]), lists[n].firingLength)
    <3>1. RoundIs(lists[n], dueCalls[n], n \in emptied)
      BY InvFacts
    <3> QED
      BY <3>1 DEF RoundIs
  <2> QED
    BY <2>1 DEF EachDueOnce, Place
<1>2. ASSUME "done" \in DOMAIN lists
      PROVE  /\ \A n \in {"done", "fail"} : lists[n].data \in {NoFn, settledWith}
             /\ ~ (lists["done"].fired /\ lists["fail"].fired)
             /\ callbackFrames = << >> /\ state # "pending" =>
                  LET n == IF state = "resolved" THEN "done" ELSE "fail"
                  IN  lists[n].fired /\ \A f \in Fns : owed[<<n, f>>] = 0
  <2>1. \/ Quiet(lists, dueCalls, owed, state, settledWith)
        \/ Opens(lists, callbackFrames, dueCalls, owed, state, settledWith)
    BY <1>2 DEF CallbacksInv, DeferredOf
  <2>2. CASE \A n \in Two : Untouched(n, lists[n], owed) /\ settledWith = NoFn /\ state = "pending"
    BY <2>2 DEF Untouched, Two
  <2>3. ASSUME NEW w \in Two, Winner(w, lists[w], lists[Other(w)], dueCalls[w], owed, settledWith)
        PROVE  /\ \A n \in {"done", "fail"} : lists[n].data \in {NoFn, settledWith}
               /\ ~ (lists["done"].fired /\ lists["fail"].fired)
    BY <2>3 DEF Winner, Two, Other
  <2>4. ASSUME NEW w \in Two,
               OpenedOf(w, lists[w], lists[Other(w)], dueCalls[w], owed, state, settledWith),
               callbackFrames = << >>, state # "pending"
        PROVE  LET n == IF state = "resolved" THEN "done" ELSE "fail"
               IN  lists[n].fired /\ \A f \in Fns : owed[<<n, f>>] = 0
    <3>1. w = IF state = "resolved" THEN "done" ELSE "fail"
      BY <2>4 DEF OpenedOf, OutcomeOf, Two
    <3>2. lists[w].fired /\ \A f \in Fns : owed[<<w, f>>] = Count(dueCalls[w], f)
      BY <2>4 DEF OpenedOf, Winner
    <3>3. w \in DOMAIN lists /\ w # "list"
      BY <1>2, NameFacts
    <3>4. ~ lists[w].firing
      <4>1. Len(<< >>) = 0 /\ 1 .. 0 = {}
        OBVIOUS
      <4> QED
        BY <2>4, <3>3, <4>1 DEF CallbacksInv, FramesOf
    <3>5. RoundIs(lists[w], dueCalls[w], FALSE)
      BY <3>3, InvFacts
    <3>6. dueCalls[w] = << >>
      BY <3>4, <3>5 DEF RoundIs
    <3>7. \A f \in Fns : owed[<<w, f>>] = 0
      BY <3>2, <3>6, CountNone
    <3> QED
      BY <3>1, <3>2, <3>7
  <2>5. CASE Opens(lists, callbackFrames, dueCalls, owed, state, settledWith)
    BY <2>3, <2>5 DEF Opens, OpeningOf
  <2>6. CASE \E w \in Two :
               OpenedOf(w, lists[w], lists[Other(w)], dueCalls[w], owed, state, settledWith)
    BY <2>3, <2>4, <2>6 DEF OpenedOf
  <2> QED
    BY <2>1, <2>2, <2>5, <2>6 DEF Quiet
<1>3. SettledOnce
  BY <1>2 DEF SettledOnce
<1> QED
  BY <1>1, <1>3 DEF CallbacksInOrder

(* CallbacksInOrder: a list that fires has exactly those callbacks before   *)
(* it that are due, whatever the callbacks that run add, remove, empty,     *)
(* disable, lock or fire; and a Deferred is settled once, with the          *)
(* callbacks of its outcome called as often as they were added. For any     *)
(* callbacks and any number of calls.                                       *)
THEOREM CallbacksInOrderHolds == CallbacksSpec => []CallbacksInOrder
<1>1. CallbacksInit => CallbacksInv
  BY Started
<1>2. CallbacksInv /\ [CallbacksNext]_callbackVars => CallbacksInv'
  BY Stepped
<1>3. CallbacksInv => CallbacksInOrder
  BY InOrder
<1> QED
  BY <1>1, <1>2, <1>3, PTL DEF CallbacksSpec

-----------------------------------------------------------------------------
(* Events. The records of handlers and their types.                         *)

Ids == 1 .. Cardinality(PageNodes)
Obj == [binding : Nat, type : Types, delegated : BOOLEAN]
ObjLists == Seq(Obj)
HandlerList == [objs : ObjLists, delegateCount : Nat]
EntryRec == [there : BOOLEAN, data : BOOLEAN, events : [Types -> HandlerList]]
Dom ==
  [attached : SUBSET PageElements, expando : [PageNodes -> Ids \cup {None}],
   cache : [Ids -> EntryRec], deletedIds : Seq(Ids), guid : Nat \ {0},
   listeners : SUBSET (PageNodes \X Types)]
EventFrame ==
  [kind : {"native", "trigger"}, type : Types, target : PageElements,
   path : Seq(PageNodes), queue : Seq(ObjLists), running : BOOLEAN, stopped : BOOLEAN,
   audience : SUBSET Nat]

(* The handlers of a node for a type, and whether o is one of them.         *)
Handlers(d, n, t) == Entry(d, n).events[t]
Has(d, n, t, o) == \E i \in DOMAIN Handlers(d, n, t).objs : Handlers(d, n, t).objs[i] = o

(* Entries and numbers: an entry has one node, a number that is not used is *)
(* in deletedIds, once.                                                     *)
EntriesOf(d) ==
  /\ d \in Dom
  /\ \A n, m \in PageNodes : n # m /\ d.expando[n] # None => d.expando[n] # d.expando[m]
  /\ \A id \in Ids : d.cache[id].there <=> \E n \in PageNodes : d.expando[n] = id
  /\ \A id \in Ids : id < d.guid <=>
       d.cache[id].there \/ \E i \in DOMAIN d.deletedIds : d.deletedIds[i] = id
  /\ \A i \in DOMAIN d.deletedIds : ~ d.cache[d.deletedIds[i]].there
  /\ \A i, j \in DOMAIN d.deletedIds : d.deletedIds[i] = d.deletedIds[j] => i = j

(* Delegates come first, and a list is of one type.                         *)
SortedList(h, t) ==
  /\ h \in HandlerList /\ h.delegateCount \in 0 .. Len(h.objs)
  /\ \A i \in DOMAIN h.objs :
       h.objs[i].type = t /\ (h.objs[i].delegated <=> i <= h.delegateCount)

(* A binding is in one place.                                               *)
HandlersOf(d) ==
  /\ \A n \in PageNodes, t \in Types : SortedList(Handlers(d, n, t), t)
  /\ \A n, m \in PageNodes, t, u \in Types, o, p \in Obj :
       Has(d, n, t, o) /\ Has(d, m, u, p) /\ o.binding = p.binding => n = m /\ t = u /\ o = p

(* One native listener where there are handlers.                            *)
ListenersOf(d) ==
  \A n \in PageNodes, t \in Types :
    <<n, t>> \in d.listeners <=> Handlers(d, n, t).objs # << >>

DomOf(d) == EntriesOf(d) /\ HandlersOf(d) /\ ListenersOf(d)

(* Who is still to be called is in the queue of the node that is visited,   *)
(* or bound to a node that is still to be visited.                          *)
Queued(q, b) == \E i \in DOMAIN q : \E j \in DOMAIN q[i] : q[i][j].binding = b
Coming(d, f, b) ==
  \E i \in DOMAIN f.path : \E o \in Obj :
    /\ Has(d, f.path[i], f.type, o) /\ o.binding = b
    /\ o.delegated => f.target # f.path[i]
StillHeard(d, f) ==
  ~ f.stopped => \A b \in f.audience : Queued(f.queue, b) \/ Coming(d, f, b)

EventsTypes == dom \in Dom /\ eventFrames \in Seq(EventFrame) /\ bindings \in Nat
BindingsCounted ==
  \A n \in PageNodes, t \in Types, o \in Obj : Has(dom, n, t, o) => o.binding <= bindings

EventsInv ==
  /\ EventsTypes /\ DomOf(dom) /\ BindingsCounted
  /\ \A i \in DOMAIN eventFrames : StillHeard(dom, eventFrames[i])

-----------------------------------------------------------------------------
(* The cache.                                                               *)

(* There are finitely many nodes, and as many numbers.                      *)
LEMMA NodesFinite == IsFiniteSet(PageNodes) /\ Cardinality(PageNodes) \in Nat
<1>1. IsFiniteSet(PageElements)
  BY EventsAssumption
<1>2. IsFiniteSet({"document", "box"})
  <2>1. IsFiniteSet({"document"}) /\ IsFiniteSet({"box"})
    BY FS_Singleton
  <2>2. {"document", "box"} = {"document"} \cup {"box"}
    OBVIOUS
  <2> QED
    BY <2>1, <2>2, FS_Union
<1>3. IsFiniteSet(PageNodes)
  BY <1>1, <1>2, FS_Union DEF PageNodes
<1> QED
  BY <1>3, FS_CardinalityType

(* While a node has no number, not all numbers are used.                    *)
LEMMA NumberLeft ==
  ASSUME NEW d \in Dom, NEW n \in PageNodes, d.expando[n] = None,
         \A id \in Ids : id < d.guid => \E m \in PageNodes : d.expando[m] = id
  PROVE  d.guid \in Ids
<1>1. PICK N \in Nat : N = Cardinality(PageNodes)
  BY NodesFinite
<1>2. d.guid \in Nat /\ d.guid >= 1
  BY DEF Dom
<1> SUFFICES ASSUME d.guid > N PROVE FALSE
  BY <1>1, <1>2 DEF Ids
<1>3. \A id \in 1 .. N : \E m \in PageNodes : d.expando[m] = id
  BY <1>1, <1>2 DEF Ids
<1> DEFINE f == [id \in 1 .. N |-> CHOOSE m \in PageNodes : d.expando[m] = id]
<1>4. \A id \in 1 .. N : f[id] \in PageNodes /\ d.expando[f[id]] = id
  BY <1>3
<1> DEFINE S == 1 .. N
           T == PageNodes \ {n}
<1>5. \A id \in S : f[id] \in T
  BY <1>4 DEF None
<1>6. f \in [S -> T]
  BY <1>5
<1>7. \A i, j \in S : f[i] = f[j] => i = j
  BY <1>4
<1> HIDE DEF f
<1>8. f \in Injection(S, T)
  BY <1>6, <1>7 DEF Injection, IsInjective
<1>9. IsFiniteSet(T) /\ Cardinality(T) = N - 1
  BY <1>1, NodesFinite, FS_RemoveElement
<1>10. IsFiniteSet(S) /\ Cardinality(S) <= Cardinality(T)
  BY <1>8, <1>9, FS_Injection
<1>11. Cardinality(S) = N
  BY <1>1, FS_Interval
<1> QED
  BY <1>1, <1>9, <1>10, <1>11

(* What the types of d's parts say of its fields.                           *)
LEMMA DomFields ==
  ASSUME NEW d \in Dom
  PROVE  /\ d.attached \subseteq PageElements
         /\ d.expando \in [PageNodes -> Ids \cup {None}]
         /\ d.cache \in [Ids -> EntryRec] /\ d.deletedIds \in Seq(Ids)
         /\ d.guid \in Nat \ {0} /\ d.listeners \subseteq PageNodes \X Types
BY DEF Dom

(* A node without an entry has no handlers.                                 *)
LEMMA EntryType ==
  ASSUME NEW d \in Dom, NEW n \in PageNodes
  PROVE  /\ Entry(d, n) \in EntryRec
         /\ \A t \in Types : Handlers(d, n, t) \in HandlerList
         /\ d.expando[n] # None => d.expando[n] \in Ids
<1>1. NoHandlers \in HandlerList
  BY DEF NoHandlers, HandlerList, ObjLists
<1>2. NoEntry \in EntryRec
  BY <1>1 DEF NoEntry, EntryRec
<1>3. d.expando[n] \in Ids \cup {None} /\ d.cache \in [Ids -> EntryRec]
  BY DomFields
<1>4. Entry(d, n) \in EntryRec
  BY <1>2, <1>3 DEF Entry
<1> QED
  BY <1>3, <1>4 DEF Handlers, EntryRec

(* NoEntry has no handlers.                                                 *)
LEMMA NoEntryFacts ==
  /\ NoEntry \in EntryRec /\ NoEntry.there = FALSE /\ NoEntry.data = FALSE
  /\ \A t \in Types : NoEntry.events[t] = NoHandlers
  /\ NoHandlers \in HandlerList /\ NoHandlers.objs = << >> /\ NoHandlers.delegateCount = 0
<1>1. NoHandlers \in HandlerList
  BY DEF NoHandlers, HandlerList, ObjLists
<1>2. NoEntry \in EntryRec
  BY <1>1 DEF NoEntry, EntryRec
<1> QED
  BY <1>1, <1>2 DEF NoEntry, NoHandlers

(* What stays the same.                                                     *)
SameHandlers(d, e) == \A n \in PageNodes, t \in Types : Handlers(e, n, t) = Handlers(d, n, t)
Fewer(d, e) ==
  \A n \in PageNodes, t \in Types :
    Handlers(e, n, t) = Handlers(d, n, t) \/ Handlers(e, n, t) = NoHandlers

(* The entry n, with handlers for t replaced.                               *)
WithHandlers(d, n, t, h) == [d EXCEPT !.cache[d.expando[n]].events[t] = h]

(* A record of Dom with other parts.                                        *)
LEMMA DomExcept ==
  ASSUME NEW d \in Dom
  PROVE  /\ \A x \in SUBSET PageElements : [d EXCEPT !.attached = x] \in Dom
         /\ \A x \in SUBSET (PageNodes \X Types) : [d EXCEPT !.listeners = x] \in Dom
         /\ \A x \in [Ids -> EntryRec] : [d EXCEPT !.cache = x] \in Dom
BY DEF Dom

(* Entries and handlers do not depend on attached or listeners.             *)
LEMMA OtherParts ==
  ASSUME NEW d, NEW e, EntriesOf(d), e \in Dom,
         e.expando = d.expando /\ e.cache = d.cache,
         e.deletedIds = d.deletedIds /\ e.guid = d.guid
  PROVE  EntriesOf(e) /\ SameHandlers(d, e)
<1>1. EntriesOf(e)
  BY DEF EntriesOf
<1>2. SameHandlers(d, e)
  BY DEF SameHandlers, Handlers, Entry
<1> QED
  BY <1>1, <1>2

(* One entry changes, but is there as before.                               *)
LEMMA EntryChanges ==
  ASSUME NEW d, EntriesOf(d), NEW n \in PageNodes, d.expando[n] # None,
         NEW x \in EntryRec, x.there = Entry(d, n).there,
         NEW e, e = [d EXCEPT !.cache = [d.cache EXCEPT ![d.expando[n]] = x]]
  PROVE  /\ EntriesOf(e) /\ Entry(e, n) = x
         /\ \A m \in PageNodes : m # n => Entry(e, m) = Entry(d, m)
         /\ e.listeners = d.listeners /\ e.attached = d.attached /\ e.expando = d.expando
<1>1. PICK f : f = [d.cache EXCEPT ![d.expando[n]] = x]
  OBVIOUS
<1>2. d \in Dom /\ d.cache \in [Ids -> EntryRec] /\ d.expando[n] \in Ids
  BY DomFields, EntryType DEF EntriesOf
<1>3. f \in [Ids -> EntryRec] /\ f[d.expando[n]] = x
  BY <1>1, <1>2
<1>4. \A id \in Ids : id # d.expando[n] => f[id] = d.cache[id]
  BY <1>1, <1>2
<1>5. \A id \in Ids : f[id].there = d.cache[id].there
  BY <1>2, <1>3, <1>4 DEF Entry
<1>6. e = [d EXCEPT !.cache = f]
  BY <1>1
<1>7. e \in Dom
  BY <1>2, <1>3, <1>6, DomExcept
<1>8. /\ e.cache = f /\ e.expando = d.expando /\ e.deletedIds = d.deletedIds
      /\ e.guid = d.guid /\ e.listeners = d.listeners /\ e.attached = d.attached
  BY <1>2, <1>6 DEF Dom
<1>9. \A i \in DOMAIN d.deletedIds : d.deletedIds[i] \in Ids
  BY <1>2, DomFields
<1>10. EntriesOf(e)
  BY <1>5, <1>7, <1>8, <1>9 DEF EntriesOf
<1>11. Entry(e, n) = x
  BY <1>3, <1>8 DEF Entry
<1>12. ASSUME NEW m \in PageNodes, m # n
       PROVE  Entry(e, m) = Entry(d, m)
  <2>1. CASE d.expando[m] = None
    BY <1>8, <2>1 DEF Entry
  <2>2. CASE d.expando[m] # None
    <3>1. d.expando[m] # d.expando[n] /\ d.expando[m] \in Ids
      BY <1>2, <1>12, <2>2, EntryType DEF EntriesOf
    <3> QED
      BY <1>4, <1>8, <2>2, <3>1 DEF Entry
  <2> QED
    BY <2>1, <2>2
<1> QED
  BY <1>8, <1>10, <1>11, <1>12

(* The handlers for one type are replaced.                                  *)
LEMMA HandlersReplaced ==
  ASSUME NEW d, EntriesOf(d), NEW n \in PageNodes, d.expando[n] # None,
         NEW t \in Types, NEW h \in HandlerList, NEW e, e = WithHandlers(d, n, t, h)
  PROVE  /\ EntriesOf(e) /\ Handlers(e, n, t) = h
         /\ \A m \in PageNodes, u \in Types :
              m # n \/ u # t => Handlers(e, m, u) = Handlers(d, m, u)
         /\ e.listeners = d.listeners /\ e.attached = d.attached /\ e.expando = d.expando
         /\ Entry(e, n).data = Entry(d, n).data
<1>1. d \in Dom /\ d.cache \in [Ids -> EntryRec] /\ d.expando[n] \in Ids
  BY DomFields, EntryType DEF EntriesOf
<1>2. PICK y \in EntryRec : y = d.cache[d.expando[n]] /\ y = Entry(d, n)
  BY <1>1 DEF Entry
<1>3. PICK x : x = [y EXCEPT !.events[t] = h]
  OBVIOUS
<1>4. y.events \in [Types -> HandlerList] /\ y.there \in BOOLEAN /\ y.data \in BOOLEAN
  BY DEF EntryRec
<1>5. /\ x \in EntryRec /\ x.there = y.there /\ x.data = y.data
      /\ x.events = [y.events EXCEPT ![t] = h]
  BY <1>3, <1>4 DEF EntryRec
<1>6. e = [d EXCEPT !.cache = [d.cache EXCEPT ![d.expando[n]] = x]]
  BY <1>1, <1>2, <1>3 DEF WithHandlers, Dom
<1>7. /\ EntriesOf(e) /\ Entry(e, n) = x
      /\ \A m \in PageNodes : m # n => Entry(e, m) = Entry(d, m)
      /\ e.listeners = d.listeners /\ e.attached = d.attached /\ e.expando = d.expando
  BY <1>2, <1>5, <1>6, EntryChanges
<1> QED
  BY <1>2, <1>4, <1>5, <1>7 DEF Handlers

(* internalData: a node without an entry gets an empty one.                 *)
LEMMA InternalDataFacts ==
  ASSUME NEW d, EntriesOf(d), NEW n \in PageNodes, NEW e, e = internalData(d, n)
  PROVE  /\ EntriesOf(e) /\ SameHandlers(d, e) /\ e.expando[n] # None
         /\ e.listeners = d.listeners /\ e.attached = d.attached
         /\ Entry(e, n).data = Entry(d, n).data
<1> USE DEF EntriesOf
<1>1. CASE d.expando[n] # None
  BY <1>1 DEF internalData, SameHandlers
<1>2. CASE d.expando[n] = None
  <2>1. /\ d \in Dom /\ d.cache \in [Ids -> EntryRec] /\ d.deletedIds \in Seq(Ids)
        /\ d.guid \in Nat \ {0} /\ d.expando \in [PageNodes -> Ids \cup {None}]
    BY DomFields
  <2>2. PICK reuse \in BOOLEAN : reuse = (d.deletedIds # << >>)
    OBVIOUS
  <2>0. PICK k \in Nat : /\ k = Len(d.deletedIds) /\ DOMAIN d.deletedIds = 1 .. k
                         /\ reuse => k >= 1 /\ k \in DOMAIN d.deletedIds
                         /\ ~ reuse => DOMAIN d.deletedIds = {}
    <3>1. PICK dels \in Seq(Ids) : dels = d.deletedIds
      BY <2>1
    <3>2. Len(dels) \in Nat /\ DOMAIN dels = 1 .. Len(dels) /\ (dels # << >> => Len(dels) >= 1)
      OBVIOUS
    <3>3. dels = << >> => Len(dels) = 0
      OBVIOUS
    <3>4. PICK k \in Nat : k = Len(dels) /\ DOMAIN dels = 1 .. k
      BY <3>2
    <3>5. (reuse => k >= 1) /\ (~ reuse => k = 0)
      BY <2>2, <3>1, <3>2, <3>3, <3>4
    <3>6. (reuse => k \in 1 .. k) /\ (~ reuse => 1 .. k = {})
      BY <3>5
    <3> QED
      BY <3>1, <3>4, <3>5, <3>6
  <2>3. PICK id : id = IF reuse THEN Last(d.deletedIds) ELSE d.guid
    OBVIOUS
  <2>4. id \in Ids /\ ~ d.cache[id].there
    <3>1. CASE reuse
      <4>1. k \in DOMAIN d.deletedIds /\ id = d.deletedIds[k]
        BY <2>0, <2>3, <3>1 DEF Last
      <4>2. \A i \in DOMAIN d.deletedIds : d.deletedIds[i] \in Ids
        BY <2>1
      <4> QED
        BY <4>1, <4>2
    <3>2. CASE ~ reuse
      <4>1. DOMAIN d.deletedIds = {}
        BY <2>0, <3>2
      <4>2. \A i \in Ids : i < d.guid => \E m \in PageNodes : d.expando[m] = i
        BY <4>1
      <4>3. d.guid \in Ids
        BY <1>2, <2>1, <4>2, NumberLeft
      <4>4. ~ d.guid < d.guid
        BY <2>1
      <4> QED
        BY <2>3, <3>2, <4>3, <4>4
    <3> QED
      BY <3>1, <3>2
  <2>5. PICK x \in EntryRec : x = [NoEntry EXCEPT !.there = TRUE]
    BY NoEntryFacts DEF EntryRec
  <2>6. x.there = TRUE /\ x.data = FALSE /\ x.events = NoEntry.events
    BY <2>5, NoEntryFacts DEF EntryRec
  <2>7. PICK g : g = IF reuse THEN d.guid ELSE d.guid + 1
    OBVIOUS
  <2>8. PICK q : q = IF reuse THEN Front(d.deletedIds) ELSE d.deletedIds
    OBVIOUS
  <2>9. e = [d EXCEPT !.expando = [d.expando EXCEPT ![n] = id], !.cache = [d.cache EXCEPT ![id] = x],
                      !.deletedIds = q, !.guid = g]
    BY <1>2, <2>1, <2>2, <2>3, <2>5, <2>7, <2>8 DEF internalData, Dom
  <2>10. PICK ex, ca : ex = [d.expando EXCEPT ![n] = id] /\ ca = [d.cache EXCEPT ![id] = x]
    OBVIOUS
  <2>11. /\ e.expando = ex /\ e.cache = ca /\ e.deletedIds = q /\ e.guid = g
         /\ e.listeners = d.listeners /\ e.attached = d.attached
    BY <2>1, <2>9, <2>10 DEF Dom
  <2>12. /\ ex \in [PageNodes -> Ids \cup {None}] /\ ex[n] = id
         /\ \A m \in PageNodes : m # n => ex[m] = d.expando[m]
    BY <2>1, <2>4, <2>10
  <2>13. /\ ca \in [Ids -> EntryRec] /\ ca[id] = x
         /\ \A i \in Ids : i # id => ca[i] = d.cache[i]
    BY <2>1, <2>4, <2>10
  <2>14. /\ q \in Seq(Ids) /\ DOMAIN q \subseteq DOMAIN d.deletedIds
         /\ \A i \in DOMAIN q : q[i] = d.deletedIds[i]
         /\ \A i \in DOMAIN d.deletedIds : i \in DOMAIN q \/ (reuse /\ d.deletedIds[i] = id)
         /\ reuse => \E i \in DOMAIN d.deletedIds : i \notin DOMAIN q /\ d.deletedIds[i] = id
    <3>1. CASE reuse
      <4>1. k = Len(d.deletedIds) /\ k >= 1 /\ k \in Nat
        BY <2>0, <3>1
      <4>2. q = SubSeq(d.deletedIds, 1, k - 1) /\ id = d.deletedIds[k]
        BY <2>3, <2>8, <3>1, <4>1 DEF Front, Last
      <4>3. /\ q \in Seq(Ids) /\ DOMAIN q = 1 .. k - 1 /\ DOMAIN d.deletedIds = 1 .. k
            /\ \A i \in 1 .. k - 1 : q[i] = d.deletedIds[i]
        BY <2>1, <4>1, <4>2
      <4> QED
        BY <3>1, <4>1, <4>2, <4>3
    <3>2. CASE ~ reuse
      BY <2>1, <2>8, <3>2
    <3> QED
      BY <3>1, <3>2
  <2>15. g \in Nat \ {0}
    BY <2>1, <2>7
  <2>16. e \in Dom
    <3>1. [d EXCEPT !.expando = ex] \in Dom
      BY <2>1, <2>12 DEF Dom
    <3>2. PICK a \in Dom : a = [d EXCEPT !.expando = ex]
      BY <3>1
    <3>3. PICK b \in Dom : b = [a EXCEPT !.cache = ca]
      BY <2>13, DomExcept
    <3>4. PICK c \in Dom : c = [b EXCEPT !.deletedIds = q]
      BY <2>14 DEF Dom
    <3>5. [c EXCEPT !.guid = g] \in Dom
      BY <2>15 DEF Dom
    <3>6. e = [c EXCEPT !.guid = g]
      BY <2>9, <2>10, <3>2, <3>3, <3>4 DEF Dom
    <3> QED
      BY <3>5, <3>6
  <2>17. \A m \in PageNodes : m # n => ex[m] # id
    BY <2>4, <2>12 DEF None
  <2>18. id # None
    BY <2>4 DEF None, Ids
  <2>19. \A m, l \in PageNodes : m # l /\ ex[m] # None => ex[m] # ex[l]
    BY <2>12, <2>17
  <2>20. \A i \in Ids : ca[i].there <=> \E m \in PageNodes : ex[m] = i
    <3>1. ASSUME NEW i \in Ids, i # id
          PROVE  (\E m \in PageNodes : ex[m] = i) <=> (\E m \in PageNodes : d.expando[m] = i)
      <4>1. i # None
        BY DEF None, Ids
      <4> QED
        BY <1>2, <2>12, <3>1, <4>1
    <3> QED
      BY <2>6, <2>12, <2>13, <3>1
  <2>21. \A i \in DOMAIN q : q[i] # id
    <3>1. CASE reuse
      BY <2>14, <3>1
    <3>2. CASE ~ reuse
      <4>1. DOMAIN d.deletedIds = {}
        BY <2>0, <3>2
      <4> QED
        BY <2>14, <4>1
    <3> QED
      BY <3>1, <3>2
  <2>22. \A i \in Ids : i < g <=> ca[i].there \/ \E j \in DOMAIN q : q[j] = i
    <3>1. ASSUME NEW i \in Ids, i # id
          PROVE  i < g <=> ca[i].there \/ \E j \in DOMAIN q : q[j] = i
      <4>1. (\E j \in DOMAIN q : q[j] = i) <=> \E j \in DOMAIN d.deletedIds : d.deletedIds[j] = i
        BY <2>14, <3>1
      <4>2. i < g <=> i < d.guid
        <5>1. i \in Nat
          BY DEF Ids
        <5> QED
          BY <2>1, <2>3, <2>7, <3>1, <5>1
      <4> QED
        BY <2>13, <3>1, <4>1, <4>2
    <3>2. id < g
      <4>1. CASE reuse
        BY <2>4, <2>7, <2>14, <4>1
      <4>2. CASE ~ reuse
        BY <2>1, <2>3, <2>7, <4>2
      <4> QED
        BY <4>1, <4>2
    <3> QED
      BY <2>4, <2>6, <2>13, <3>1, <3>2
  <2>23. \A i \in DOMAIN q : ~ ca[q[i]].there
    <3>1. \A i \in DOMAIN q : q[i] \in Ids
      BY <2>14
    <3> QED
      BY <2>13, <2>14, <2>21, <3>1
  <2>24. \A i, j \in DOMAIN q : q[i] = q[j] => i = j
    BY <2>14
  <2>25. EntriesOf(e)
    BY <2>11, <2>16, <2>19, <2>20, <2>22, <2>23, <2>24
  <2>26. Entry(e, n) = x
    BY <2>11, <2>12, <2>13, <2>18 DEF Entry
  <2>27. ASSUME NEW m \in PageNodes, m # n
         PROVE  Entry(e, m) = Entry(d, m)
    <3>1. CASE ex[m] = None
      BY <2>11, <2>12, <2>27, <3>1 DEF Entry
    <3>2. CASE ex[m] # None
      <4>1. ex[m] = d.expando[m] /\ ex[m] # id /\ ex[m] \in Ids
        BY <2>12, <2>17, <2>27, <3>2
      <4> QED
        BY <2>11, <2>13, <3>2, <4>1 DEF Entry
    <3> QED
      BY <3>1, <3>2
  <2>28. Entry(d, n) = NoEntry
    BY <1>2 DEF Entry
  <2>29. SameHandlers(d, e)
    BY <2>6, <2>26, <2>27, <2>28 DEF SameHandlers, Handlers
  <2> QED
    BY <2>6, <2>11, <2>12, <2>18, <2>25, <2>26, <2>28, <2>29, NoEntryFacts
<1> QED
  BY <1>1, <1>2

(* An entry that goes leaves its node without handlers, and its number free.*)
LEMMA DestroyFacts ==
  ASSUME NEW d, EntriesOf(d), NEW n \in PageNodes, NEW e, e = Destroy(d, n)
  PROVE  /\ EntriesOf(e) /\ \A t \in Types : Handlers(e, n, t) = NoHandlers
         /\ \A m \in PageNodes, t \in Types : m # n => Handlers(e, m, t) = Handlers(d, m, t)
         /\ e.listeners = d.listeners /\ e.attached = d.attached /\ e.expando[n] = None
<1> USE DEF EntriesOf
<1>1. CASE d.expando[n] = None
  BY <1>1, NoEntryFacts DEF Destroy, Handlers, Entry
<1>2. CASE d.expando[n] # None
  <2>1. /\ d \in Dom /\ d.cache \in [Ids -> EntryRec] /\ d.deletedIds \in Seq(Ids)
        /\ d.guid \in Nat \ {0} /\ d.expando \in [PageNodes -> Ids \cup {None}]
    BY DomFields
  <2>2. PICK id \in Ids : id = d.expando[n]
    BY <1>2, <2>1
  <2>3. d.cache[id].there /\ id # None
    BY <1>2, <2>2
  <2>4. PICK ex, ca, q : /\ ex = [d.expando EXCEPT ![n] = None]
                         /\ ca = [d.cache EXCEPT ![id] = NoEntry]
                         /\ q = Append(d.deletedIds, id)
    OBVIOUS
  <2>5. e = [d EXCEPT !.expando = ex, !.cache = ca, !.deletedIds = q]
    BY <2>1, <2>2, <2>3, <2>4 DEF Destroy, Dom
  <2>6. /\ e.expando = ex /\ e.cache = ca /\ e.deletedIds = q /\ e.guid = d.guid
        /\ e.listeners = d.listeners /\ e.attached = d.attached
    BY <2>1, <2>5 DEF Dom
  <2>7. /\ ex \in [PageNodes -> Ids \cup {None}] /\ ex[n] = None
        /\ \A m \in PageNodes : m # n => ex[m] = d.expando[m]
    BY <2>1, <2>4
  <2>8. /\ ca \in [Ids -> EntryRec] /\ ca[id] = NoEntry
        /\ \A i \in Ids : i # id => ca[i] = d.cache[i]
    BY <2>1, <2>4, NoEntryFacts
  <2>9. PICK k \in Nat : k = Len(d.deletedIds) /\ DOMAIN d.deletedIds = 1 .. k
    BY <2>1
  <2>10. /\ q \in Seq(Ids) /\ DOMAIN q = 1 .. k + 1 /\ q[k + 1] = id
         /\ \A i \in 1 .. k : q[i] = d.deletedIds[i] /\ q[i] \in Ids
    BY <2>1, <2>4, <2>9
  <2>11. \A i \in 1 .. k + 1 : i \in 1 .. k \/ i = k + 1
    OBVIOUS
  <2>12. e \in Dom
    <3>1. PICK a \in Dom : a = [d EXCEPT !.expando = ex]
      BY <2>1, <2>7 DEF Dom
    <3>2. PICK b \in Dom : b = [a EXCEPT !.cache = ca]
      BY <2>8, DomExcept
    <3>3. [b EXCEPT !.deletedIds = q] \in Dom
      BY <2>10 DEF Dom
    <3>4. e = [b EXCEPT !.deletedIds = q]
      BY <2>5, <3>1, <3>2 DEF Dom
    <3> QED
      BY <3>3, <3>4
  <2>13. \A m, l \in PageNodes : m # l /\ ex[m] # None => ex[m] # ex[l]
    BY <2>7
  <2>14. \A i \in Ids : ca[i].there <=> \E m \in PageNodes : ex[m] = i
    <3>1. ASSUME NEW i \in Ids, i # id
          PROVE  (\E m \in PageNodes : ex[m] = i) <=> (\E m \in PageNodes : d.expando[m] = i)
      <4>1. i # None
        BY DEF None, Ids
      <4> QED
        BY <2>2, <2>7, <3>1, <4>1
    <3>2. \A m \in PageNodes : ex[m] # id
      BY <2>2, <2>3, <2>7
    <3> QED
      BY <2>8, <3>1, <3>2, NoEntryFacts
  <2>15. \A i \in 1 .. k : q[i] # id
    BY <2>3, <2>9, <2>10
  <2>16. \A i \in Ids : i < e.guid <=> ca[i].there \/ \E j \in DOMAIN q : q[j] = i
    <3>1. ASSUME NEW i \in Ids, i # id
          PROVE  (\E j \in DOMAIN q : q[j] = i) <=> \E j \in DOMAIN d.deletedIds : d.deletedIds[j] = i
      <4>1. \A j \in 1 .. k : j \in 1 .. k + 1
        OBVIOUS
      <4> QED
        BY <2>9, <2>10, <2>11, <3>1, <4>1
    <3>2. id < e.guid /\ \E j \in DOMAIN q : q[j] = id
      <4>1. k + 1 \in DOMAIN q
        BY <2>10
      <4> QED
        BY <2>3, <2>6, <2>10, <4>1
    <3> QED
      BY <2>6, <2>8, <3>1, <3>2
  <2>17. \A i \in DOMAIN q : ~ ca[q[i]].there
    BY <2>8, <2>9, <2>10, <2>11, <2>15, NoEntryFacts
  <2>18. \A i, j \in DOMAIN q : q[i] = q[j] => i = j
    BY <2>9, <2>10, <2>11, <2>15
  <2>19. EntriesOf(e)
    BY <2>6, <2>12, <2>13, <2>14, <2>16, <2>17, <2>18
  <2>20. Entry(e, n) = NoEntry
    BY <2>6, <2>7 DEF Entry
  <2>21. ASSUME NEW m \in PageNodes, m # n
         PROVE  Entry(e, m) = Entry(d, m)
    <3>1. CASE ex[m] = None
      BY <2>6, <2>7, <2>21, <3>1 DEF Entry
    <3>2. CASE ex[m] # None
      <4>1. ex[m] = d.expando[m] /\ ex[m] # id /\ ex[m] \in Ids
        BY <1>2, <2>2, <2>7, <2>21, <3>2
      <4> QED
        BY <2>6, <2>8, <3>2, <4>1 DEF Entry
    <3> QED
      BY <3>1, <3>2
  <2> QED
    BY <2>6, <2>7, <2>19, <2>20, <2>21, NoEntryFacts DEF Handlers
<1> QED
  BY <1>1, <1>2

-----------------------------------------------------------------------------
(* Handlers that go.                                                        *)

(* Fewer handlers: no binding is new, and none moves.                       *)
NoneNew(d, e) ==
  \A n \in PageNodes, t \in Types, o \in Obj : Has(e, n, t, o) => Has(d, n, t, o)

(* Lists that are as before or empty are sorted, and have no new binding.   *)
LEMMA FewerFacts ==
  ASSUME NEW d, NEW e, HandlersOf(d), Fewer(d, e)
  PROVE  HandlersOf(e) /\ NoneNew(d, e)
<1>1. \A t \in Types : SortedList(NoHandlers, t)
  <2>1. NoHandlers \in HandlerList /\ NoHandlers.delegateCount = 0 /\ NoHandlers.objs = << >>
    BY NoEntryFacts
  <2>2. Len(<< >>) = 0 /\ DOMAIN << >> = {}
    OBVIOUS
  <2> QED
    BY <2>1, <2>2 DEF SortedList
<1>2. \A n \in PageNodes, t \in Types : SortedList(Handlers(e, n, t), t)
  BY <1>1 DEF HandlersOf, Fewer
<1>3. ASSUME NEW n \in PageNodes, NEW t \in Types, NEW o \in Obj, Has(e, n, t, o)
      PROVE  Has(d, n, t, o)
  <2>1. CASE Handlers(e, n, t) = Handlers(d, n, t)
    BY <1>3, <2>1 DEF Has
  <2>2. CASE Handlers(e, n, t) = NoHandlers
    <3>1. DOMAIN NoHandlers.objs = {}
      BY NoEntryFacts
    <3> QED
      BY <1>3, <2>2, <3>1 DEF Has
  <2> QED
    BY <2>1, <2>2 DEF Fewer
<1>4. NoneNew(d, e)
  BY <1>3 DEF NoneNew
<1>5. \A n, m \in PageNodes, t, u \in Types, o, p \in Obj :
        Has(e, n, t, o) /\ Has(e, m, u, p) /\ o.binding = p.binding => n = m /\ t = u /\ o = p
  BY <1>3 DEF HandlersOf
<1> QED
  BY <1>2, <1>4, <1>5 DEF HandlersOf

(* What is said of handlers holds where the handlers are the same.          *)
LEMMA SameFacts ==
  ASSUME NEW d, NEW e, SameHandlers(d, e)
  PROVE  /\ Fewer(d, e)
         /\ \A n \in PageNodes, t \in Types, o \in Obj : Has(d, n, t, o) => Has(e, n, t, o)
         /\ ListenersOf(d) /\ e.listeners = d.listeners => ListenersOf(e)
BY DEF SameHandlers, Fewer, Has, ListenersOf

(* Where a list has delegates.                                              *)
Delegates(q) == {i \in DOMAIN q : q[i].delegated}

(* No element that is not in q.                                             *)
Within(left, q) == \A i \in DOMAIN left : \E j \in DOMAIN q : q[j] = left[i]

(* A list is one of any set that has its elements.                          *)
LEMMA ListOf ==
  ASSUME NEW S, NEW T, NEW q \in Seq(S), \A i \in DOMAIN q : q[i] \in T
  PROVE  q \in Seq(T)
OBVIOUS

(* A list is what comes up to k, p, and what comes behind it, r.            *)
SplitInto(q, k, p, r) ==
  /\ p = SubSeq(q, 1, k) /\ r = SubSeq(q, k + 1, Len(q)) /\ q = p \o r
  /\ Len(p) = k /\ Len(r) = Len(q) - k /\ Len(q) \in Nat /\ k \in Nat
  /\ \A i \in 1 .. k : p[i] = q[i]
  /\ \A i \in 1 .. Len(q) - k : r[i] = q[k + i]

(* Every list splits, at any place.                                         *)
LEMMA SplitList ==
  ASSUME NEW S, NEW q \in Seq(S), NEW k \in 0 .. Len(q)
  PROVE  \E p, r \in Seq(S) : SplitInto(q, k, p, r)
<1>1. PICK p \in Seq(S), r \in Seq(S) : p = SubSeq(q, 1, k) /\ r = SubSeq(q, k + 1, Len(q))
  <2>1. SubSeq(q, 1, k) \in Seq(S)
    OBVIOUS
  <2>2. SubSeq(q, k + 1, Len(q)) \in Seq(S)
    OBVIOUS
  <2> QED
    BY <2>1, <2>2
<1>2. /\ Len(p) = k /\ Len(r) = Len(q) - k /\ Len(q) \in Nat /\ k \in Nat
      /\ \A i \in 1 .. k : p[i] = q[i]
  BY <1>1
<1>3. \A i \in 1 .. Len(q) - k : r[i] = q[k + i]
  <2> TAKE i \in 1 .. Len(q) - k
  <2>1. i \in 1 .. Len(r) /\ (k + 1) + i - 1 = k + i
    BY <1>2
  <2>2. r[i] = q[(k + 1) + i - 1]
    BY <1>1, <1>2, <2>1
  <2> QED
    BY <2>1, <2>2
<1>4. q = p \o r
  <2>1. Len(p \o r) = Len(q) /\ p \o r \in Seq(S)
    BY <1>2
  <2>2. ASSUME NEW i \in 1 .. Len(q)
        PROVE  (p \o r)[i] = q[i]
    <3>1. CASE i <= k
      <4>1. (p \o r)[i] = p[i] /\ i \in 1 .. k
        BY <1>2, <3>1
      <4> QED
        BY <1>2, <4>1
    <3>2. CASE ~ i <= k
      <4>1. i - k \in 1 .. Len(q) - k /\ k + (i - k) = i
        BY <1>2, <3>2
      <4>2. (p \o r)[i] = r[i - k]
        BY <1>2, <3>2
      <4> QED
        BY <1>3, <4>1, <4>2
    <3> QED
      BY <3>1, <3>2
  <2> QED
    BY <2>1, <2>2, SeqEqual
<1>5. SplitInto(q, k, p, r)
  BY <1>1, <1>2, <1>3, <1>4 DEF SplitInto
<1> QED
  BY <1>5

(* A sorted list without some of its handlers is sorted; the new count of   *)
(* delegates is how many of them are left.                                  *)
LEMMA SortedWithout ==
  ASSUME NEW t \in Types, NEW h, SortedList(h, t), NEW gone,
         NEW left, left = Without(h.objs, gone),
         NEW k, k = Cardinality(Delegates(left))
  PROVE  /\ SortedList([objs |-> left, delegateCount |-> k], t)
         /\ Within(left, h.objs)
<1>1. PICK q \in ObjLists : q = h.objs
  BY DEF SortedList, HandlerList
<1>2. PICK c \in Nat : c = h.delegateCount /\ c \in 0 .. Len(q)
  BY <1>1 DEF SortedList
<1>3. \A i \in DOMAIN q : q[i].type = t /\ (q[i].delegated <=> i <= c)
  BY <1>1, <1>2 DEF SortedList
<1>4. Len(q) \in Nat /\ DOMAIN q = 1 .. Len(q)
  BY DEF ObjLists
<1> DEFINE P == {o \in Obj : (\E i \in DOMAIN q : q[i] = o) /\ o.type = t /\ o.delegated}
           O == {o \in Obj : (\E i \in DOMAIN q : q[i] = o) /\ o.type = t /\ ~ o.delegated}
<1> HIDE DEF P, O
<1>5. q \in Seq(Obj) /\ c \in 0 .. Len(q)
  BY <1>2 DEF ObjLists
<1>6. PICK a \in Seq(Obj), b \in Seq(Obj) :
        /\ q = a \o b /\ Len(a) = c /\ Len(b) = Len(q) - c
        /\ \A i \in 1 .. c : a[i] = q[i]
        /\ \A i \in 1 .. Len(q) - c : b[i] = q[c + i]
  <2>1. PICK a \in Seq(Obj), b \in Seq(Obj) : SplitInto(q, c, a, b)
    BY <1>5, SplitList
  <2> QED
    BY <2>1 DEF SplitInto
<1>7. \A i \in 1 .. c : a[i] \in P
  <2> TAKE i \in 1 .. c
  <2>1. i \in DOMAIN q /\ i <= c
    BY <1>2, <1>4
  <2>2. q[i] \in Obj
    BY <2>1 DEF ObjLists
  <2>3. a[i] = q[i] /\ q[i].type = t /\ q[i].delegated
    BY <1>3, <1>6, <2>1
  <2> QED
    BY ONLY <2>1, <2>2, <2>3 DEF P
<1>8. \A i \in 1 .. Len(q) - c : b[i] \in O
  <2> TAKE i \in 1 .. Len(q) - c
  <2>1. c + i \in DOMAIN q /\ ~ (c + i <= c)
    BY <1>2, <1>4
  <2>2. q[c + i] \in Obj
    BY <2>1 DEF ObjLists
  <2>3. b[i] = q[c + i]
    BY <1>6
  <2>4. q[c + i].type = t /\ ~ q[c + i].delegated
    BY <1>3, <2>1
  <2> QED
    BY ONLY <2>1, <2>2, <2>3, <2>4 DEF O
<1>9. a \in Seq(P) /\ b \in Seq(O)
  <2>1. a \in Seq(P)
    <3>1. \A i \in DOMAIN a : a[i] \in P
      BY <1>6, <1>7
    <3> QED
      BY <3>1, ListOf
  <2>2. b \in Seq(O)
    <3>1. \A i \in DOMAIN b : b[i] \in O
      BY <1>6, <1>8
    <3> QED
      BY <3>1, ListOf
  <2> QED
    BY <2>1, <2>2
<1>10. PICK v \in Seq(P), w \in Seq(O) : v = Without(a, gone) /\ w = Without(b, gone)
  BY <1>9, WithoutType
<1>11. Without(a \o b, gone) = v \o w
  <2>1. SplitsAt(a, b, gone)
    BY <1>6, WithoutConcat
  <2> QED
    BY <1>10, <2>1 DEF SplitsAt
<1>12. left = v \o w
  BY <1>1, <1>6, <1>11
<1>13. PICK m \in Nat, n \in Nat :
         /\ m = Len(v) /\ n = Len(w) /\ DOMAIN v = 1 .. m /\ DOMAIN w = 1 .. n
         /\ \A i \in 1 .. m : v[i] \in P
         /\ \A i \in 1 .. n : w[i] \in O
  OBVIOUS
<1>14. v \in Seq(P \cup O) /\ w \in Seq(P \cup O)
  <2>1. \A i \in 1 .. m : v[i] \in P \cup O
    BY <1>13
  <2>2. \A i \in 1 .. n : w[i] \in P \cup O
    BY <1>13
  <2> QED
    BY <1>13, <2>1, <2>2
<1>15. /\ left \in Seq(P \cup O) /\ Len(left) = m + n /\ DOMAIN left = 1 .. m + n
       /\ \A i \in 1 .. m : left[i] = v[i]
       /\ \A i \in 1 .. m + n : i > m => left[i] = w[i - m]
  BY <1>12, <1>13, <1>14
<1>16. \A i \in 1 .. m + n : (i <= m => left[i] \in P) /\ (i > m => left[i] \in O)
  <2> TAKE i \in 1 .. m + n
  <2>1. CASE i <= m
    BY <1>13, <1>15, <2>1
  <2>2. CASE i > m
    <3>1. i - m \in 1 .. n
      BY <2>2
    <3> QED
      BY <1>13, <1>15, <2>2, <3>1
  <2> QED
    BY <2>1, <2>2
<1>17. \A i \in 1 .. m + n :
         /\ left[i] \in Obj /\ left[i].type = t /\ (left[i].delegated <=> i <= m)
         /\ \E j \in DOMAIN q : q[j] = left[i]
  BY <1>16 DEF P, O
<1>18. Delegates(left) = 1 .. m
  BY <1>15, <1>17 DEF Delegates
<1>19. k = m
  <2>1. Cardinality(1 .. m) = m
    BY FS_Interval
  <2> QED
    BY <1>18, <2>1
<1>20. left \in ObjLists
  BY <1>15, <1>17, ListOf DEF ObjLists
<1>21. [objs |-> left, delegateCount |-> k] \in HandlerList
  BY <1>19, <1>20 DEF HandlerList
<1>22. SortedList([objs |-> left, delegateCount |-> k], t)
  <2>1. PICK g : g = [objs |-> left, delegateCount |-> k]
    OBVIOUS
  <2>2. g \in HandlerList /\ g.objs = left /\ g.delegateCount = m
    BY <1>19, <1>21, <2>1
  <2>3. m \in 0 .. Len(left)
    BY <1>15
  <2>4. SortedList(g, t)
    BY <1>15, <1>17, <2>2, <2>3 DEF SortedList
  <2> QED
    BY <2>1, <2>4
<1> QED
  BY <1>1, <1>15, <1>17, <1>22 DEF Within

(* What a step may do to the records: they stay in order, and no handler is *)
(* new.                                                                     *)
Keeping(d, e) == DomOf(e) /\ NoneNew(d, e) /\ e.attached = d.attached

(* removeEvents: the last handlers of a node are gone already.              *)
LEMMA RemoveEventsFacts ==
  ASSUME NEW d, DomOf(d), NEW n \in PageNodes, ~ HasEvents(d, n)
  PROVE  Keeping(d, removeEvents(d, n))
<1>1. PICK e : e = removeEvents(d, n)
  OBVIOUS
<1>2. EntriesOf(d) /\ HandlersOf(d) /\ ListenersOf(d)
  BY DEF DomOf
<1>3. CASE e = d
  <2>1. SameHandlers(d, e)
    BY <1>3 DEF SameHandlers
  <2> QED
    BY <1>1, <1>2, <1>3, <2>1, SameFacts, FewerFacts DEF Keeping, DomOf
<1>4. CASE e = Destroy(d, n)
  <2>1. /\ EntriesOf(e) /\ \A t \in Types : Handlers(e, n, t) = NoHandlers
        /\ \A m \in PageNodes, t \in Types : m # n => Handlers(e, m, t) = Handlers(d, m, t)
        /\ e.listeners = d.listeners /\ e.attached = d.attached
    BY <1>2, <1>4, DestroyFacts
  <2>2. HandlersOf(e) /\ NoneNew(d, e)
    <3>1. Fewer(d, e)
      BY <2>1 DEF Fewer
    <3> QED
      BY <1>2, <3>1, FewerFacts
  <2>3. ListenersOf(e)
    BY <1>2, <2>1, NoEntryFacts DEF ListenersOf, HasEvents, Handlers
  <2> QED
    BY <1>1, <2>1, <2>2, <2>3 DEF Keeping, DomOf
<1> QED
  BY <1>1, <1>3, <1>4 DEF removeEvents

(* No handler is new in two steps if none is in each.                       *)
LEMMA KeepingTwice ==
  ASSUME NEW d, NEW e, NEW f, Keeping(d, e), Keeping(e, f)
  PROVE  Keeping(d, f)
BY DEF Keeping, NoneNew

(* remove.                                                                  *)
LEMMA RemoveFacts ==
  ASSUME NEW d, DomOf(d), NEW n \in PageNodes, NEW t \in Types, NEW which
  PROVE  Keeping(d, remove(d, n, t, which))
<1>1. EntriesOf(d) /\ HandlersOf(d) /\ ListenersOf(d) /\ d \in Dom
  BY DEF DomOf, EntriesOf
<1>2. PICK h : h = Handlers(d, n, t)
  OBVIOUS
<1>3. SortedList(h, t) /\ h \in HandlerList
  BY <1>1, <1>2 DEF HandlersOf, SortedList
<1>4. CASE h.objs = << >>
  <2>1. remove(d, n, t, which) = d
    BY <1>2, <1>4 DEF remove, Handlers
  <2>2. SameHandlers(d, d)
    BY DEF SameHandlers
  <2>3. NoneNew(d, d)
    BY DEF NoneNew
  <2> QED
    BY <1>1, <2>1, <2>3 DEF Keeping, DomOf
<1>5. CASE h.objs # << >>
  <2>1. d.expando[n] # None
    BY <1>2, <1>5, NoEntryFacts DEF Handlers, Entry
  <2>2. PICK gone : gone = {o \in ToSet(h.objs) : Matching(o, which)}
    OBVIOUS
  <2>3. PICK left : left = Without(h.objs, gone)
    OBVIOUS
  <2>4. PICK k : k = Cardinality(Delegates(left))
    OBVIOUS
  <2>5. PICK g : g = [objs |-> left, delegateCount |-> k]
    OBVIOUS
  <2>6. /\ SortedList(g, t)
        /\ Within(left, h.objs)
    <3>1. SortedList([objs |-> left, delegateCount |-> k], t)
      BY <1>3, <2>3, <2>4, SortedWithout
    <3>2. Within(left, h.objs)
      BY <1>3, <2>3, <2>4, SortedWithout
    <3> QED
      BY <2>5, <3>1, <3>2
  <2>7. PICK less : less = WithHandlers(d, n, t, g)
    OBVIOUS
  <2>8. /\ EntriesOf(less) /\ Handlers(less, n, t) = g
        /\ \A m \in PageNodes, u \in Types :
             m # n \/ u # t => Handlers(less, m, u) = Handlers(d, m, u)
        /\ less.listeners = d.listeners /\ less.attached = d.attached
    <3>1. g \in HandlerList
      BY <2>6 DEF SortedList
    <3> QED
      BY <1>1, <2>1, <2>7, <3>1, HandlersReplaced
  <2>9. PICK silent : silent = IF left = << >> THEN [less EXCEPT !.listeners = @ \ {<<n, t>>}] ELSE less
    OBVIOUS
  <2>10. remove(d, n, t, which) = IF HasEvents(silent, n) THEN silent ELSE removeEvents(silent, n)
    <3>1. Entry(d, n).events[t] = h
      BY <1>2 DEF Handlers
    <3>2. less = [d EXCEPT !.cache[d.expando[n]].events[t] = [objs |-> left, delegateCount |-> k]]
      BY <2>5, <2>7 DEF WithHandlers
    <3> QED
      BY <1>5, <2>2, <2>3, <2>4, <2>9, <3>1, <3>2 DEF remove, Delegates
  <2>11. /\ EntriesOf(silent) /\ SameHandlers(less, silent) /\ silent.attached = d.attached
         /\ silent.listeners = IF left = << >> THEN d.listeners \ {<<n, t>>} ELSE d.listeners
    <3>1. CASE left = << >>
      <4>1. less \in Dom
        BY <2>8 DEF EntriesOf
      <4>2. less.listeners \ {<<n, t>>} \in SUBSET (PageNodes \X Types)
        BY <4>1, DomFields
      <4>3. silent \in Dom
        BY <2>9, <3>1, <4>1, <4>2, DomExcept
      <4>4. /\ silent.listeners = less.listeners \ {<<n, t>>} /\ silent.attached = less.attached
            /\ silent.expando = less.expando /\ silent.cache = less.cache
            /\ silent.deletedIds = less.deletedIds /\ silent.guid = less.guid
        BY <2>9, <3>1, <4>1 DEF Dom
      <4> QED
        BY <2>8, <3>1, <4>3, <4>4, OtherParts
    <3>2. CASE left # << >>
      BY <2>8, <2>9, <3>2 DEF SameHandlers
    <3> QED
      BY <3>1, <3>2
  <2>12. /\ Handlers(silent, n, t) = g
         /\ \A m \in PageNodes, u \in Types :
              m # n \/ u # t => Handlers(silent, m, u) = Handlers(d, m, u)
    BY <2>8, <2>11 DEF SameHandlers
  <2>13. g.objs = left
    BY <2>5
  <2>14. NoneNew(d, silent)
    <3> SUFFICES ASSUME NEW m \in PageNodes, NEW u \in Types, NEW o \in Obj, Has(silent, m, u, o)
                 PROVE  Has(d, m, u, o)
      BY DEF NoneNew
    <3>1. CASE m # n \/ u # t
      BY <2>12, <3>1 DEF Has
    <3>2. CASE m = n /\ u = t
      BY <1>2, <2>6, <2>12, <2>13, <3>2 DEF Has, Within
    <3> QED
      BY <3>1, <3>2
  <2>15. HandlersOf(silent)
    <3>1. \A m \in PageNodes, u \in Types : SortedList(Handlers(silent, m, u), u)
      BY <1>1, <2>6, <2>12 DEF HandlersOf
    <3>2. \A m, l \in PageNodes, u, v \in Types, o, p \in Obj :
            Has(silent, m, u, o) /\ Has(silent, l, v, p) /\ o.binding = p.binding => m = l /\ u = v /\ o = p
      BY <1>1, <2>14 DEF HandlersOf, NoneNew
    <3> QED
      BY <3>1, <3>2 DEF HandlersOf
  <2>16. ListenersOf(silent)
    <3> SUFFICES ASSUME NEW m \in PageNodes, NEW u \in Types
                 PROVE  <<m, u>> \in silent.listeners <=> Handlers(silent, m, u).objs # << >>
      BY DEF ListenersOf
    <3>1. CASE m # n \/ u # t
      <4>1. <<m, u>> # <<n, t>>
        BY <3>1
      <4> QED
        BY <1>1, <2>11, <2>12, <3>1, <4>1 DEF ListenersOf
    <3>2. CASE m = n /\ u = t
      <4>1. <<n, t>> \in d.listeners
        BY <1>1, <1>2, <1>5 DEF ListenersOf
      <4> QED
        BY <2>11, <2>12, <2>13, <3>2, <4>1
    <3> QED
      BY <3>1, <3>2
  <2>17. Keeping(d, silent)
    BY <2>11, <2>14, <2>15, <2>16 DEF Keeping, DomOf
  <2>18. CASE HasEvents(silent, n)
    BY <2>10, <2>17, <2>18
  <2>19. CASE ~ HasEvents(silent, n)
    BY <2>10, <2>17, <2>19, RemoveEventsFacts, KeepingTwice DEF Keeping
  <2> QED
    BY <2>18, <2>19
<1> QED
  BY <1>4, <1>5

(* Nothing changes.                                                         *)
LEMMA KeepingSame == ASSUME NEW d, DomOf(d) PROVE Keeping(d, d)
BY DEF Keeping, NoneNew

(* An entry whose handlers stay.                                            *)
LEMMA KeepingHandlers ==
  ASSUME NEW d, DomOf(d), NEW e, EntriesOf(e), SameHandlers(d, e),
         e.listeners = d.listeners, e.attached = d.attached
  PROVE  Keeping(d, e)
BY SameFacts, FewerFacts DEF Keeping, DomOf

(* Data of an entry.                                                        *)
LEMMA FlagFacts ==
  ASSUME NEW d, DomOf(d), NEW n \in PageNodes, d.expando[n] # None, NEW b \in BOOLEAN,
         NEW e, e = [d EXCEPT !.cache[d.expando[n]].data = b]
  PROVE  Keeping(d, e)
<1>1. EntriesOf(d) /\ d \in Dom /\ d.cache \in [Ids -> EntryRec] /\ d.expando[n] \in Ids
  BY DomFields, EntryType DEF DomOf, EntriesOf
<1>2. PICK y \in EntryRec : y = d.cache[d.expando[n]] /\ y = Entry(d, n)
  BY <1>1 DEF Entry
<1>3. PICK x : x = [y EXCEPT !.data = b]
  OBVIOUS
<1>4. x \in EntryRec /\ x.there = y.there /\ x.events = y.events
  BY <1>3 DEF EntryRec
<1>5. e = [d EXCEPT !.cache = [d.cache EXCEPT ![d.expando[n]] = x]]
  BY <1>1, <1>2, <1>3 DEF Dom
<1>6. /\ EntriesOf(e) /\ Entry(e, n) = x
      /\ \A m \in PageNodes : m # n => Entry(e, m) = Entry(d, m)
      /\ e.listeners = d.listeners /\ e.attached = d.attached
  BY <1>1, <1>2, <1>4, <1>5, EntryChanges
<1>7. SameHandlers(d, e)
  BY <1>2, <1>4, <1>6 DEF SameHandlers, Handlers
<1> QED
  BY <1>6, <1>7, KeepingHandlers

(* data.                                                                    *)
LEMMA DataFacts ==
  ASSUME NEW d, DomOf(d), NEW n \in PageNodes
  PROVE  Keeping(d, data(d, n))
<1>1. PICK with : with = internalData(d, n)
  OBVIOUS
<1>2. /\ EntriesOf(with) /\ SameHandlers(d, with) /\ with.expando[n] # None
      /\ with.listeners = d.listeners /\ with.attached = d.attached
  BY <1>1, InternalDataFacts DEF DomOf
<1>3. Keeping(d, with)
  BY <1>2, KeepingHandlers
<1>4. PICK e : e = [with EXCEPT !.cache[with.expando[n]].data = TRUE]
  OBVIOUS
<1>5. Keeping(with, e)
  BY <1>2, <1>3, <1>4, FlagFacts DEF Keeping
<1>6. e = data(d, n)
  BY <1>1, <1>4 DEF data
<1> QED
  BY <1>3, <1>5, <1>6, KeepingTwice

(* removeData.                                                              *)
LEMMA RemoveDataFacts ==
  ASSUME NEW d, DomOf(d), NEW n \in PageNodes
  PROVE  Keeping(d, removeData(d, n))
<1>1. CASE ~ Entry(d, n).data
  BY <1>1, KeepingSame DEF removeData
<1>2. CASE Entry(d, n).data /\ HasEvents(d, n)
  <2>1. d.expando[n] # None
    BY <1>2, NoEntryFacts DEF Entry
  <2>2. removeData(d, n) = [d EXCEPT !.cache[d.expando[n]].data = FALSE]
    BY <1>2 DEF removeData
  <2> QED
    BY <2>1, <2>2, FlagFacts
<1>3. CASE Entry(d, n).data /\ ~ HasEvents(d, n)
  <2>1. PICK e : e = Destroy(d, n)
    OBVIOUS
  <2>2. /\ EntriesOf(e) /\ \A t \in Types : Handlers(e, n, t) = NoHandlers
        /\ \A m \in PageNodes, t \in Types : m # n => Handlers(e, m, t) = Handlers(d, m, t)
        /\ e.listeners = d.listeners /\ e.attached = d.attached
    BY <2>1, DestroyFacts DEF DomOf
  <2>3. HandlersOf(e) /\ NoneNew(d, e)
    <3>1. Fewer(d, e)
      BY <2>2 DEF Fewer
    <3> QED
      BY <3>1, FewerFacts DEF DomOf
  <2>4. ListenersOf(e)
    <3>1. \A t \in Types : Handlers(d, n, t).objs = << >>
      BY <1>3 DEF HasEvents, Handlers
    <3>2. \A t \in Types : Handlers(e, n, t).objs = << >>
      BY <2>2, NoEntryFacts
    <3>3. \A m \in PageNodes, t \in Types : Handlers(e, m, t).objs = Handlers(d, m, t).objs
      BY <2>2, <3>1, <3>2
    <3> QED
      BY <2>2, <3>3 DEF DomOf, ListenersOf
  <2>5. removeData(d, n) = e
    BY <1>3, <2>1 DEF removeData
  <2> QED
    BY <2>2, <2>3, <2>4, <2>5 DEF Keeping, DomOf
<1> QED
  BY <1>1, <1>2, <1>3

(* Listeners that go do not change an entry.                                *)
LEMMA LessListeners ==
  ASSUME NEW d, EntriesOf(d), NEW x, x \subseteq d.listeners,
         NEW e, e = [d EXCEPT !.listeners = x]
  PROVE  /\ EntriesOf(e) /\ SameHandlers(d, e)
         /\ e.listeners = x /\ e.attached = d.attached
<1>1. d \in Dom /\ x \in SUBSET (PageNodes \X Types)
  BY DomFields DEF EntriesOf
<1>2. e \in Dom
  BY <1>1, DomExcept
<1>3. /\ e.listeners = x /\ e.attached = d.attached
      /\ e.expando = d.expando /\ e.cache = d.cache
      /\ e.deletedIds = d.deletedIds /\ e.guid = d.guid
  BY <1>1 DEF Dom
<1> QED
  BY <1>2, <1>3, OtherParts

(* cleanData: a node that is cleaned neither is called nor listens.         *)
LEMMA CleanDataFacts ==
  ASSUME NEW d, DomOf(d), NEW n \in PageNodes
  PROVE  Keeping(d, cleanData(d, n))
<1>1. CASE ~ Entry(d, n).there
  BY <1>1, KeepingSame DEF cleanData
<1>2. CASE Entry(d, n).there
  <2>1. PICK special : special = remove(d, n, Special, "all")
    OBVIOUS
  <2>2. Keeping(d, special)
    <3>1. Special \in Types
      BY DEF Special, Types
    <3> QED
      BY <2>1, <3>1, RemoveFacts
  <2>3. PICK x : x = {l \in special.listeners : l[1] # n}
    OBVIOUS
  <2>4. PICK silent : silent = [special EXCEPT !.listeners = x]
    OBVIOUS
  <2>5. /\ EntriesOf(silent) /\ SameHandlers(special, silent)
        /\ silent.listeners = x /\ silent.attached = special.attached
    <3>1. x \subseteq special.listeners
      BY <2>3
    <3> QED
      BY <2>2, <2>4, <3>1, LessListeners DEF Keeping, DomOf
  <2>6. PICK e : e = Destroy(silent, n)
    OBVIOUS
  <2>7. /\ EntriesOf(e) /\ \A t \in Types : Handlers(e, n, t) = NoHandlers
        /\ \A m \in PageNodes, t \in Types : m # n => Handlers(e, m, t) = Handlers(silent, m, t)
        /\ e.listeners = x /\ e.attached = special.attached
    BY <2>5, <2>6, DestroyFacts
  <2>8. HandlersOf(e) /\ NoneNew(special, e)
    <3>1. Fewer(special, e)
      BY <2>5, <2>7 DEF Fewer, SameHandlers
    <3> QED
      BY <2>2, <3>1, FewerFacts DEF Keeping, DomOf
  <2>9. ListenersOf(e)
    <3> SUFFICES ASSUME NEW m \in PageNodes, NEW t \in Types
                 PROVE  <<m, t>> \in e.listeners <=> Handlers(e, m, t).objs # << >>
      BY DEF ListenersOf
    <3>1. CASE m = n
      BY <2>3, <2>7, <3>1, NoEntryFacts
    <3>2. CASE m # n
      <4>1. <<m, t>> \in e.listeners <=> <<m, t>> \in special.listeners
        BY <2>3, <2>7, <3>2
      <4>2. Handlers(e, m, t) = Handlers(special, m, t)
        BY <2>5, <2>7, <3>2 DEF SameHandlers
      <4> QED
        BY <2>2, <4>1, <4>2 DEF Keeping, DomOf, ListenersOf
    <3> QED
      BY <3>1, <3>2
  <2>10. Keeping(special, e)
    BY <2>7, <2>8, <2>9 DEF Keeping, DomOf
  <2>11. cleanData(d, n) = e
    BY <1>2, <2>1, <2>3, <2>4, <2>6 DEF cleanData
  <2> QED
    BY <2>2, <2>10, <2>11, KeepingTwice
<1> QED
  BY <1>1, <1>2

(* The first n elements of an order are cleaned.                            *)
Cleans(K, d, order, n) ==
  K[0] = d /\ \A i \in 1 .. n : K[i] = cleanData(K[i - 1], order[i])

(* There is such a function for every number of elements.                   *)
LEMMA CleansExists ==
  ASSUME NEW d, NEW order
  PROVE  \A n \in Nat : \E K : K = [i \in 0 .. n |-> K[i]] /\ Cleans(K, d, order, n)
<1> DEFINE S == {n \in Nat : \E K : K = [i \in 0 .. n |-> K[i]] /\ Cleans(K, d, order, n)}
<1>1. 0 \in S
  <2> DEFINE K == [i \in 0 .. 0 |-> d]
  <2>1. K = [i \in 0 .. 0 |-> K[i]] /\ Cleans(K, d, order, 0)
    BY DEF Cleans
  <2> QED
    BY <2>1
<1>2. ASSUME NEW n \in Nat, n \in S
      PROVE  n + 1 \in S
  <2>1. PICK K : K = [i \in 0 .. n |-> K[i]] /\ Cleans(K, d, order, n)
    BY <1>2
  <2>2. PICK e : e = cleanData(K[n], order[n + 1])
    OBVIOUS
  <2> DEFINE M == [i \in 0 .. n + 1 |-> IF i = n + 1 THEN e ELSE K[i]]
  <2>3. M = [i \in 0 .. n + 1 |-> M[i]]
    OBVIOUS
  <2>4. M[0] = d
    BY <2>1 DEF Cleans
  <2>5. ASSUME NEW i \in 1 .. n + 1
        PROVE  M[i] = cleanData(M[i - 1], order[i])
    <3>1. CASE i = n + 1
      <4>1. M[i] = e /\ M[i - 1] = K[n]
        BY <3>1
      <4> QED
        BY <2>2, <3>1, <4>1
    <3>2. CASE i # n + 1
      <4>1. i \in 1 .. n /\ M[i] = K[i] /\ M[i - 1] = K[i - 1]
        BY <3>2
      <4> QED
        BY <2>1, <4>1 DEF Cleans
    <3> QED
      BY <3>1, <3>2
  <2> HIDE DEF M
  <2>6. Cleans(M, d, order, n + 1)
    BY <2>4, <2>5 DEF Cleans
  <2> QED
    BY <2>3, <2>6
<1> HIDE DEF S
<1>3. Nat \subseteq S
  BY <1>1, <1>2, NatSets
<1> QED
  BY <1>3 DEF S

(* removeElements.                                                          *)
LEMMA RemoveElementsFacts ==
  ASSUME NEW d, DomOf(d), NEW elems, elems \subseteq PageElements
  PROVE  DomOf(removeElements(d, elems)) /\ NoneNew(d, removeElements(d, elems))
<1>1. PICK c \in Nat : c = Cardinality(elems)
  <2>1. IsFiniteSet(elems)
    BY EventsAssumption, FS_Subset
  <2> QED
    BY <2>1, FS_CardinalityType
<1>2. PICK order : order = SetToSeq(elems)
  OBVIOUS
<1>3. order \in [1 .. c -> elems]
  <2>1. ExistsBijection(1 .. c, elems)
    <3>1. IsFiniteSet(elems)
      BY EventsAssumption, FS_Subset
    <3> QED
      BY <1>1, <3>1, FS_CardinalityType
  <2>2. \E f \in [1 .. c -> elems] : IsInjective(f)
    BY <2>1 DEF ExistsBijection, Bijection, Injection, IsInjective
  <2> QED
    BY <1>1, <1>2, <2>2 DEF SetToSeq
<1>4. PICK K : K = [i \in 0 .. c |-> K[i]] /\ Cleans(K, d, order, c)
  BY CleansExists
<1> DEFINE Cleaned[i \in 0 .. c] ==
        IF i = 0 THEN d ELSE cleanData(Cleaned[i - 1], order[i])
<1>5. K = [i \in 0 .. c |-> IF i = 0 THEN d ELSE cleanData(K[i - 1], order[i])]
  BY <1>4 DEF Cleans
<1>6. Cleaned = [i \in 0 .. c |-> IF i = 0 THEN d ELSE cleanData(Cleaned[i - 1], order[i])]
  BY <1>5
<1>7. removeElements(d, elems) = [Cleaned[c] EXCEPT !.attached = @ \ elems]
  BY <1>1, <1>2 DEF removeElements
<1> HIDE DEF Cleaned
<1>8. Cleaned[0] = d
  BY <1>6
<1>9. ASSUME NEW i \in 1 .. c
      PROVE  Cleaned[i] = cleanData(Cleaned[i - 1], order[i])
  BY <1>6
<1> DEFINE S == {n \in Nat : n <= c => Keeping(d, Cleaned[n])}
<1>10. 0 \in S
  BY <1>8, KeepingSame
<1>11. ASSUME NEW n \in Nat, n \in S
       PROVE  n + 1 \in S
  <2> SUFFICES ASSUME n + 1 <= c PROVE Keeping(d, Cleaned[n + 1])
    OBVIOUS
  <2>1. Keeping(d, Cleaned[n])
    BY <1>11
  <2>2. Cleaned[n + 1] = cleanData(Cleaned[n], order[n + 1])
    BY <1>9
  <2>3. order[n + 1] \in PageNodes
    BY <1>3 DEF PageNodes
  <2>4. Keeping(Cleaned[n], Cleaned[n + 1])
    BY <2>1, <2>2, <2>3, CleanDataFacts DEF Keeping
  <2> QED
    BY <2>1, <2>4, KeepingTwice
<1> HIDE DEF S
<1>12. c \in S
  BY <1>10, <1>11, NatSets
<1>13. Keeping(d, Cleaned[c])
  BY <1>12 DEF S
<1>14. PICK k, e : k = Cleaned[c] /\ e = removeElements(d, elems)
  OBVIOUS
<1>15. e = [k EXCEPT !.attached = @ \ elems] /\ Keeping(d, k)
  BY <1>7, <1>13, <1>14
<1>16. k \in Dom /\ EntriesOf(k)
  BY <1>15 DEF Keeping, DomOf, EntriesOf
<1>17. e \in Dom
  <2>1. k.attached \ elems \in SUBSET PageElements
    BY <1>16, DomFields
  <2>2. e = [k EXCEPT !.attached = k.attached \ elems]
    BY <1>15, <1>16 DEF Dom
  <2> QED
    BY <1>16, <2>1, <2>2, DomExcept
<1>18. /\ e.expando = k.expando /\ e.cache = k.cache
       /\ e.deletedIds = k.deletedIds /\ e.guid = k.guid /\ e.listeners = k.listeners
  BY <1>15, <1>16 DEF Dom
<1>19. EntriesOf(e) /\ SameHandlers(k, e)
  BY <1>16, <1>17, <1>18, OtherParts
<1>20. DomOf(e) /\ NoneNew(k, e)
  BY <1>15, <1>18, <1>19, SameFacts, FewerFacts DEF Keeping, DomOf
<1> QED
  BY <1>14, <1>15, <1>20 DEF Keeping, NoneNew

-----------------------------------------------------------------------------
(* Handlers that come.                                                      *)

(* A list with one more element: what is in it.                             *)
OneMoreHandler(q, r, o) ==
  /\ \A i \in DOMAIN q : \E j \in DOMAIN r : r[j] = q[i]
  /\ \A j \in DOMAIN r : r[j] = o \/ \E i \in DOMAIN q : q[i] = r[j]
  /\ r # << >>

(* r is q with o at the end.                                                *)
Appended(q, o, r) ==
  /\ r = Append(q, o) /\ Len(r) = Len(q) + 1 /\ DOMAIN r = 1 .. Len(q) + 1
  /\ r[Len(q) + 1] = o /\ \A i \in 1 .. Len(q) : r[i] = q[i]

(* r is a, and b behind it.                                                 *)
Joined(a, b, r) ==
  /\ r = a \o b /\ Len(r) = Len(a) + Len(b) /\ DOMAIN r = 1 .. Len(a) + Len(b)
  /\ \A i \in 1 .. Len(a) : r[i] = a[i]
  /\ \A i \in 1 .. Len(b) : r[Len(a) + i] = b[i]

(* Any two lists can be joined.                                             *)
LEMMA OneJoined ==
  ASSUME NEW S, NEW a \in Seq(S), NEW b \in Seq(S)
  PROVE  \E r \in Seq(S) : Joined(a, b, r)
<1>1. a \o b \in Seq(S)
  OBVIOUS
<1>2. PICK r \in Seq(S) : r = a \o b
  BY <1>1
<1>3. PICK c \in Nat, d \in Nat : c = Len(a) /\ d = Len(b)
  OBVIOUS
<1>4. Len(a \o b) = c + d
  BY <1>3
<1>5. \A i \in 1 .. c : (a \o b)[i] = a[i]
  BY <1>3
<1>6. \A i \in 1 .. d : (a \o b)[c + i] = b[i]
  <2> TAKE i \in 1 .. d
  <2>1. c + i \in 1 .. c + d /\ ~ (c + i <= c) /\ (c + i) - c = i
    OBVIOUS
  <2>2. (a \o b)[c + i] = b[(c + i) - c]
    BY <1>3, <2>1
  <2> QED
    BY <2>1, <2>2
<1>7. DOMAIN r = 1 .. Len(r)
  OBVIOUS
<1>8. Joined(a, b, r)
  BY <1>2, <1>3, <1>4, <1>5, <1>6, <1>7 DEF Joined
<1> QED
  BY <1>8

(* r is a, o and b, one after the other.                                    *)
PutBetween(a, o, b, r) ==
  /\ r = a \o <<o>> \o b /\ Len(r) = Len(a) + Len(b) + 1
  /\ DOMAIN r = 1 .. Len(a) + Len(b) + 1 /\ r[Len(a) + 1] = o
  /\ \A i \in 1 .. Len(a) : r[i] = a[i]
  /\ \A i \in 1 .. Len(b) : r[Len(a) + 1 + i] = b[i]

(* Something can be appended to every list.                                 *)
LEMMA OneAppended ==
  ASSUME NEW S, NEW q \in Seq(S), NEW o \in S
  PROVE  \E r \in Seq(S) : Appended(q, o, r)
<1>1. Append(q, o) \in Seq(S)
  OBVIOUS
<1>2. PICK r \in Seq(S) : r = Append(q, o)
  BY <1>1
<1>3. /\ Len(r) = Len(q) + 1 /\ DOMAIN r = 1 .. Len(q) + 1
      /\ r[Len(q) + 1] = o /\ \A i \in 1 .. Len(q) : r[i] = q[i]
  BY <1>2
<1> QED
  BY <1>2, <1>3 DEF Appended

(* Something can be put between any two lists.                              *)
LEMMA OneBetween ==
  ASSUME NEW S, NEW a \in Seq(S), NEW b \in Seq(S), NEW o \in S
  PROVE  \E r \in Seq(S) : PutBetween(a, o, b, r)
<1>1. <<o>> \in Seq(S) /\ Len(<<o>>) = 1 /\ <<o>>[1] = o
  OBVIOUS
<1>2. PICK s \in Seq(S) : s = <<o>> /\ Len(s) = 1 /\ s[1] = o
  BY <1>1
<1>3. PICK c \in Nat, d \in Nat : c = Len(a) /\ d = Len(b)
  OBVIOUS
<1>4. PICK p \in Seq(S) : Joined(a, s, p)
  BY OneJoined
<1>5. /\ Len(p) = c + 1 /\ DOMAIN p = 1 .. c + 1 /\ p[c + 1] = o
      /\ \A i \in 1 .. c : p[i] = a[i]
  BY <1>2, <1>3, <1>4 DEF Joined
<1>6. PICK r \in Seq(S) : Joined(p, b, r)
  BY OneJoined
<1>7. /\ Len(r) = (c + 1) + d /\ DOMAIN r = 1 .. (c + 1) + d
      /\ \A i \in 1 .. c + 1 : r[i] = p[i]
      /\ \A i \in 1 .. d : r[(c + 1) + i] = b[i]
  BY <1>3, <1>5, <1>6 DEF Joined
<1>8. (c + 1) + d = c + d + 1
  OBVIOUS
<1>9. r[c + 1] = o /\ \A i \in 1 .. c : r[i] = a[i]
  BY <1>5, <1>7
<1>10. r = a \o <<o>> \o b
  BY <1>2, <1>4, <1>6 DEF Joined
<1>11. PutBetween(a, o, b, r)
  BY <1>3, <1>7, <1>8, <1>9, <1>10 DEF PutBetween
<1> QED
  BY <1>11

(* A delegate behind the delegates keeps a list sorted.                     *)
LEMMA SortedInsert ==
  ASSUME NEW t \in Types, NEW h, SortedList(h, t), NEW o \in Obj, o.type = t, o.delegated
  PROVE  LET r == InsertAt(h.objs, h.delegateCount + 1, o)
         IN  /\ SortedList([objs |-> r, delegateCount |-> h.delegateCount + 1], t)
             /\ OneMoreHandler(h.objs, r, o)
<1>1. PICK q \in Seq(Obj) : q = h.objs
  BY DEF SortedList, HandlerList, ObjLists
<1>2. PICK c \in Nat : c = h.delegateCount /\ c \in 0 .. Len(q)
  BY <1>1 DEF SortedList
<1>3. \A i \in DOMAIN q : q[i].type = t /\ (q[i].delegated <=> i <= c)
  BY <1>1, <1>2 DEF SortedList
<1>4. PICK a \in Seq(Obj), b \in Seq(Obj) : SplitInto(q, c, a, b)
  BY <1>2, SplitList
<1>5. PICK m \in Nat : m = Len(q) /\ DOMAIN q = 1 .. m /\ c <= m
  BY <1>2
<1>6. PICK r \in Seq(Obj) : PutBetween(a, o, b, r)
  BY OneBetween
<1>7. InsertAt(h.objs, h.delegateCount + 1, o) = r
  <2>1. (c + 1) - 1 = c
    OBVIOUS
  <2>2. InsertAt(q, c + 1, o) = SubSeq(q, 1, c) \o <<o>> \o SubSeq(q, c + 1, Len(q))
    BY <2>1 DEF InsertAt
  <2> QED
    BY <1>1, <1>2, <1>4, <1>6, <2>2 DEF SplitInto, PutBetween
<1>8. /\ Len(a) = c /\ Len(b) = m - c
      /\ \A i \in 1 .. c : a[i] = q[i]
      /\ \A i \in 1 .. m - c : b[i] = q[c + i]
  BY <1>4, <1>5 DEF SplitInto
<1>10. /\ Len(r) = m + 1 /\ DOMAIN r = 1 .. m + 1
       /\ \A i \in 1 .. c : r[i] = a[i]
       /\ \A i \in 1 .. m - c : r[c + 1 + i] = b[i]
  BY <1>5, <1>6, <1>8 DEF PutBetween
<1>11. \A i \in 1 .. m + 1 : i <= c => i \in 1 .. m /\ r[i] = q[i]
  BY <1>5, <1>8, <1>10
<1>12. r[c + 1] = o
  BY <1>6, <1>8 DEF PutBetween
<1>13. \A i \in 1 .. m + 1 : i > c + 1 => i - 1 \in 1 .. m /\ r[i] = q[i - 1]
  <2> TAKE i \in 1 .. m + 1
  <2> HAVE i > c + 1
  <2>1. PICK k \in 1 .. m - c : i = c + 1 + k /\ c + k = i - 1
    <3>1. i - (c + 1) \in 1 .. m - c /\ c + (i - (c + 1)) = i - 1 /\ i = c + 1 + (i - (c + 1))
      OBVIOUS
    <3> QED
      BY <3>1
  <2>2. i - 1 \in 1 .. m
    BY <1>5
  <2>3. r[c + 1 + k] = b[k]
    BY <1>10
  <2>4. b[k] = q[c + k]
    BY <1>8
  <2> QED
    BY <2>1, <2>2, <2>3, <2>4
<1>14. \A i \in 1 .. m + 1 : i <= c \/ i = c + 1 \/ i > c + 1
  OBVIOUS
<1>15. \A i \in 1 .. m + 1 : r[i].type = t /\ (r[i].delegated <=> i <= c + 1)
  <2> TAKE i \in 1 .. m + 1
  <2>1. CASE i <= c
    <3>1. i \in DOMAIN q /\ r[i] = q[i] /\ i <= c + 1
      BY <1>5, <1>11, <2>1
    <3> QED
      BY <1>3, <2>1, <3>1
  <2>2. CASE i = c + 1
    BY <1>12, <2>2
  <2>3. CASE i > c + 1
    <3>1. i - 1 \in DOMAIN q /\ r[i] = q[i - 1] /\ ~ (i - 1 <= c) /\ ~ (i <= c + 1)
      BY <1>5, <1>13, <2>3
    <3> QED
      BY <1>3, <3>1
  <2> QED
    BY <1>14, <2>1, <2>2, <2>3
<1>16. OneMoreHandler(q, r, o)
  <2>1. ASSUME NEW i \in DOMAIN q
        PROVE  \E j \in DOMAIN r : r[j] = q[i]
    <3>1. CASE i <= c
      <4>1. i \in 1 .. m + 1
        BY <1>5
      <4> QED
        BY <1>10, <1>11, <3>1, <4>1
    <3>2. CASE ~ i <= c
      <4>1. i + 1 \in 1 .. m + 1 /\ i + 1 > c + 1 /\ (i + 1) - 1 = i
        BY <1>5, <3>2
      <4> QED
        BY <1>10, <1>13, <4>1
    <3> QED
      BY <3>1, <3>2
  <2>2. \A j \in DOMAIN r : r[j] = o \/ \E i \in DOMAIN q : q[i] = r[j]
    BY <1>5, <1>10, <1>11, <1>12, <1>13, <1>14
  <2>3. r # << >>
    BY <1>10
  <2> QED
    BY <2>1, <2>2, <2>3 DEF OneMoreHandler
<1>17. SortedList([objs |-> r, delegateCount |-> c + 1], t)
  <2>1. PICK g : g = [objs |-> r, delegateCount |-> c + 1]
    OBVIOUS
  <2>2. g \in HandlerList /\ g.objs = r /\ g.delegateCount = c + 1
    BY <2>1 DEF HandlerList, ObjLists
  <2>3. c + 1 \in 0 .. Len(r)
    BY <1>5, <1>10
  <2>4. SortedList(g, t)
    BY <1>10, <1>15, <2>2, <2>3 DEF SortedList
  <2> QED
    BY <2>1, <2>4
<1> QED
  BY <1>1, <1>2, <1>7, <1>16, <1>17

(* And so does a handler of the node's own at the end.                      *)
LEMMA SortedAppend ==
  ASSUME NEW t \in Types, NEW h, SortedList(h, t), NEW o \in Obj, o.type = t, ~ o.delegated
  PROVE  LET r == Append(h.objs, o)
         IN  /\ SortedList([objs |-> r, delegateCount |-> h.delegateCount], t)
             /\ OneMoreHandler(h.objs, r, o)
<1>1. PICK q \in Seq(Obj) : q = h.objs
  BY DEF SortedList, HandlerList, ObjLists
<1>2. PICK c \in Nat : c = h.delegateCount /\ c \in 0 .. Len(q)
  BY <1>1 DEF SortedList
<1>3. \A i \in DOMAIN q : q[i].type = t /\ (q[i].delegated <=> i <= c)
  BY <1>1, <1>2 DEF SortedList
<1>4. PICK m \in Nat : m = Len(q) /\ DOMAIN q = 1 .. m /\ c <= m
  BY <1>2
<1>5. PICK r \in Seq(Obj) : 
        /\ r = Append(q, o) /\ Len(r) = m + 1 /\ DOMAIN r = 1 .. m + 1 /\ r[m + 1] = o
        /\ \A i \in 1 .. m : r[i] = q[i]
  <2>1. PICK r \in Seq(Obj) : Appended(q, o, r)
    BY OneAppended
  <2> QED
    BY <1>4, <2>1 DEF Appended
<1>6. \A i \in 1 .. m + 1 : i \in 1 .. m \/ i = m + 1
  OBVIOUS
<1>7. \A i \in 1 .. m + 1 : r[i].type = t /\ (r[i].delegated <=> i <= c)
  BY <1>3, <1>4, <1>5, <1>6
<1>8. OneMoreHandler(q, r, o)
  BY <1>4, <1>5, <1>6 DEF OneMoreHandler
<1>9. SortedList([objs |-> r, delegateCount |-> c], t)
  <2>1. PICK g : g = [objs |-> r, delegateCount |-> c]
    OBVIOUS
  <2>2. g \in HandlerList /\ g.objs = r /\ g.delegateCount = c
    BY <2>1 DEF HandlerList, ObjLists
  <2>3. c \in 0 .. Len(r)
    BY <1>4, <1>5
  <2>4. SortedList(g, t)
    BY <1>5, <1>7, <2>2, <2>3 DEF SortedList
  <2> QED
    BY <2>1, <2>4
<1> QED
  BY <1>1, <1>2, <1>5, <1>8, <1>9

(* No binding of d is o's.                                                  *)
IsNew(d, o) ==
  \A n \in PageNodes, t \in Types, p \in Obj : Has(d, n, t, p) => p.binding # o.binding
(* Of e's handlers only o is new.                                           *)
Adding(d, e, n, t, o) ==
  /\ DomOf(e) /\ e.attached = d.attached
  /\ \A m \in PageNodes, u \in Types, p \in Obj : Has(d, m, u, p) => Has(e, m, u, p)
  /\ \A m \in PageNodes, u \in Types, p \in Obj :
       Has(e, m, u, p) => Has(d, m, u, p) \/ (m = n /\ u = t /\ p = o)

(* add.                                                                     *)
LEMMA AddFacts ==
  ASSUME NEW d, DomOf(d), NEW n \in PageNodes, NEW t \in Types,
         NEW o \in Obj, o.type = t, IsNew(d, o)
  PROVE  Adding(d, add(d, n, t, o), n, t, o)
<1>1. PICK with : with = internalData(d, n)
  OBVIOUS
<1>2. /\ EntriesOf(with) /\ SameHandlers(d, with) /\ with.expando[n] # None
      /\ with.listeners = d.listeners /\ with.attached = d.attached
  BY <1>1, InternalDataFacts DEF DomOf
<1>3. Keeping(d, with)
  BY <1>2, KeepingHandlers
<1>4. PICK h : h = Handlers(with, n, t) /\ h = Handlers(d, n, t)
  BY <1>2 DEF SameHandlers
<1>5. SortedList(h, t)
  BY <1>4 DEF DomOf, HandlersOf
<1>6. PICK more : more = IF o.delegated
                         THEN [objs |-> InsertAt(h.objs, h.delegateCount + 1, o),
                               delegateCount |-> h.delegateCount + 1]
                         ELSE [h EXCEPT !.objs = Append(@, o)]
  OBVIOUS
<1>7. SortedList(more, t) /\ OneMoreHandler(h.objs, more.objs, o)
  <2>1. CASE o.delegated
    BY <1>5, <1>6, <2>1, SortedInsert
  <2>2. CASE ~ o.delegated
    <3>1. more = [objs |-> Append(h.objs, o), delegateCount |-> h.delegateCount]
      BY <1>5, <1>6, <2>2 DEF SortedList, HandlerList
    <3> QED
      BY <1>5, <2>2, <3>1, SortedAppend
  <2> QED
    BY <2>1, <2>2
<1>8. PICK e1 : e1 = WithHandlers(with, n, t, more)
  OBVIOUS
<1>9. /\ EntriesOf(e1) /\ Handlers(e1, n, t) = more
      /\ \A m \in PageNodes, u \in Types :
           m # n \/ u # t => Handlers(e1, m, u) = Handlers(with, m, u)
      /\ e1.listeners = with.listeners /\ e1.attached = with.attached
  <2>1. more \in HandlerList
    BY <1>7 DEF SortedList
  <2> QED
    BY <1>2, <1>8, <2>1, HandlersReplaced
<1>10. PICK x : x = IF h.objs = << >> THEN d.listeners \cup {<<n, t>>} ELSE d.listeners
  OBVIOUS
<1>11. PICK e : e = [e1 EXCEPT !.listeners = x]
  OBVIOUS
<1>12. add(d, n, t, o) = e
  <2>1. e1 \in Dom /\ with \in Dom /\ e1.listeners = d.listeners
    BY <1>2, <1>9 DEF EntriesOf
  <2>2. Entry(with, n).events[t] = h
    BY <1>4 DEF Handlers
  <2>3. add(d, n, t, o) = [with EXCEPT !.cache[with.expando[n]].events[t] = more,
                !.listeners = IF h.objs = << >> THEN @ \cup {<<n, t>>} ELSE @]
    BY <1>1, <1>6, <2>2 DEF add
  <2>4. e = [e1 EXCEPT !.listeners = IF h.objs = << >> THEN @ \cup {<<n, t>>} ELSE @]
    BY <1>10, <1>11, <2>1 DEF Dom
  <2> QED
    BY <1>8, <2>1, <2>3, <2>4 DEF WithHandlers, Dom
<1>13. /\ EntriesOf(e) /\ SameHandlers(e1, e)
       /\ e.listeners = x /\ e.attached = d.attached
  <2>1. e1 \in Dom /\ d.listeners \subseteq PageNodes \X Types
    BY <1>2, <1>9, DomFields DEF EntriesOf
  <2>2. x \in SUBSET (PageNodes \X Types)
    BY <1>10, <2>1
  <2>3. e \in Dom
    BY <1>11, <2>1, <2>2, DomExcept
  <2>4. /\ e.listeners = x /\ e.attached = e1.attached
        /\ e.expando = e1.expando /\ e.cache = e1.cache
        /\ e.deletedIds = e1.deletedIds /\ e.guid = e1.guid
    BY <1>11, <2>1 DEF Dom
  <2> QED
    BY <1>2, <1>9, <2>3, <2>4, OtherParts
<1>14. /\ Handlers(e, n, t) = more
       /\ \A m \in PageNodes, u \in Types :
            m # n \/ u # t => Handlers(e, m, u) = Handlers(d, m, u)
  BY <1>2, <1>9, <1>13 DEF SameHandlers
<1>15. ASSUME NEW m \in PageNodes, NEW u \in Types, NEW p \in Obj, Has(d, m, u, p)
       PROVE  Has(e, m, u, p)
  <2>1. CASE m # n \/ u # t
    BY <1>14, <1>15, <2>1 DEF Has
  <2>2. CASE m = n /\ u = t
    BY <1>4, <1>7, <1>14, <1>15, <2>2 DEF Has, OneMoreHandler
  <2> QED
    BY <2>1, <2>2
<1>16. ASSUME NEW m \in PageNodes, NEW u \in Types, NEW p \in Obj, Has(e, m, u, p)
       PROVE  Has(d, m, u, p) \/ (m = n /\ u = t /\ p = o)
  <2>1. CASE m # n \/ u # t
    BY <1>14, <1>16, <2>1 DEF Has
  <2>2. CASE m = n /\ u = t
    <3>1. PICK j \in DOMAIN more.objs : more.objs[j] = p
      BY <1>14, <1>16, <2>2 DEF Has
    <3> QED
      BY <1>4, <1>7, <2>2, <3>1 DEF Has, OneMoreHandler
  <2> QED
    BY <2>1, <2>2
<1>17. HandlersOf(e)
  <2>1. \A m \in PageNodes, u \in Types : SortedList(Handlers(e, m, u), u)
    BY <1>7, <1>14 DEF DomOf, HandlersOf
  <2>2. ASSUME NEW m \in PageNodes, NEW l \in PageNodes, NEW u \in Types, NEW v \in Types,
               NEW p \in Obj, NEW q \in Obj,
               Has(e, m, u, p), Has(e, l, v, q), p.binding = q.binding
        PROVE  m = l /\ u = v /\ p = q
    <3>1. CASE Has(d, m, u, p) /\ Has(d, l, v, q)
      BY <2>2, <3>1 DEF DomOf, HandlersOf
    <3>2. CASE Has(d, m, u, p) /\ l = n /\ v = t /\ q = o
      BY <2>2, <3>2 DEF IsNew
    <3>3. CASE m = n /\ u = t /\ p = o /\ Has(d, l, v, q)
      BY <2>2, <3>3 DEF IsNew
    <3>4. CASE m = n /\ u = t /\ p = o /\ l = n /\ v = t /\ q = o
      BY <3>4
    <3> QED
      BY <1>16, <2>2, <3>1, <3>2, <3>3, <3>4
  <2> QED
    BY <2>1, <2>2 DEF HandlersOf
<1>18. ListenersOf(e)
  <2> SUFFICES ASSUME NEW m \in PageNodes, NEW u \in Types
               PROVE  <<m, u>> \in e.listeners <=> Handlers(e, m, u).objs # << >>
    BY DEF ListenersOf
  <2>1. CASE m # n \/ u # t
    <3>1. <<m, u>> # <<n, t>>
      BY <2>1
    <3> QED
      BY <1>10, <1>13, <1>14, <2>1, <3>1 DEF DomOf, ListenersOf
  <2>2. CASE m = n /\ u = t
    <3>1. <<n, t>> \in x
      BY <1>4, <1>10 DEF DomOf, ListenersOf
    <3> QED
      BY <1>7, <1>13, <1>14, <2>2, <3>1 DEF OneMoreHandler
  <2> QED
    BY <2>1, <2>2
<1>19. DomOf(e)
  BY <1>13, <1>17, <1>18 DEF DomOf
<1> QED
  BY <1>12, <1>13, <1>15, <1>16, <1>19 DEF Adding

-----------------------------------------------------------------------------
(* Events that are under way.                                               *)

(* A function of the first numbers is a list.                               *)
LEMMA ListByPlaces ==
  ASSUME NEW S, NEW k \in Nat, NEW q, q = [i \in 1 .. k |-> q[i]],
         \A i \in 1 .. k : q[i] \in S
  PROVE  q \in Seq(S)
OBVIOUS

(* A list with another element in one place.                                *)
LEMMA OneReplaced ==
  ASSUME NEW S, NEW q \in Seq(S), NEW k \in DOMAIN q, NEW x \in S
  PROVE  [q EXCEPT ![k] = x] \in Seq(S) /\ DOMAIN [q EXCEPT ![k] = x] = DOMAIN q
OBVIOUS

(* What the types of a frame's parts say of its fields.                     *)
LEMMA FrameFields ==
  ASSUME NEW f \in EventFrame
  PROVE  /\ f.kind \in {"native", "trigger"} /\ f.type \in Types /\ f.target \in PageElements
         /\ f.path \in Seq(PageNodes) /\ f.queue \in Seq(ObjLists)
         /\ f.running \in BOOLEAN /\ f.stopped \in BOOLEAN /\ f.audience \subseteq Nat
BY DEF EventFrame

(* Handlers are records of their type.                                      *)
LEMMA HandlersAre ==
  ASSUME NEW d, EntriesOf(d), NEW n \in PageNodes, NEW t \in Types
  PROVE  /\ Handlers(d, n, t).objs \in Seq(Obj)
         /\ \A i \in DOMAIN Handlers(d, n, t).objs :
              Handlers(d, n, t).objs[i] \in Obj /\ Has(d, n, t, Handlers(d, n, t).objs[i])
<1>1. Handlers(d, n, t) \in HandlerList
  BY EntryType DEF EntriesOf
<1>2. PICK q \in Seq(Obj) : q = Handlers(d, n, t).objs
  BY <1>1 DEF HandlerList, ObjLists
<1>3. \A i \in DOMAIN q : q[i] \in Obj
  OBVIOUS
<1> QED
  BY <1>2, <1>3 DEF Has

(* Who is bound, is bound somewhere.                                        *)
LEMMA BoundSomewhere ==
  ASSUME NEW d, EntriesOf(d), NEW b \in Bound(d)
  PROVE  \E n \in PageNodes, t \in Types, o \in Obj : Has(d, n, t, o) /\ o.binding = b
<1>1. PICK n \in PageNodes, t \in Types :
        \E o \in ToSet(Entry(d, n).events[t].objs) : o.binding = b
  BY DEF Bound
<1> PICK o \in ToSet(Entry(d, n).events[t].objs) : o.binding = b
  BY <1>1
<1>2. PICK i \in DOMAIN Handlers(d, n, t).objs : Handlers(d, n, t).objs[i] = o
  BY <1>1 DEF ToSet, Handlers
<1> QED
  BY <1>1, <1>2, HandlersAre

HeardAll(d, fr) == \A i \in DOMAIN fr : StillHeard(d, fr[i])

(* What is bound still is where it was.                                     *)
StillThere(d, e) ==
  \A n \in PageNodes, t \in Types, o \in Obj :
    Has(d, n, t, o) /\ o.binding \in Bound(e) => Has(e, n, t, o)

(* Where no handler is new, who is bound still has not moved.               *)
LEMMA NoneMoves ==
  ASSUME NEW d, NEW e, DomOf(d), DomOf(e), NoneNew(d, e)
  PROVE  StillThere(d, e)
<1> SUFFICES ASSUME NEW n \in PageNodes, NEW t \in Types, NEW o \in Obj,
                    Has(d, n, t, o), o.binding \in Bound(e)
             PROVE  Has(e, n, t, o)
  BY DEF StillThere
<1>1. PICK m \in PageNodes, u \in Types, p \in Obj : Has(e, m, u, p) /\ p.binding = o.binding
  BY BoundSomewhere DEF DomOf
<1>2. Has(d, m, u, p)
  BY <1>1 DEF NoneNew
<1> QED
  BY <1>1, <1>2 DEF DomOf, HandlersOf

(* Calls of jQuery, whatever they do to the handlers.                       *)
LEMMA DoesStep ==
  ASSUME EventsInv, NEW d, Does(d), DomOf(d), StillThere(dom, d)
  PROVE  /\ dom' = d /\ dom' \in Dom /\ DomOf(dom') /\ eventFrames' \in Seq(EventFrame)
         /\ \A i \in DOMAIN eventFrames' : StillHeard(dom', eventFrames'[i])
<1> USE DEF EventsInv, EventsTypes
<1>1. PICK fr \in Seq(EventFrame) : fr = eventFrames
  OBVIOUS
<1>2. PICK k \in Nat : k = Len(fr) /\ DOMAIN fr = 1 .. k
  OBVIOUS
<1>3. PICK new : new = eventFrames'
  OBVIOUS
<1>4. new = [i \in 1 .. k |-> [fr[i] EXCEPT !.audience = @ \cap Bound(d)]]
  BY <1>1, <1>2, <1>3 DEF Does
<1>5. ASSUME NEW i \in 1 .. k
      PROVE  new[i] \in EventFrame /\ StillHeard(d, new[i])
  <2>1. PICK f \in EventFrame : f = fr[i]
    BY <1>2
  <2>2. PICK g : g = [f EXCEPT !.audience = f.audience \cap Bound(d)]
    OBVIOUS
  <2>3. g = new[i]
    BY <1>4, <2>1, <2>2 DEF EventFrame
  <2>4. /\ g \in EventFrame /\ g.audience = f.audience \cap Bound(d)
        /\ g.type = f.type /\ g.target = f.target /\ g.path = f.path
        /\ g.queue = f.queue /\ g.stopped = f.stopped
    BY <2>2 DEF EventFrame
  <2>5. StillHeard(dom, f)
    BY <1>1, <1>2, <2>1
  <2>6. ASSUME NEW b \in Bound(d), Coming(dom, f, b)
        PROVE  Coming(d, g, b)
    <3>1. PICK j \in DOMAIN f.path, o \in Obj :
            /\ Has(dom, f.path[j], f.type, o) /\ o.binding = b
            /\ o.delegated => f.target # f.path[j]
      BY <2>6 DEF Coming
    <3>2. f.path[j] \in PageNodes /\ f.type \in Types
      BY FrameFields
    <3>3. Has(d, f.path[j], f.type, o)
      BY <2>6, <3>1, <3>2 DEF StillThere
    <3> QED
      BY <2>4, <3>1, <3>3 DEF Coming
  <2>7. StillHeard(d, g)
    BY <2>4, <2>5, <2>6 DEF StillHeard
  <2> QED
    BY <2>3, <2>4, <2>7
<1>6. new \in Seq(EventFrame) /\ DOMAIN new = 1 .. k
  <2>1. DOMAIN new = 1 .. k /\ new = [i \in 1 .. k |-> new[i]]
    BY <1>4
  <2> QED
    BY <1>5, <2>1, ListByPlaces
<1>7. dom' = d /\ d \in Dom
  BY DEF Does, DomOf, EntriesOf
<1> QED
  BY <1>3, <1>5, <1>6, <1>7

(* The frame on top.                                                        *)
LEMMA TopFacts ==
  ASSUME EventsInv, eventFrames # << >>
  PROVE  Top \in EventFrame /\ StillHeard(dom, Top) /\ Len(eventFrames) \in DOMAIN eventFrames
<1>1. PICK fr \in Seq(EventFrame) : fr = eventFrames
  BY DEF EventsInv, EventsTypes
<1>2. fr # << >>
  BY <1>1
<1>3. Len(fr) \in DOMAIN fr
  BY <1>2
<1>4. fr[Len(fr)] \in EventFrame
  BY <1>3
<1>5. Top = fr[Len(fr)]
  BY <1>1 DEF Top, Last
<1> QED
  BY <1>1, <1>3, <1>4, <1>5 DEF EventsInv

(* Steps of the frame on top.                                               *)
LEMMA SetTopStep ==
  ASSUME EventsInv, eventFrames # << >>, NEW f \in EventFrame, StillHeard(dom, f), SetTop(f),
         UNCHANGED <<dom, bindings>>
  PROVE  EventsInv'
<1>1. PICK fr \in Seq(EventFrame) : fr = eventFrames
  BY DEF EventsInv, EventsTypes
<1>2. Len(fr) \in DOMAIN fr
  BY <1>1, TopFacts
<1>3. PICK new : new = [fr EXCEPT ![Len(fr)] = f]
  OBVIOUS
<1>4. new \in Seq(EventFrame) /\ DOMAIN new = DOMAIN fr
  BY <1>2, <1>3, OneReplaced
<1>5. \A i \in DOMAIN fr : new[i] = f \/ new[i] = fr[i]
  BY <1>3
<1>6. \A i \in DOMAIN new : StillHeard(dom, new[i])
  BY <1>1, <1>4, <1>5 DEF EventsInv
<1>7. eventFrames' = new
  BY <1>1, <1>3 DEF SetTop
<1> QED
  BY <1>4, <1>6, <1>7 DEF EventsInv, EventsTypes, BindingsCounted

(* The nodes an event visits.                                               *)
LEMMA PathType ==
  ASSUME EventsTypes, NEW n \in PageElements
  PROVE  Path(n) \in Seq(PageNodes)
<1>1. n # "document" /\ n # "box"
  BY EventsAssumption
<1>2. n \in PageNodes /\ "box" \in PageNodes /\ "document" \in PageNodes
  BY DEF PageNodes
<1>3. CASE n \in dom.attached
  <2>1. Path(n) = <<n, "box", "document">>
    BY <1>1, <1>3 DEF Path
  <2> QED
    BY <1>2, <2>1
<1>4. CASE n \notin dom.attached
  <2>1. Path(n) = <<n>>
    BY <1>1, <1>4 DEF Path
  <2> QED
    BY <1>2, <2>1
<1> QED
  BY <1>3, <1>4

(* An event begins: whoever ought to hear it is on its path.                *)
LEMMA BeginEventStep ==
  ASSUME EventsInv, NEW kind \in {"native", "trigger"}, NEW t \in Types, NEW n \in PageElements,
         BeginEvent(kind, t, n)
  PROVE  EventsInv'
<1> USE DEF EventsInv, EventsTypes
<1>1. PICK path \in Seq(PageNodes) : path = Path(n)
  BY PathType
<1>2. PICK heard : heard = Audience(t, n)
  OBVIOUS
<1>3. ASSUME NEW b \in heard
      PROVE  b \in Nat /\ \E i \in DOMAIN path : \E o \in Obj :
               /\ Has(dom, path[i], t, o) /\ o.binding = b
               /\ o.delegated => n # path[i]
  <2>1. PICK i \in DOMAIN path : \E o \in Listening(path[i], n) : o.type = t /\ o.binding = b
    BY <1>1, <1>2 DEF Audience
  <2>2. PICK o \in Listening(path[i], n) : o.type = t /\ o.binding = b
    BY <2>1
  <2>3. path[i] \in PageNodes
    OBVIOUS
  <2>4. PICK u \in Types : o \in ToSet(Entry(dom, path[i]).events[u].objs)
    BY DEF Listening
  <2>5. o.delegated => n # path[i]
    BY DEF Listening
  <2>6. PICK j \in DOMAIN Handlers(dom, path[i], u).objs : Handlers(dom, path[i], u).objs[j] = o
    BY <2>4 DEF ToSet, Handlers
  <2>7. o \in Obj /\ Has(dom, path[i], u, o)
    BY <2>3, <2>6, HandlersAre DEF DomOf
  <2>8. o.type = u
    BY <2>3, <2>6 DEF DomOf, HandlersOf, SortedList
  <2> QED
    BY <2>2, <2>5, <2>7, <2>8 DEF Obj
<1>4. PICK f : f = Event(kind, t, n)
  OBVIOUS
<1>5. /\ f.kind = kind /\ f.type = t /\ f.target = n /\ f.path = path /\ f.queue = << >>
      /\ f.running = FALSE /\ f.stopped = FALSE /\ f.audience = heard
  BY <1>1, <1>2, <1>4 DEF Event
<1>6. f \in EventFrame
  <2>1. << >> \in Seq(ObjLists) /\ heard \subseteq Nat
    BY <1>3
  <2> QED
    BY <1>1, <1>2, <1>4, <2>1 DEF Event, EventFrame
<1>7. StillHeard(dom, f)
  BY <1>3, <1>5 DEF StillHeard, Coming
<1>8. PICK fr \in Seq(EventFrame) : fr = eventFrames
  OBVIOUS
<1>9. PICK new \in Seq(EventFrame) : Appended(fr, f, new)
  BY <1>6, OneAppended
<1>10. eventFrames' = new
  BY <1>4, <1>8, <1>9 DEF BeginEvent, Appended
<1>11. \A i \in DOMAIN new : i \in 1 .. Len(fr) \/ i = Len(fr) + 1
  BY <1>9 DEF Appended
<1>12. \A i \in 1 .. Len(fr) : i \in DOMAIN fr
  OBVIOUS
<1>13. \A i \in DOMAIN new : StillHeard(dom, new[i])
  BY <1>7, <1>8, <1>9, <1>11, <1>12 DEF Appended
<1> QED
  BY <1>10, <1>13 DEF BeginEvent, BindingsCounted

(* An event ends.                                                           *)
LEMMA EventEndsStep ==
  ASSUME EventsInv, EventEnds
  PROVE  EventsInv'
<1>1. PICK fr \in Seq(EventFrame) : fr = eventFrames
  BY DEF EventsInv, EventsTypes
<1>2. fr # << >>
  BY <1>1 DEF EventEnds, HandlerInControl
<1>3. PICK k \in Nat : k = Len(fr) /\ k >= 1
  BY <1>2
<1>4. PICK new : new = SubSeq(fr, 1, k - 1)
  OBVIOUS
<1>5. new \in Seq(EventFrame) /\ DOMAIN new = 1 .. k - 1 /\ \A i \in 1 .. k - 1 : new[i] = fr[i]
  BY <1>3, <1>4
<1>6. \A i \in 1 .. k - 1 : i \in DOMAIN fr
  BY <1>3
<1>7. eventFrames' = new
  BY <1>1, <1>3, <1>4 DEF EventEnds, Front
<1>8. \A i \in DOMAIN new : StillHeard(dom, new[i])
  BY <1>1, <1>5, <1>6 DEF EventsInv
<1> QED
  BY <1>5, <1>7, <1>8 DEF EventEnds, EventsInv, EventsTypes, BindingsCounted

(* A handler returns.                                                       *)
LEMMA EventReturnStep ==
  ASSUME EventsInv, Return
  PROVE  EventsInv'
<1>1. eventFrames # << >> /\ UNCHANGED <<dom, bindings>>
  BY DEF Return
<1>2. PICK stop \in BOOLEAN : SetTop([Top EXCEPT !.running = FALSE, !.stopped = @ \/ stop])
  BY DEF Return
<1>3. PICK f \in EventFrame : f = Top /\ StillHeard(dom, f)
  BY <1>1, TopFacts
<1>4. PICK b \in BOOLEAN : b = (f.stopped \/ stop)
  BY FrameFields
<1>5. PICK g : g = [f EXCEPT !.running = FALSE, !.stopped = b]
  OBVIOUS
<1>6. /\ g \in EventFrame /\ g.stopped = b /\ g.audience = f.audience /\ g.queue = f.queue
      /\ g.path = f.path /\ g.type = f.type /\ g.target = f.target
  BY <1>5 DEF EventFrame
<1>7. SetTop(g)
  BY <1>2, <1>3, <1>4, <1>5 DEF EventFrame
<1>8. StillHeard(dom, g)
  <2>1. \A x : Coming(dom, f, x) => Coming(dom, g, x)
    BY <1>6 DEF Coming
  <2>2. ~ g.stopped => ~ f.stopped
    BY <1>4, <1>6
  <2> QED
    BY <1>3, <1>6, <2>1, <2>2 DEF StillHeard
<1> QED
  BY <1>1, <1>6, <1>7, <1>8, SetTopStep

(* A group of handlers, if there are any.                                   *)
GroupOf(objs) == IF objs = << >> THEN << >> ELSE <<objs>>

(* A group is a list of lists, and whoever is in it is queued.              *)
LEMMA GroupFacts ==
  ASSUME NEW q \in ObjLists
  PROVE  /\ GroupOf(q) \in Seq(ObjLists)
         /\ \A i \in DOMAIN q : Queued(GroupOf(q), q[i].binding)
<1>1. CASE q = << >>
  BY <1>1 DEF GroupOf
<1>2. CASE q # << >>
  <2>1. <<q>> \in Seq(ObjLists) /\ DOMAIN <<q>> = {1} /\ <<q>>[1] = q
    OBVIOUS
  <2>2. PICK g : g = <<q>>
    OBVIOUS
  <2>3. GroupOf(q) = g /\ g[1] = q /\ 1 \in DOMAIN g
    BY <1>2, <2>1, <2>2 DEF GroupOf
  <2> QED
    BY <2>1, <2>2, <2>3 DEF Queued
<1> QED
  BY <1>1, <1>2

(* Who is queued in one of two lists is queued in the two.                  *)
LEMMA QueuedJoined ==
  ASSUME NEW p \in Seq(ObjLists), NEW q \in Seq(ObjLists)
  PROVE  /\ p \o q \in Seq(ObjLists)
         /\ \A b : Queued(p, b) \/ Queued(q, b) => Queued(p \o q, b)
<1>1. PICK r \in Seq(ObjLists) : Joined(p, q, r)
  BY OneJoined
<1>2. r = p \o q
  BY <1>1 DEF Joined
<1>3. PICK c \in Nat, d \in Nat :
        c = Len(p) /\ d = Len(q) /\ DOMAIN p = 1 .. c /\ DOMAIN q = 1 .. d
  OBVIOUS
<1>4. /\ DOMAIN r = 1 .. c + d
      /\ \A i \in 1 .. c : r[i] = p[i]
      /\ \A i \in 1 .. d : r[c + i] = q[i]
  BY <1>1, <1>3 DEF Joined
<1>5. ASSUME NEW b, Queued(p, b)
      PROVE  Queued(r, b)
  <2>1. PICK i \in DOMAIN p : \E j \in DOMAIN p[i] : p[i][j].binding = b
    BY <1>5 DEF Queued
  <2>2. i \in DOMAIN r /\ r[i] = p[i]
    BY <1>3, <1>4
  <2> QED
    BY <2>1, <2>2 DEF Queued
<1>6. ASSUME NEW b, Queued(q, b)
      PROVE  Queued(r, b)
  <2>1. PICK i \in DOMAIN q : \E j \in DOMAIN q[i] : q[i][j].binding = b
    BY <1>6 DEF Queued
  <2>2. c + i \in DOMAIN r /\ r[c + i] = q[i]
    <3>1. i \in 1 .. d /\ c + i \in 1 .. c + d
      BY <1>3
    <3> QED
      BY <1>4, <3>1
  <2> QED
    BY <2>1, <2>2 DEF Queued
<1> QED
  BY <1>2, <1>5, <1>6

(* handlers finds everyone who listens on the node.                         *)
LEMMA HandlersHear ==
  ASSUME DomOf(dom), NEW n \in PageNodes, NEW t \in Types, NEW target \in PageElements
  PROVE  /\ handlers(n, t, target) \in Seq(ObjLists)
         /\ \A o \in Obj : Has(dom, n, t, o) /\ (o.delegated => target # n)
              => Queued(handlers(n, t, target), o.binding)
<1>1. PICK h : h = Handlers(dom, n, t)
  OBVIOUS
<1>2. SortedList(h, t)
  BY <1>1 DEF DomOf, HandlersOf
<1>3. PICK q \in Seq(Obj) : q = h.objs
  BY <1>2 DEF SortedList, HandlerList, ObjLists
<1>4. PICK c \in Nat : c = h.delegateCount /\ c \in 0 .. Len(q)
  BY <1>2, <1>3 DEF SortedList
<1>5. PICK m \in Nat : m = Len(q) /\ DOMAIN q = 1 .. m /\ c <= m
  BY <1>4
<1>6. PICK a \in Seq(Obj), b \in Seq(Obj) : SplitInto(q, c, a, b)
  BY <1>4, SplitList
<1>7. /\ a = SubSeq(q, 1, c) /\ b = SubSeq(q, c + 1, m) /\ Len(a) = c /\ Len(b) = m - c
      /\ \A i \in 1 .. c : a[i] = q[i]
      /\ \A i \in 1 .. m - c : b[i] = q[c + i]
  BY <1>5, <1>6 DEF SplitInto
<1>8. PICK first : first = IF target # n THEN GroupOf(a) ELSE << >>
  OBVIOUS
<1>9. handlers(n, t, target) = first \o GroupOf(b)
  BY <1>1, <1>3, <1>4, <1>5, <1>7, <1>8 DEF handlers, GroupOf, Handlers
<1>10. a \in ObjLists /\ b \in ObjLists
  BY DEF ObjLists
<1>11. first \in Seq(ObjLists) /\ GroupOf(b) \in Seq(ObjLists)
  BY <1>8, <1>10, GroupFacts
<1>12. PICK all \in Seq(ObjLists) : all = first \o GroupOf(b)
  BY <1>11, QueuedJoined
<1>13. \A x : Queued(first, x) \/ Queued(GroupOf(b), x) => Queued(all, x)
  BY <1>11, <1>12, QueuedJoined
<1>14. ASSUME NEW o \in Obj, Has(dom, n, t, o), o.delegated => target # n
       PROVE  Queued(all, o.binding)
  <2>1. PICK i \in DOMAIN q : q[i] = o
    BY <1>1, <1>3, <1>14 DEF Has
  <2>2. o.delegated <=> i <= c
    BY <1>2, <1>3, <1>4, <2>1 DEF SortedList
  <2>3. CASE i <= c
    <3>1. i \in DOMAIN a /\ a[i] = o
      BY <1>5, <1>7, <2>1, <2>3
    <3>2. first = GroupOf(a)
      BY <1>8, <1>14, <2>2, <2>3
    <3>3. Queued(GroupOf(a), a[i].binding)
      BY <1>10, <3>1, GroupFacts
    <3> QED
      BY <1>13, <3>1, <3>2, <3>3
  <2>4. CASE ~ i <= c
    <3>1. PICK k \in 1 .. m - c : i = c + k
      <4>1. i - c \in 1 .. m - c /\ i = c + (i - c)
        BY <1>5, <2>4
      <4> QED
        BY <4>1
    <3>2. k \in DOMAIN b /\ b[k] = o
      BY <1>7, <2>1, <3>1
    <3>3. Queued(GroupOf(b), b[k].binding)
      BY <1>10, <3>2, GroupFacts
    <3> QED
      BY <1>13, <3>2, <3>3
  <2> QED
    BY <2>3, <2>4
<1> QED
  BY <1>9, <1>12, <1>14

(* The head of a list and the rest of it.                                   *)
LEMMA HeadAndTail ==
  ASSUME NEW S, NEW q \in Seq(S), q # << >>
  PROVE  /\ Head(q) = q[1] /\ q[1] \in S /\ Tail(q) \in Seq(S) /\ 1 \in DOMAIN q
         /\ \A i \in DOMAIN q : i # 1 => i - 1 \in DOMAIN Tail(q) /\ Tail(q)[i - 1] = q[i]
<1>1. PICK k \in Nat : k = Len(q) /\ k >= 1 /\ DOMAIN q = 1 .. k
  OBVIOUS
<1>2. Head(q) = q[1] /\ q[1] \in S /\ 1 \in DOMAIN q
  BY <1>1
<1>3. PICK r \in Seq(S) : r = Tail(q)
  <2>1. Tail(q) \in Seq(S)
    OBVIOUS
  <2> QED
    BY <2>1
<1>4. DOMAIN r = 1 .. k - 1 /\ \A i \in 1 .. k - 1 : r[i] = q[i + 1]
  BY <1>1, <1>3
<1>5. ASSUME NEW i \in DOMAIN q, i # 1
      PROVE  i - 1 \in DOMAIN r /\ r[i - 1] = q[i]
  <2>1. i - 1 \in 1 .. k - 1 /\ (i - 1) + 1 = i
    BY <1>1, <1>5
  <2> QED
    BY <1>4, <2>1
<1> QED
  BY <1>2, <1>3, <1>5

(* A node is visited: who was to come there is queued now.                  *)
LEMMA VisitStep ==
  ASSUME EventsInv, Visit
  PROVE  EventsInv'
<1>1. eventFrames # << >> /\ UNCHANGED <<dom, bindings>>
  BY DEF Visit, HandlerInControl
<1>2. PICK f \in EventFrame : f = Top /\ StillHeard(dom, f)
  BY <1>1, TopFacts
<1>3. f.queue = << >> /\ f.path # << >>
  BY <1>2 DEF Visit
<1>4. PICK n : n = Head(f.path)
  OBVIOUS
<1>5. PICK p \in Seq(PageNodes) : p = Tail(f.path)
  BY <1>3, FrameFields, HeadAndTail
<1>6. /\ n = f.path[1] /\ n \in PageNodes
      /\ \A i \in DOMAIN f.path : i # 1 => i - 1 \in DOMAIN p /\ p[i - 1] = f.path[i]
  BY <1>3, <1>4, <1>5, FrameFields, HeadAndTail
<1>7. PICK heard : heard = IF f.kind = "native" THEN <<n, f.type>> \in dom.listeners
                           ELSE Entry(dom, n).events[f.type].objs # << >>
  OBVIOUS
<1>8. DomOf(dom)
  BY DEF EventsInv
<1>9. heard <=> Handlers(dom, n, f.type).objs # << >>
  BY <1>6, <1>7, <1>8, FrameFields DEF DomOf, ListenersOf, Handlers
<1>10. PICK q : q = IF heard THEN handlers(n, f.type, f.target) ELSE << >>
  OBVIOUS
<1>11. q \in Seq(ObjLists)
  <2>1. handlers(n, f.type, f.target) \in Seq(ObjLists)
    BY <1>6, <1>8, FrameFields, HandlersHear
  <2> QED
    BY <1>10, <2>1
<1>12. PICK g : g = [f EXCEPT !.path = p, !.queue = q]
  OBVIOUS
<1>13. /\ g \in EventFrame /\ g.path = p /\ g.queue = q /\ g.type = f.type /\ g.target = f.target
       /\ g.stopped = f.stopped /\ g.audience = f.audience
  BY <1>11, <1>12 DEF EventFrame
<1>14. SetTop(g)
  <2>1. SetTop([f EXCEPT !.path = Tail(@), !.queue = q])
    BY <1>2, <1>4, <1>7, <1>10 DEF Visit
  <2>2. g = [f EXCEPT !.path = Tail(@), !.queue = q]
    BY <1>5, <1>12 DEF EventFrame
  <2> QED
    BY <2>1, <2>2
<1>15. ASSUME NEW b, Coming(dom, f, b)
       PROVE  Queued(q, b) \/ Coming(dom, g, b)
  <2>1. PICK i \in DOMAIN f.path, o \in Obj :
          /\ Has(dom, f.path[i], f.type, o) /\ o.binding = b
          /\ o.delegated => f.target # f.path[i]
    BY <1>15 DEF Coming
  <2>2. CASE i = 1
    <3>1. Has(dom, n, f.type, o) /\ (o.delegated => f.target # n)
      BY <1>6, <2>1, <2>2
    <3>2. Handlers(dom, n, f.type).objs # << >>
      <4>1. PICK j \in DOMAIN Handlers(dom, n, f.type).objs : TRUE
        BY <3>1 DEF Has
      <4>2. DOMAIN << >> = {}
        OBVIOUS
      <4> QED
        BY <4>1, <4>2
    <3>3. q = handlers(n, f.type, f.target)
      BY <1>9, <1>10, <3>2
    <3> QED
      BY <1>6, <1>8, <2>1, <3>1, <3>3, FrameFields, HandlersHear
  <2>3. CASE i # 1
    <3>1. i - 1 \in DOMAIN p /\ p[i - 1] = f.path[i]
      BY <1>6, <2>3
    <3> QED
      BY <1>13, <2>1, <3>1 DEF Coming
  <2> QED
    BY <2>2, <2>3
<1>16. \A b : ~ Queued(f.queue, b)
  <2>1. DOMAIN << >> = {}
    OBVIOUS
  <2> QED
    BY <1>3, <2>1 DEF Queued
<1>17. StillHeard(dom, g)
  BY <1>2, <1>13, <1>15, <1>16 DEF StillHeard
<1> QED
  BY <1>1, <1>13, <1>14, <1>17, SetTopStep

(* The next handler of a group is called, or the next group begun.          *)
LEMMA DispatchStep ==
  ASSUME EventsInv, dispatch
  PROVE  EventsInv'
<1>1. eventFrames # << >> /\ UNCHANGED <<dom, bindings>>
  BY DEF dispatch, HandlerInControl
<1>2. PICK f \in EventFrame : f = Top /\ StillHeard(dom, f)
  BY <1>1, TopFacts
<1>3. PICK q \in Seq(ObjLists) : q = f.queue /\ q # << >>
  BY <1>2, FrameFields DEF dispatch
<1>4. PICK group \in ObjLists : group = Head(q) /\ group = q[1]
  BY <1>3, HeadAndTail
<1>5. 1 \in DOMAIN q
  BY <1>3, HeadAndTail
<1>6. CASE group = << >>
  <2>1. PICK r \in Seq(ObjLists) : r = IF f.stopped THEN << >> ELSE Tail(q)
    <3>1. Tail(q) \in Seq(ObjLists) /\ << >> \in Seq(ObjLists)
      BY <1>3, HeadAndTail
    <3> QED
      BY <3>1
  <2>2. PICK g : g = [f EXCEPT !.queue = r]
    OBVIOUS
  <2>3. /\ g \in EventFrame /\ g.path = f.path /\ g.queue = r /\ g.type = f.type
        /\ g.target = f.target /\ g.stopped = f.stopped /\ g.audience = f.audience
    BY <2>2 DEF EventFrame
  <2>4. SetTop(g)
    <3>1. SetTop([f EXCEPT !.queue = IF f.stopped THEN << >> ELSE Tail(@)])
      BY <1>2, <1>3, <1>4, <1>6 DEF dispatch
    <3>2. g = [f EXCEPT !.queue = IF f.stopped THEN << >> ELSE Tail(@)]
      BY <1>3, <2>1, <2>2 DEF EventFrame
    <3> QED
      BY <3>1, <3>2
  <2>5. ASSUME ~ f.stopped, NEW b, Queued(q, b)
        PROVE  Queued(r, b)
    <3>1. PICK i \in DOMAIN q : \E j \in DOMAIN q[i] : q[i][j].binding = b
      BY <2>5 DEF Queued
    <3>2. i # 1
      <4>1. DOMAIN << >> = {}
        OBVIOUS
      <4> QED
        BY <1>4, <1>6, <3>1, <4>1
    <3>3. i - 1 \in DOMAIN r /\ r[i - 1] = q[i]
      BY <1>3, <2>1, <2>5, <3>2, HeadAndTail
    <3> QED
      BY <3>1, <3>3 DEF Queued
  <2>6. \A b : Coming(dom, f, b) => Coming(dom, g, b)
    BY <2>3 DEF Coming
  <2>7. StillHeard(dom, g)
    BY <1>2, <1>3, <2>3, <2>5, <2>6 DEF StillHeard
  <2> QED
    BY <1>1, <2>3, <2>4, <2>7, SetTopStep
<1>7. CASE group # << >>
  <2>1. PICK rest \in ObjLists : /\ rest = Tail(group)
                                 /\ \A i \in DOMAIN group : i # 1 =>
                                      i - 1 \in DOMAIN rest /\ rest[i - 1] = group[i]
    <3>1. group \in Seq(Obj)
      BY DEF ObjLists
    <3>2. /\ Tail(group) \in Seq(Obj)
          /\ \A i \in DOMAIN group : i # 1 =>
               i - 1 \in DOMAIN Tail(group) /\ Tail(group)[i - 1] = group[i]
      BY <1>7, <3>1, HeadAndTail
    <3> QED
      BY <3>2 DEF ObjLists
  <2>2. Head(group) = group[1]
    BY <1>7, HeadAndTail DEF ObjLists
  <2>3. PICK r : r = [q EXCEPT ![1] = rest]
    OBVIOUS
  <2>4. r \in Seq(ObjLists) /\ DOMAIN r = DOMAIN q /\ r[1] = rest
    BY <1>5, <2>3, OneReplaced
  <2>5. \A i \in DOMAIN q : i # 1 => r[i] = q[i]
    BY <2>3
  <2>6. PICK who : who = group[1].binding
    OBVIOUS
  <2>7. PICK g : g = [f EXCEPT !.queue = r, !.running = TRUE, !.audience = f.audience \ {who}]
    OBVIOUS
  <2>8. /\ g \in EventFrame /\ g.path = f.path /\ g.queue = r /\ g.type = f.type
        /\ g.target = f.target /\ g.stopped = f.stopped /\ g.audience = f.audience \ {who}
    BY <2>4, <2>7 DEF EventFrame
  <2>9. SetTop(g)
    <3>1. SetTop([f EXCEPT !.queue[1] = Tail(group), !.running = TRUE,
                           !.audience = @ \ {Head(group).binding}])
      <4>1. Head(f.queue) = group /\ Top = f
        BY <1>2, <1>3, <1>4
      <4>2. Tail(f.queue[1]) = Tail(group)
        BY <1>3, <1>4
      <4> QED
        BY <1>7, <4>1, <4>2 DEF dispatch
    <3>2. g = [f EXCEPT !.queue[1] = Tail(group), !.running = TRUE,
                        !.audience = @ \ {Head(group).binding}]
      BY <1>3, <2>1, <2>2, <2>3, <2>6, <2>7 DEF EventFrame
    <3> QED
      BY <3>1, <3>2
  <2>10. ASSUME NEW b, b # who, Queued(q, b)
         PROVE  Queued(r, b)
    <3>1. PICK i \in DOMAIN q : \E j \in DOMAIN q[i] : q[i][j].binding = b
      BY <2>10 DEF Queued
    <3>2. PICK j \in DOMAIN q[i] : q[i][j].binding = b
      BY <3>1
    <3>3. CASE i = 1
      <4>1. q[i] = group /\ j \in DOMAIN group /\ j # 1
        BY <1>4, <2>6, <2>10, <3>2, <3>3
      <4>2. j - 1 \in DOMAIN rest /\ rest[j - 1] = group[j]
        BY <2>1, <4>1
      <4>3. 1 \in DOMAIN r /\ r[1] = rest
        BY <1>5, <2>4
      <4> QED
        BY <3>2, <4>1, <4>2, <4>3 DEF Queued
    <3>4. CASE i # 1
      <4>1. i \in DOMAIN r /\ r[i] = q[i]
        BY <2>4, <2>5, <3>4
      <4> QED
        BY <3>1, <4>1 DEF Queued
    <3> QED
      BY <3>3, <3>4
  <2>11. \A b : Coming(dom, f, b) => Coming(dom, g, b)
    BY <2>8 DEF Coming
  <2>12. StillHeard(dom, g)
    BY <1>2, <1>3, <2>8, <2>10, <2>11 DEF StillHeard
  <2> QED
    BY <1>1, <2>8, <2>9, <2>12, SetTopStep
<1> QED
  BY <1>6, <1>7

-----------------------------------------------------------------------------
(* Calls of jQuery, one by one.                                             *)

(* A call that adds no handler.                                             *)
LEMMA FewerStep ==
  ASSUME EventsInv, NEW d, Does(d), DomOf(d), NoneNew(dom, d), UNCHANGED bindings
  PROVE  EventsInv'
<1>1. StillThere(dom, d)
  BY NoneMoves DEF EventsInv
<1>2. /\ dom' = d /\ dom' \in Dom /\ DomOf(dom') /\ eventFrames' \in Seq(EventFrame)
      /\ \A i \in DOMAIN eventFrames' : StillHeard(dom', eventFrames'[i])
  BY <1>1, DoesStep
<1>3. BindingsCounted'
  BY <1>2 DEF EventsInv, BindingsCounted, NoneNew
<1> QED
  BY <1>2, <1>3 DEF EventsInv, EventsTypes

(* on: the binding has a number of its own.                                 *)
LEMMA OnStep ==
  ASSUME EventsInv, on
  PROVE  EventsInv'
<1>1. PICK b \in Bindings :
        Does(add(dom, b.node, b.type,
                 [binding |-> bindings + 1, type |-> b.type, delegated |-> b.delegated]))
  BY DEF on
<1>2. PICK o : o = [binding |-> bindings + 1, type |-> b.type, delegated |-> b.delegated]
  OBVIOUS
<1>3. b.node \in PageNodes /\ b.type \in Types /\ b.delegated \in BOOLEAN
  BY EventsAssumption
<1>4. bindings \in Nat /\ bindings' = bindings + 1
  BY DEF EventsInv, EventsTypes, on
<1>5. o \in Obj /\ o.type = b.type /\ o.binding = bindings + 1
  BY <1>2, <1>3, <1>4 DEF Obj
<1>6. IsNew(dom, o)
  <2>1. \A p \in Obj : p.binding \in Nat
    BY DEF Obj
  <2> QED
    BY <1>4, <1>5, <2>1 DEF IsNew, EventsInv, BindingsCounted
<1>7. PICK d : d = add(dom, b.node, b.type, o)
  OBVIOUS
<1>8. Adding(dom, d, b.node, b.type, o)
  BY <1>3, <1>5, <1>6, <1>7, AddFacts DEF EventsInv
<1>9. Does(d) /\ DomOf(d) /\ StillThere(dom, d)
  BY <1>1, <1>2, <1>7, <1>8 DEF Adding, StillThere
<1>10. /\ dom' = d /\ dom' \in Dom /\ DomOf(dom') /\ eventFrames' \in Seq(EventFrame)
       /\ \A i \in DOMAIN eventFrames' : StillHeard(dom', eventFrames'[i])
  BY <1>9, DoesStep
<1>11. BindingsCounted'
  <2> SUFFICES ASSUME NEW n \in PageNodes, NEW t \in Types, NEW p \in Obj, Has(d, n, t, p)
               PROVE  p.binding <= bindings + 1
    BY <1>4, <1>10 DEF BindingsCounted
  <2>1. Has(dom, n, t, p) \/ p = o
    BY <1>8 DEF Adding
  <2>2. p.binding \in Nat
    BY DEF Obj
  <2> QED
    BY <1>4, <1>5, <2>1, <2>2 DEF EventsInv, BindingsCounted
<1> QED
  BY <1>4, <1>10, <1>11 DEF EventsInv, EventsTypes

(* off.                                                                     *)
LEMMA OffStep ==
  ASSUME EventsInv, off
  PROVE  EventsInv'
<1>1. PICK n \in PageNodes, t \in Types, which \in {"all", "delegates", "own"} :
        Does(remove(dom, n, t, which))
  BY DEF off
<1>2. Keeping(dom, remove(dom, n, t, which))
  BY RemoveFacts DEF EventsInv
<1> QED
  BY <1>1, <1>2, FewerStep DEF Keeping, off

(* data and removeData.                                                     *)
LEMMA SetDataStep ==
  ASSUME EventsInv, SetData
  PROVE  EventsInv'
<1>1. PICK n \in PageElements : Does(data(dom, n)) \/ Does(removeData(dom, n))
  BY DEF SetData
<1>2. n \in PageNodes
  BY DEF PageNodes
<1>3. Keeping(dom, data(dom, n)) /\ Keeping(dom, removeData(dom, n))
  BY <1>2, DataFacts, RemoveDataFacts DEF EventsInv
<1> QED
  BY <1>1, <1>3, FewerStep DEF Keeping, SetData

(* html and remove.                                                         *)
LEMMA ElementsRemovedStep ==
  ASSUME EventsInv, html \/ removeElement
  PROVE  EventsInv'
<1>1. PICK elems : elems \subseteq dom.attached /\ Does(removeElements(dom, elems))
  BY DEF html, removeElement
<1>2. dom.attached \subseteq PageElements
  BY DomFields DEF EventsInv, EventsTypes
<1>3. DomOf(removeElements(dom, elems)) /\ NoneNew(dom, removeElements(dom, elems))
  BY <1>1, <1>2, RemoveElementsFacts DEF EventsInv
<1> QED
  BY <1>1, <1>3, FewerStep DEF html, removeElement

(* append: the records of the cache do not change.                          *)
LEMMA AppendStep ==
  ASSUME EventsInv, append
  PROVE  EventsInv'
<1>1. PICK n \in PageElements : Does([dom EXCEPT !.attached = @ \cup {n}])
  BY DEF append
<1>2. PICK d : d = [dom EXCEPT !.attached = dom.attached \cup {n}]
  OBVIOUS
<1>3. dom \in Dom /\ DomOf(dom) /\ dom.attached \cup {n} \subseteq PageElements
  BY DomFields DEF EventsInv, EventsTypes
<1>4. d \in Dom
  BY <1>2, <1>3, DomExcept
<1>5. /\ d.expando = dom.expando /\ d.cache = dom.cache /\ d.listeners = dom.listeners
      /\ d.deletedIds = dom.deletedIds /\ d.guid = dom.guid
  BY <1>2, <1>3 DEF Dom
<1>6. EntriesOf(d) /\ SameHandlers(dom, d)
  BY <1>3, <1>4, <1>5, OtherParts DEF DomOf
<1>7. DomOf(d) /\ NoneNew(dom, d)
  BY <1>3, <1>5, <1>6, SameFacts, FewerFacts DEF DomOf
<1>8. Does(d)
  BY <1>1, <1>2, <1>3 DEF Dom
<1> QED
  BY <1>7, <1>8, FewerStep DEF append

-----------------------------------------------------------------------------
(* The invariant and the property.                                          *)

(* When the page begins nobody has handlers.                                *)
LEMMA EventsInvInit == EventsInit => EventsInv
<1> SUFFICES ASSUME EventsInit PROVE EventsInv
  OBVIOUS
<1>1. /\ dom.attached = PageElements /\ dom.expando = [n \in PageNodes |-> None]
      /\ dom.cache = [id \in Ids |-> NoEntry] /\ dom.deletedIds = << >>
      /\ dom.guid = 1 /\ dom.listeners = {}
  BY DEF EventsInit, NoData, Ids
<1>2. dom \in Dom
  <2>1. << >> \in Seq(Ids) /\ 1 \in Nat \ {0}
    OBVIOUS
  <2>2. [id \in Ids |-> NoEntry] \in [Ids -> EntryRec]
    BY NoEntryFacts
  <2>3. [n \in PageNodes |-> None] \in [PageNodes -> Ids \cup {None}]
    OBVIOUS
  <2> QED
    BY <2>1, <2>2, <2>3 DEF EventsInit, NoData, Dom, Ids
<1>3. \A n \in PageNodes, t \in Types : Handlers(dom, n, t) = NoHandlers
  BY <1>1, NoEntryFacts DEF Handlers, Entry
<1>4. \A n \in PageNodes, t \in Types : \A o : ~ Has(dom, n, t, o)
  <2>1. DOMAIN << >> = {}
    OBVIOUS
  <2> QED
    BY <1>3, <2>1, NoEntryFacts DEF Has
<1>5. EntriesOf(dom)
  <2>1. \A id \in Ids : id # None /\ ~ id < 1
    BY NodesFinite DEF Ids, None
  <2>2. DOMAIN << >> = {}
    OBVIOUS
  <2>3. \A id \in Ids : ~ dom.cache[id].there
    BY <1>1, NoEntryFacts
  <2>4. \A n \in PageNodes : dom.expando[n] = None
    BY <1>1
  <2>5. \A id \in Ids : dom.cache[id].there <=> \E n \in PageNodes : dom.expando[n] = id
    BY <2>1, <2>3, <2>4
  <2>6. \A id \in Ids : id < dom.guid <=>
          dom.cache[id].there \/ \E i \in DOMAIN dom.deletedIds : dom.deletedIds[i] = id
    BY <1>1, <2>1, <2>2, <2>3
  <2> QED
    BY <1>1, <1>2, <2>2, <2>4, <2>5, <2>6 DEF EntriesOf
<1>6. HandlersOf(dom)
  <2>1. \A t \in Types : SortedList(NoHandlers, t)
    <3>1. Len(<< >>) = 0 /\ DOMAIN << >> = {}
      OBVIOUS
    <3> QED
      BY <3>1, NoEntryFacts DEF SortedList
  <2> QED
    BY <1>3, <1>4, <2>1 DEF HandlersOf
<1>7. ListenersOf(dom)
  BY <1>1, <1>3, NoEntryFacts DEF ListenersOf
<1>8. eventFrames = << >> /\ bindings = 0
  BY DEF EventsInit
<1>9. eventFrames \in Seq(EventFrame) /\ DOMAIN eventFrames = {}
  BY <1>8
<1> QED
  BY <1>2, <1>4, <1>5, <1>6, <1>7, <1>8, <1>9
  DEF EventsInv, EventsTypes, BindingsCounted, DomOf

(* Every step keeps the invariant.                                          *)
LEMMA EventsInvNext == EventsInv /\ [EventsNext]_eventVars => EventsInv'
<1> SUFFICES ASSUME EventsInv, [EventsNext]_eventVars PROVE EventsInv'
  OBVIOUS
<1>1. CASE Native \/ trigger
  BY <1>1, BeginEventStep DEF Native, trigger
<1>2. CASE Visit
  BY <1>2, VisitStep
<1>3. CASE dispatch
  BY <1>3, DispatchStep
<1>4. CASE Return
  BY <1>4, EventReturnStep
<1>5. CASE EventEnds
  BY <1>5, EventEndsStep
<1>6. CASE on
  BY <1>6, OnStep
<1>7. CASE off
  BY <1>7, OffStep
<1>8. CASE SetData
  BY <1>8, SetDataStep
<1>9. CASE html \/ removeElement
  BY <1>9, ElementsRemovedStep
<1>10. CASE append
  BY <1>10, AppendStep
<1>11. CASE UNCHANGED eventVars
  BY <1>11 DEF eventVars, EventsInv, EventsTypes, BindingsCounted
<1> QED
  BY <1>1, <1>2, <1>3, <1>4, <1>5, <1>6, <1>7, <1>8, <1>9, <1>10, <1>11 DEF EventsNext

(* Whoever has not heard an event that is over would be queued, or bound to *)
(* a node still to be visited: there is neither.                            *)
LEMMA EventsInvHeard == EventsInv => EventsAreHeard
<1> SUFFICES ASSUME EventsInv PROVE EventsAreHeard
  OBVIOUS
<1>1. EntriesAreOwned
  <2>1. EntriesOf(dom) /\ ListenersOf(dom) /\ dom \in Dom
    BY DEF EventsInv, EventsTypes, DomOf
  <2>2. DOMAIN dom.cache = Ids /\ dom.listeners \subseteq PageNodes \X Types
    BY <2>1, DomFields
  <2>3. dom.listeners =
          {l \in PageNodes \X Types : Entry(dom, l[1]).events[l[2]].objs # << >>}
    <3>1. \A l \in PageNodes \X Types :
            l \in dom.listeners <=> Entry(dom, l[1]).events[l[2]].objs # << >>
      BY <2>1 DEF ListenersOf, Handlers
    <3> QED
      BY <2>2, <3>1
  <2> QED
    BY <2>1, <2>2, <2>3 DEF EntriesAreOwned, EntriesOf
<1>2. EveryoneHears
  <2> SUFFICES ASSUME eventFrames # << >>, Top.queue = << >>, Top.path = << >>, ~ Top.stopped
               PROVE  Top.audience = {}
    BY DEF EveryoneHears
  <2>1. StillHeard(dom, Top)
    BY TopFacts
  <2>2. DOMAIN << >> = {}
    OBVIOUS
  <2>3. \A b : ~ Queued(Top.queue, b) /\ ~ Coming(dom, Top, b)
    BY <2>2 DEF Queued, Coming
  <2> QED
    BY <2>1, <2>3 DEF StillHeard
<1> QED
  BY <1>1, <1>2 DEF EventsAreHeard

(* Numbers are used again and handlers bind, unbind, trigger and remove:    *)
(* still an entry has one node, a node listens just where it has handlers,  *)
(* and an event that nobody stopped was heard by all who were bound when it *)
(* began and are bound still.                                               *)
THEOREM EventsAreHeardHolds == EventsSpec => []EventsAreHeard
<1> QED
  BY EventsInvInit, EventsInvNext, EventsInvHeard, PTL DEF EventsSpec

=============================================================================
