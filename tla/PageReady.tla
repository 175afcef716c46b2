------------------------------- MODULE PageReady -------------------------------
(***************************************************************************)
(* $(document).ready (src/APP/html/script/jquery-1.11.1.js), in which all  *)
(* of the page's code waits until the document is there.                   *)
(*                                                                         *)
(* jQuery hears of the document by DOMContentLoaded and by load, whichever *)
(* comes first; who asks when both are over is called from a timer. Scripts*)
(* may hold the event (holdReady), and blocks may give further blocks. The *)
(* list of blocks is a Deferred (module Callbacks), here in its promise:   *)
(* every block once, in order, the late ones at once. The part for old IE  *)
(* is left out.                                                            *)
(***************************************************************************)
EXTENDS Naturals, Sequences, FiniteSets

CONSTANTS
  Blocks,       (* functions given to $(document).ready                     *)
  MaxHolds      (* bound: calls of holdReady(true)                          *)

VARIABLES
  readyState,   (* of the document                                          *)
  body,         (* whether document.body exists                             *)
  isReady, readyWait,
  readyList,    (* "none", "open" or "resolved"                             *)
  listening,    (* whether completed listens to the browser's events        *)
  readyTimers,  (* setTimeout(jQuery.ready) that have not come              *)
  waiting, due, (* blocks in the list, and those being fired                *)
  ran,          (* history: how often each block ran                        *)
  holds, holdsMade  (* history: holds not released, and all of them         *)

domVars == <<readyState, body>>
listVars == <<readyList, waiting, due>>
flagVars == <<isReady, readyWait, readyTimers>>
readyVars == <<domVars, flagVars, listVars, listening, ran, holds, holdsMade>>

Asked == {b \in Blocks : ran[b] > 0 \/ \E q \in {waiting, due} : \E i \in DOMAIN q : q[i] = b}

(* Scripts run one after the other, and a list that fires runs to its end.  *)
NothingFires == due = << >>

-----------------------------------------------------------------------------
resolveReady ==
  /\ readyList' = "resolved"
  /\ due' = due \o waiting /\ waiting' = << >>

(* Variant: holds are not waited for.                                       *)
ready_NoWait(left) ==
  IF isReady THEN readyTimers' = left /\ UNCHANGED <<isReady, readyWait, listVars>>
  ELSE IF ~ body THEN readyTimers' = left + 1 /\ UNCHANGED <<isReady, readyWait, listVars>>
  ELSE isReady' = TRUE /\ readyWait' = readyWait - 1 /\ readyTimers' = left /\ resolveReady

(* jQuery.ready(), called by the browser or a timer; left: the other timers.*)
ready(left) ==
  IF isReady THEN readyTimers' = left /\ UNCHANGED <<isReady, readyWait, listVars>>
  ELSE IF ~ body THEN readyTimers' = left + 1 /\ UNCHANGED <<isReady, readyWait, listVars>>
  ELSE /\ isReady' = TRUE /\ readyWait' = readyWait - 1 /\ readyTimers' = left
       /\ IF readyWait > 1 THEN UNCHANGED listVars ELSE resolveReady

(* jQuery.ready(true).                                                      *)
readyReleased ==
  /\ readyWait' = readyWait - 1
  /\ IF readyWait > 1 THEN UNCHANGED <<isReady, readyTimers, listVars>>
     ELSE IF ~ body THEN readyTimers' = readyTimers + 1 /\ UNCHANGED <<isReady, listVars>>
     ELSE isReady' = TRUE /\ UNCHANGED readyTimers /\ resolveReady

Hold ==
  /\ NothingFires /\ holdsMade < MaxHolds
  /\ readyWait' = readyWait + 1
  /\ holds' = holds + 1 /\ holdsMade' = holdsMade + 1
  /\ UNCHANGED <<domVars, isReady, readyTimers, listVars, listening, ran>>

Release ==
  /\ NothingFires /\ holds > 0
  /\ readyReleased
  /\ holds' = holds - 1
  /\ UNCHANGED <<domVars, listening, ran, holdsMade>>

-----------------------------------------------------------------------------
(* Variant: it is not asked whether the browser's events are over.          *)
promise_NeverLate ==
  /\ listening' = (listening \/ readyList = "none")
  /\ UNCHANGED readyTimers

(* jQuery.ready.promise: the first call makes the list and arranges for     *)
(* jQuery.ready to be called.                                               *)
promise ==
  IF readyList # "none" THEN UNCHANGED <<listening, readyTimers>>
  ELSE IF readyState = "complete" THEN readyTimers' = readyTimers + 1 /\ UNCHANGED listening
  ELSE listening' = TRUE /\ UNCHANGED readyTimers

(* A script gives a block. If the list has fired the block runs at once.    *)
Ready ==
  /\ NothingFires
  /\ \E b \in Blocks \ Asked :
       /\ promise
       /\ IF readyList = "resolved"
          THEN due' = <<b>> /\ UNCHANGED <<readyList, waiting>>
          ELSE readyList' = "open" /\ waiting' = Append(waiting, b) /\ UNCHANGED due
  /\ UNCHANGED <<domVars, isReady, readyWait, ran, holds, holdsMade>>

(* The list fires a block, which may give another one.                      *)
RunBlock ==
  /\ due # << >>
  /\ ran' = [ran EXCEPT ![Head(due)] = @ + 1]
  /\ \/ due' = Tail(due)
     \/ \E b \in Blocks \ Asked : due' = Append(Tail(due), b)
  /\ UNCHANGED <<domVars, flagVars, readyList, waiting, listening, holds, holdsMade>>

-----------------------------------------------------------------------------
(* The browser: the document is parsed, then loaded. The body may come late.*)

(* completed: both listeners are removed, then jQuery.ready().              *)
completed ==
  /\ listening' = FALSE
  /\ IF listening THEN ready(readyTimers) ELSE UNCHANGED <<flagVars, listVars>>

DocumentAdvances ==
  /\ NothingFires
  /\ \/ readyState = "loading" /\ readyState' = "interactive" /\ completed
     \/ readyState = "interactive" /\ readyState' = "complete" /\ completed
  /\ UNCHANGED <<body, ran, holds, holdsMade>>

BodyComes ==
  /\ ~ body /\ body' = TRUE
  /\ UNCHANGED <<readyState, listening, flagVars, listVars, ran, holds, holdsMade>>

TimerComes ==
  /\ NothingFires /\ readyTimers > 0
  /\ ready(readyTimers - 1)
  /\ UNCHANGED <<domVars, listening, ran, holds, holdsMade>>

-----------------------------------------------------------------------------
ReadyInit ==
  /\ readyState = "loading" /\ body = FALSE
  /\ isReady = FALSE /\ readyWait = 1
  /\ readyList = "none" /\ listening = FALSE /\ readyTimers = 0
  /\ waiting = << >> /\ due = << >> /\ ran = [b \in Blocks |-> 0]
  /\ holds = 0 /\ holdsMade = 0

ReadyNext ==
  \/ Ready \/ Hold \/ Release \/ RunBlock
  \/ DocumentAdvances \/ BodyComes \/ TimerComes

FairReadySpec == ReadyInit /\ [][ReadyNext]_readyVars
                 /\ WF_readyVars(RunBlock) /\ WF_readyVars(DocumentAdvances)
                 /\ WF_readyVars(BodyComes) /\ WF_readyVars(TimerComes)
                 /\ WF_readyVars(Release)

-----------------------------------------------------------------------------
(* Properties.                                                              *)

(* The blocks are let go when the document has been parsed, has a body, and *)
(* no script holds the event, whichever of listener, timer and release      *)
(* comes last.                                                              *)
WaitsForHolds ==
  [][readyList' = "resolved" /\ readyList # "resolved" =>
       readyState' # "loading" /\ body' /\ holds' = 0]_readyVars

(* Every block runs, however late it is given, and none runs twice although *)
(* the browser, a timer and a release may all find the document ready.      *)
EachBlockRunsOnce ==
  [](\A b \in Blocks : ran[b] <= 1) /\ <>[](\A b \in Asked : ran[b] = 1)

(* The blocks run when the page is ready, all of them and once.             *)
BlocksRunInTime == WaitsForHolds /\ EachBlockRunsOnce

=============================================================================
