------------------------------ MODULE MCUnits ------------------------------
(***************************************************************************)
(* Units of the program that are modelled apart from each other, side by   *)
(* side for TLC: a behaviour picks one of them and stays with it, the      *)
(* others rest. Instances:                                                 *)
(*   queue    both kinds of producer (the event queue has two that do not  *)
(*            block, the upload queue one that does) and two consumers on  *)
(*            one queue, more than the application has;                    *)
(*   confirm  a window of 5 frames in an array of 6, three classes;        *)
(*   cleanup  two old files, an entry that is none, two events, and up to  *)
(*            three faults of any kind;                                    *)
(*   main     every build, queues of one, one alarm of the detector.       *)
(***************************************************************************)
EXTENDS BoundedQueue, ConfirmWindow, StartupCleanup, Lifecycle

CONSTANTS clip, upload, hikflow, timer, extra,
          old1, old2, other1, new1, new2

OldFiles == {old1, old2}
OtherEntries == {other1}
NewEvents == {new1, new2}

VARIABLE unit   (* the one that runs                                       *)

(* A device that is not asked to clean, which does not start.              *)
NoCleanup ==
  /\ clear = FALSE /\ app = "off" /\ toSee = {}
  /\ events = {} /\ limbo = {}
  /\ marker = "absent" /\ disk = {"absent"}
  /\ complete = FALSE /\ kept = {} /\ stuck = FALSE /\ faults = 0

UnitsInit ==
  /\ unit \in {"queue", "confirm", "cleanup", "main"}
  /\ Init /\ ConfirmInit /\ LifeInit
  /\ IF unit = "cleanup" THEN CleanupInit ELSE NoCleanup
  /\ unit # "main" => build = {}

QueueRuns ==
  /\ unit = "queue" /\ Next
  /\ UNCHANGED <<unit, confirmVars, cleanupVars, lifeVars>>
ConfirmRuns ==
  /\ unit = "confirm" /\ ConfirmNext
  /\ UNCHANGED <<unit, vars, cleanupVars, lifeVars>>
CleanupRuns ==
  /\ unit = "cleanup" /\ CleanupNext
  /\ UNCHANGED <<unit, vars, confirmVars, lifeVars>>
MainRuns ==
  /\ unit = "main" /\ LifeNext
  /\ UNCHANGED <<unit, vars, confirmVars, cleanupVars>>

UnitsNext == QueueRuns \/ ConfirmRuns \/ CleanupRuns \/ MainRuns

(* The fairness of FairSpec, FairCleanupSpec and FairLifeSpec.             *)
UnitsSpec ==
  /\ UnitsInit
  /\ [][UnitsNext]_<<unit, vars, confirmVars, cleanupVars, lifeVars>>
  /\ \A p \in Producers :
       WF_vars(unit = "queue" /\ (PushWaits(p) \/ PushRefused(p) \/ PushAccepted(p)))
  /\ \A c \in Consumers : WF_vars(unit = "queue" /\ Pop(c))
  /\ WF_cleanupVars(unit = "cleanup" /\ clear_events_once)
  /\ WF_lifeVars(unit = "main" /\ MainStep)
  /\ WF_lifeVars(unit = "main" /\ ThreadStep)
  /\ WF_lifeVars(unit = "main" /\ (AlertReads \/ AlertStores))

=============================================================================
