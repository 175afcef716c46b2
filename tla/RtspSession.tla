---------------------------- MODULE RtspSession -----------------------------
(***************************************************************************)
(* The RTSP thread (src/src/rtsp_client.c): connect, ask for the stream,   *)
(* read interleaved frames, and start again whenever anything fails, until *)
(* the program stops. Every session has a parser of its own, which is the  *)
(* RtpDepacketizer this module extends.                                    *)
(*                                                                         *)
(* Every recv gives up after a second (SO_RCVTIMEO), so that every step of *)
(* the thread comes to an end; a camera that is silent for a second ends   *)
(* the session like one that hangs up.                                     *)
(***************************************************************************)
EXTENDS RtpDepacketizer

VARIABLES
  running,   (* g_running                                                   *)
  camera,    (* whether the camera answers                                  *)
  phase,     (* where the thread is                                         *)
  sockets,   (* open sockets of the thread                                  *)
  session,   (* history: the session, named by the first unit sent in it    *)
  sentIn     (* history: the session each unit was sent in                  *)

sessionVars == <<running, camera, phase, sockets, session, sentIn>>
allVars == <<vars, sessionVars>>

ToPhase(p) == phase' = p
InSession == {"connected", "described", "set up", "playing"}

-----------------------------------------------------------------------------
(* The camera, and the main thread. A camera that goes away leaves the unit *)
(* it was sending unfinished.                                               *)

CameraChanges ==
  /\ camera' = ~ camera
  /\ UNCHANGED <<vars, running, phase, sockets, session, sentIn>>

Stop ==
  /\ running /\ running' = FALSE
  /\ UNCHANGED <<vars, camera, phase, sockets, session, sentIn>>

-----------------------------------------------------------------------------
(* rtsp_record_thread and the connection.                                   *)

ThreadLoop ==
  /\ phase = "off"
  /\ ToPhase(IF running THEN "connecting" ELSE "exited")
  /\ UNCHANGED <<vars, running, camera, sockets, session, sentIn>>

(* Variant: a camera that is not there yet ends the thread.                 *)
Connect_GivesUp ==
  /\ phase = "connecting"
  /\ \/ camera /\ ToPhase("connected") /\ sockets' = sockets + 1
     \/ ~ camera /\ ToPhase("exited") /\ UNCHANGED sockets
  /\ UNCHANGED <<vars, running, camera, session, sentIn>>

(* tcp_connect_host closes its socket when connect fails; then the thread   *)
(* sleeps for three seconds.                                                *)
Connect ==
  /\ phase = "connecting"
  /\ \/ camera /\ ToPhase("connected") /\ sockets' = sockets + 1
     \/ ~ camera /\ ToPhase("sleeping") /\ UNCHANGED sockets
  /\ UNCHANGED <<vars, running, camera, session, sentIn>>

WakeUp ==
  /\ phase = "sleeping"
  /\ ToPhase("off")
  /\ UNCHANGED <<vars, running, camera, sockets, session, sentIn>>

AfterRequest == [connected |-> "described", described |-> "set up"]

(* DESCRIBE and SETUP, the latter also with an answer that names a session. *)
Request ==
  /\ phase \in {"connected", "described"} /\ camera
  /\ ToPhase(AfterRequest[phase])
  /\ UNCHANGED <<vars, running, camera, sockets, session, sentIn>>

(* Variant: one parser for all sessions.                                    *)
FreshParser_Kept == fu' = fu

(* rtp_h26x_init and rtp_h26x_destroy: nothing in the fragment buffer.      *)
FreshParser == fu' = << >>

(* PLAY and rtp_h26x_init. The camera starts with a new unit.               *)
Play ==
  /\ phase = "set up" /\ camera
  /\ ToPhase("playing")
  /\ session' = begun + 1
  /\ sending' = Idle /\ FreshParser
  /\ hurt' = hurt \cup ({sending.unit} \ {0})
  /\ UNCHANGED <<begun, ring, sizes, running, camera, sockets, sentIn>>

(* Variant: the socket of a refused request stays open.                    *)
RequestFails_Leaks ==
  /\ phase \in {"connected", "described", "set up"} /\ ~ camera
  /\ ToPhase("off")
  /\ UNCHANGED <<vars, running, camera, sockets, session, sentIn>>

(* No answer, not "RTSP/1.0 200", or no session: close, and try again at    *)
(* once.                                                                    *)
RequestFails ==
  /\ phase \in {"connected", "described", "set up"} /\ ~ camera
  /\ ToPhase("off") /\ sockets' = sockets - 1
  /\ UNCHANGED <<vars, running, camera, session, sentIn>>

(* A frame of channel 0 goes to the parser.                                 *)
ReadFrame ==
  /\ phase = "playing" /\ running /\ camera
  /\ Next
  /\ sentIn' = sentIn \o [i \in 1 .. begun' - begun |-> session]
  /\ UNCHANGED <<running, camera, phase, sockets, session>>

(* Variant: only a stream that ends is left, not one that is stopped.       *)
LeaveStream_OnlyAtEof ==
  /\ phase = "playing" /\ ~ camera
  /\ ToPhase("off") /\ sockets' = sockets - 1
  /\ FreshParser
  /\ UNCHANGED <<begun, sending, ring, sizes, hurt, running, camera, session, sentIn>>

(* End of file, a silent second, an impossible length, no memory, or the    *)
(* stop: rtp_h26x_destroy and close.                                        *)
LeaveStream ==
  /\ phase = "playing"
  /\ ~ running \/ ~ camera \/ May("loss")
  /\ ToPhase("off") /\ sockets' = sockets - 1
  /\ FreshParser
  /\ UNCHANGED <<begun, sending, ring, sizes, hurt, running, camera, session, sentIn>>

Thread == \/ ThreadLoop \/ Connect \/ WakeUp \/ Request \/ Play \/ RequestFails
          \/ ReadFrame \/ LeaveStream

SessionInit ==
  /\ Init
  /\ running = TRUE /\ camera \in BOOLEAN
  /\ phase = "off" /\ sockets = 0
  /\ session = 0 /\ sentIn = << >>

SessionNext == CameraChanges \/ Stop \/ Thread

SessionSpec == SessionInit /\ [][SessionNext]_allVars

(* The thread runs, and no call of it blocks for ever. Nothing is assumed   *)
(* of the camera.                                                           *)
SessionFairSpec == SessionSpec /\ WF_allVars(Thread)

-----------------------------------------------------------------------------
(* Whichever way a session ends, its one socket is closed, and no fragment  *)
(* waits for the next one.                                                  *)
SessionsEndClean ==
  /\ sockets = IF phase \in InSession THEN 1 ELSE 0
  /\ phase # "playing" => fu = << >>

(* No unit is put together from what two sessions sent.                     *)
OneSessionPerUnit ==
  \A i \in DOMAIN ring : \A k \in DOMAIN ring[i] :
    sentIn[ring[i][k].unit] = sentIn[ring[i][1].unit]

(* A stop ends the thread, wherever it is.                                  *)
StopEndsTheThread == ~ running ~> phase = "exited"

(* A camera that comes back and stays is played again.                      *)
StreamComesBack == <>[] camera => []<> (phase = "playing" \/ ~ running)

(* Units of the stream reach the ring whole, and damage stays within a unit *)
(* and within a session.                                                    *)
UnitsArrive ==
  /\ IntactUnitsArrive /\ DamageIsContained
  /\ OneSessionPerUnit /\ SessionsEndClean

(* Both: the thread is never stuck, neither at a stop nor without one.      *)
SessionIsLive == StopEndsTheThread /\ StreamComesBack

=============================================================================
