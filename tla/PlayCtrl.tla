------------------------------ MODULE PlayCtrl ------------------------------
(***************************************************************************)
(* The player of one stream: JSPlayCtrl in the main thread                 *)
(* (src/APP/html/script/jsPlugin-1.2.0.min.js), the worker that decodes    *)
(* (src/APP/html/script/playctrl/DecodeWorker.js) and the renderer.        *)
(*                                                                         *)
(* The two threads post messages to each other. The main thread hands out  *)
(* more of the stream when a picture comes back, and a flag says who moves *)
(* next: a message that is not answered would freeze the picture. The page *)
(* makes a new player for every stream, so one stream is played here.      *)
(*                                                                         *)
(* A piece of the stream is named by its place in it and what the decoder  *)
(* makes of it: a picture, sound, or nothing it can use ("skip"). Sound is *)
(* off. Pausing, seeking, stepping and captures, which the page does not   *)
(* ask for, are left out.                                                  *)
(***************************************************************************)
EXTENDS Sequences, SequencesExt, FiniteSetsExt, SuperRender

CONSTANTS
  MaxPieces,    (* bound: pieces of the stream                              *)
  Batch,        (* pieces handed out at once (iInputDataLen)                *)
  InputRoom,    (* iInputMaxBufSize, in pieces                              *)
  DecoderRoom,  (* pieces the decoder takes before it says it is full       *)
  MaxFrames,    (* pictures waiting to be drawn; of more, the oldest        *)
  DropFrames,   (* so many go                                               *)
  Frames        (* sizes a stream may have: frame and picture; even, since  *)
                (* U and V have half of them                                *)

ASSUME PlayerAssumption ==
  /\ {MaxPieces, Batch, InputRoom, DecoderRoom, MaxFrames, DropFrames} \subseteq Nat \ {0}
  /\ \A f \in Frames : /\ \A size \in {f.width, f.height, f.dWidth, f.dHeight} :
                            size \in Nat /\ size % 2 = 0
                       /\ f.dWidth <= f.width /\ f.dHeight <= f.height

YUVBufferSize == 1

VARIABLES
  frame,              (* the size of this stream's frames                   *)
  arrived,            (* pieces that have come                              *)
  stream,             (* "none", "open" (the player's bOpenStream) or       *)
                      (* "closed"                                           *)
  bPlay, bIsFirstFrame,
  bIsGetYUV,          (* the next piece may be handed out when it comes     *)
  bIsInput,           (* the next picture may fetch what has come           *)
  bIsInputBufOver,    (* the decoder has said that it is full               *)
  bVisibility,
  aInputData,         (* pieces not handed out yet                          *)
  aVideoFrameBuffer,  (* pictures not drawn yet                             *)
  drawPending,        (* whether requestAnimationFrame will call draw       *)
  toWorker, toMain,   (* messages under way                                 *)
  bOpenStream,        (* of the worker; bOpenMode goes with it              *)
  decoder,            (* pieces in the decoder                              *)
  shown,              (* history: pictures drawn or dropped, the last       *)
  failed              (* history: whether the decoder did not open, or a    *)
                      (* piece was refused                                  *)

flags == <<bIsFirstFrame, bIsGetYUV, bIsInput, bIsInputBufOver>>
workerVars == <<bOpenStream, decoder>>
playVars == <<frame, arrived, stream, bPlay, flags, bVisibility, aInputData,
              aVideoFrameBuffer, drawPending, toWorker, toMain, workerVars, shown,
              failed, renderVars>>

OpenStream == [command |-> "OpenStream", data |-> << >>]
CloseStream == [command |-> "CloseStream", data |-> << >>]
InputData(data) == [command |-> "InputData", data |-> data]
GetFrameDataOf(piece) == [function |-> "GetFrameData", type |-> piece.type, id |-> piece.id]
NeedMore == [function |-> "GetFrameData", type |-> "more", id |-> 0]
BufOver == [function |-> "InputData", type |-> "over", id |-> 0]

-----------------------------------------------------------------------------
(* The main thread.                                                         *)

(* inputDataFun: hands out the next of these pieces, or an empty message    *)
(* while the decoder is full.                                               *)
inputDataFun(pieces, full) ==
  LET taken == IF full THEN 0 ELSE IF Len(pieces) < Batch THEN Len(pieces) ELSE Batch
  IN  /\ bIsGetYUV' = FALSE
      /\ toWorker' = Append(toWorker, InputData(SubSeq(pieces, 1, taken)))
      /\ aInputData' = SubSeq(pieces, taken + 1, Len(pieces))

(* The head of the stream: PlayM4_OpenStream, then PlayM4_Play with its     *)
(* renderer and the first draw, which finds nothing.                        *)
PlayM4_Play ==
  /\ stream = "none" /\ stream' = "open"
  /\ bPlay' = TRUE /\ drawPending' = TRUE
  /\ toWorker' = Append(toWorker, OpenStream)
  /\ RenderManager
  /\ UNCHANGED <<frame, arrived, flags, bVisibility, aInputData, aVideoFrameBuffer,
                 toMain, workerVars, shown, failed, picture>>

(* Before the first picture everything is handed out at once.               *)
PlayM4_InputData ==
  /\ stream = "open" /\ arrived < MaxPieces /\ arrived' = arrived + 1
  /\ \E type \in {"video", "audio", "skip"} :
       LET pieces == Append(aInputData, [id |-> arrived', type |-> type])
       IN  \/ /\ Len(aInputData) = InputRoom
              /\ inputDataFun(aInputData, bIsInputBufOver)
              /\ failed' = TRUE /\ UNCHANGED bIsInput
           \/ /\ Len(aInputData) < InputRoom /\ (bIsFirstFrame \/ bIsGetYUV)
              /\ inputDataFun(pieces, bIsInputBufOver)
              /\ UNCHANGED <<failed, bIsInput>>
           \/ /\ Len(aInputData) < InputRoom /\ ~ bIsFirstFrame /\ ~ bIsGetYUV
              /\ aInputData' = pieces /\ bIsInput' = TRUE
              /\ UNCHANGED <<bIsGetYUV, toWorker, failed>>
  /\ UNCHANGED <<frame, stream, bPlay, bIsFirstFrame, bIsInputBufOver, bVisibility,
                 aVideoFrameBuffer, drawPending, toMain, workerVars, shown, renderVars>>

(* onmessage. A picture is kept to be drawn; of too many, the oldest go.    *)
KeepFrame(message) ==
  aVideoFrameBuffer' =
    IF ~ bVisibility \/ message.type # "video" THEN aVideoFrameBuffer
    ELSE LET kept == Append(aVideoFrameBuffer, message.id)
         IN  IF Len(kept) > MaxFrames THEN SubSeq(kept, DropFrames + 1, Len(kept)) ELSE kept

(* Variant: it is answered only when there is data.                         *)
AnswerNeedMore_WithData ==
  /\ bIsInputBufOver' = FALSE
  /\ IF aInputData # << >> THEN inputDataFun(aInputData, FALSE)
     ELSE UNCHANGED <<bIsGetYUV, toWorker, aInputData>>
  /\ UNCHANGED <<bIsInput, bIsFirstFrame>>

(* After the first picture, "needs more" is answered at once, with data or  *)
(* without: the code calls the function it means to give to setTimeout.     *)
AnswerNeedMore ==
  /\ bIsInputBufOver' = FALSE
  /\ inputDataFun(aInputData, FALSE)
  /\ UNCHANGED <<bIsInput, bIsFirstFrame>>

(* A full decoder is given time by any message that it answers.             *)
AnswerFull(message) ==
  /\ inputDataFun(aInputData, TRUE)
  /\ bIsFirstFrame' = (bIsFirstFrame /\ ~ (message.type = "video" /\ bVisibility))
  /\ UNCHANGED <<bIsInput, bIsInputBufOver>>

AnswerPicture ==
  /\ bIsFirstFrame' = FALSE
  /\ IF aInputData # << >> /\ bIsInput
     THEN inputDataFun(aInputData, FALSE) /\ bIsInput' = FALSE
     ELSE bIsGetYUV' = TRUE /\ UNCHANGED <<bIsInput, toWorker, aInputData>>
  /\ UNCHANGED bIsInputBufOver

(* Variant: what comes after the stop is not ignored.                       *)
GetFrameData_Stopped(message) ==
  /\ \/ ~ bIsFirstFrame /\ message.type = "more" /\ AnswerNeedMore
     \/ /\ bIsFirstFrame \/ message.type # "more"
        /\ \/ bIsInputBufOver /\ AnswerFull(message)
           \/ ~ bIsInputBufOver /\ message.type = "video" /\ AnswerPicture
           \/ /\ ~ bIsInputBufOver /\ message.type # "video"
              /\ UNCHANGED <<flags, toWorker, aInputData>>
  /\ KeepFrame(message)

GetFrameData(message) ==
  \/ ~ bPlay /\ UNCHANGED <<flags, toWorker, aInputData, aVideoFrameBuffer>>
  \/ /\ bPlay
     /\ \/ ~ bIsFirstFrame /\ message.type = "more" /\ AnswerNeedMore
        \/ /\ bIsFirstFrame \/ message.type # "more"
           /\ \/ bIsInputBufOver /\ AnswerFull(message)
              \/ ~ bIsInputBufOver /\ message.type = "video" /\ AnswerPicture
              \/ /\ ~ bIsInputBufOver /\ message.type # "video"
                 /\ UNCHANGED <<flags, toWorker, aInputData>>
     /\ KeepFrame(message)

OnMessage ==
  /\ toMain # << >> /\ toMain' = Tail(toMain)
  /\ \/ Head(toMain).function = "GetFrameData" /\ GetFrameData(Head(toMain))
     \/ /\ Head(toMain).function = "InputData"
        /\ bIsInputBufOver' = TRUE
        /\ inputDataFun(aInputData, TRUE)
        /\ UNCHANGED <<bIsFirstFrame, bIsInput, aVideoFrameBuffer>>
  /\ UNCHANGED <<frame, arrived, stream, bPlay, bVisibility, drawPending, workerVars,
                 shown, failed, renderVars>>

(* requestAnimationFrame; not while the page is hidden. One picture is      *)
(* always held back.                                                        *)
draw ==
  /\ drawPending /\ bVisibility
  /\ \/ /\ bPlay /\ Len(aVideoFrameBuffer) > YUVBufferSize
        /\ shown' = Head(aVideoFrameBuffer)
        /\ aVideoFrameBuffer' = Tail(aVideoFrameBuffer)
        /\ SR_DisplayFrameData(frame)
        /\ UNCHANGED drawPending
     \/ /\ ~ bPlay /\ drawPending' = FALSE /\ aVideoFrameBuffer' = << >>
        /\ UNCHANGED <<shown, picture>>
  /\ UNCHANGED <<frame, arrived, stream, bPlay, flags, bVisibility, aInputData, toWorker,
                 toMain, workerVars, failed, glObjects>>

SetVisibility ==
  /\ bVisibility' = ~ bVisibility
  /\ UNCHANGED <<frame, arrived, stream, bPlay, flags, aInputData, aVideoFrameBuffer,
                 drawPending, toWorker, toMain, workerVars, shown, failed, renderVars>>

(* The stream was stopped or lost: PlayM4_Stop, PlayM4_CloseStream.         *)
PlayM4_CloseStream ==
  /\ stream = "open" /\ stream' = "closed"
  /\ bPlay' = FALSE
  /\ toWorker' = Append(toWorker, CloseStream)
  /\ SR_Clear /\ SR_Destroy
  /\ aInputData' = << >> /\ aVideoFrameBuffer' = << >>
  /\ UNCHANGED <<frame, arrived, flags, bVisibility, drawPending, toMain, workerVars,
                 shown, failed>>

-----------------------------------------------------------------------------
(* The worker: one command a step.                                          *)

(* GetFrameData is called until there is a picture or nothing more.         *)
FramesOf(pieces) ==
  LET pictures == {i \in DOMAIN pieces : pieces[i].type = "video"}
      last == IF pictures = {} THEN Len(pieces) ELSE Min(pictures)
      posted == [i \in 1 .. last |-> GetFrameDataOf(pieces[i])]
  IN  [posted |-> IF pictures = {} THEN Append(posted, NeedMore) ELSE posted,
       left |-> SubSeq(pieces, last + 1, Len(pieces))]

WorkerOpens ==
  /\ Head(toWorker).command = "OpenStream"
  /\ \E ok \in BOOLEAN : bOpenStream' = ok /\ failed' = (failed \/ ~ ok)
  /\ UNCHANGED <<decoder, toMain>>

(* What a full decoder refuses is lost. From a decoder that is not open     *)
(* nothing is ever fetched, and what goes into it does not matter.          *)
WorkerDecodes ==
  /\ Head(toWorker).command = "InputData"
  /\ LET data == Head(toWorker).data
         full == Len(decoder) + Len(data) > DecoderRoom
         frames == FramesOf(IF full THEN decoder ELSE decoder \o data)
         refusal == IF full THEN <<BufOver>> ELSE << >>
     IN  IF bOpenStream
         THEN decoder' = frames.left /\ toMain' = toMain \o refusal \o frames.posted
              /\ failed' = (failed \/ full)
         ELSE UNCHANGED <<decoder, toMain, failed>>
  /\ UNCHANGED bOpenStream

(* The worker's own flags stay as they are.                                 *)
WorkerCloses ==
  /\ Head(toWorker).command = "CloseStream"
  /\ decoder' = << >>
  /\ UNCHANGED <<bOpenStream, toMain, failed>>

WorkerStep ==
  /\ toWorker # << >> /\ toWorker' = Tail(toWorker)
  /\ WorkerOpens \/ WorkerDecodes \/ WorkerCloses
  /\ UNCHANGED <<frame, arrived, stream, bPlay, flags, bVisibility, aInputData,
                 aVideoFrameBuffer, drawPending, shown, renderVars>>

-----------------------------------------------------------------------------
PlayInit ==
  /\ frame \in Frames /\ arrived = 0 /\ stream = "none"
  /\ bPlay = FALSE /\ bIsFirstFrame = TRUE
  /\ bIsGetYUV = FALSE /\ bIsInput = FALSE /\ bIsInputBufOver = FALSE
  /\ bVisibility = TRUE
  /\ aInputData = << >> /\ aVideoFrameBuffer = << >> /\ drawPending = FALSE
  /\ toWorker = << >> /\ toMain = << >>
  /\ bOpenStream = FALSE /\ decoder = << >>
  /\ shown = 0 /\ failed = FALSE
  /\ RenderInit

PlayNext ==
  \/ PlayM4_Play \/ PlayM4_InputData \/ PlayM4_CloseStream \/ SetVisibility
  \/ OnMessage \/ draw \/ WorkerStep

PlaySpec == PlayInit /\ [][PlayNext]_playVars

-----------------------------------------------------------------------------
(* Properties.                                                              *)

(* Once there has been a picture, either the next piece is handed out when  *)
(* it comes, or a message is under way whose answer will hand it out: no    *)
(* order of pieces, pictures and sound leaves both threads waiting for each *)
(* other, with a picture that stands still.                                 *)
NeverFrozen ==
  bPlay /\ ~ bIsFirstFrame =>
    \/ bIsGetYUV
    \/ \E i \in DOMAIN toWorker : toWorker[i].command = "InputData"
    \/ \E i \in DOMAIN toMain : toMain[i].type \in {"video", "more", "over"}

(* A closed player holds no picture, no data and nothing in WebGL, and asks *)
(* the worker for nothing more, although pictures and a call of draw were   *)
(* under way when it was closed. (A decoder that was full is still asked.)  *)
NothingAfterClose ==
  stream = "closed" =>
    /\ aVideoFrameBuffer = << >> /\ aInputData = << >> /\ glObjects = {}
    /\ picture = NoPicture
    /\ failed \/ toWorker = << >> \/ Last(toWorker) = CloseStream

(* What is on the screen is the picture and nothing but the picture: cut to *)
(* its size, and gone when the player is closed.                            *)
PictureIsRight == NothingAfterClose /\ CropIsExact

=============================================================================
