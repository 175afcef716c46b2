----------------------------- MODULE SuperRender -----------------------------
(***************************************************************************)
(* The WebGL renderer of the player                                        *)
(* (src/APP/html/script/playctrl/SuperRender_10.js): the objects it makes  *)
(* and deletes, and which samples of a decoded frame it uploads as the     *)
(* textures of the picture.                                                *)
(*                                                                         *)
(* A frame is in the I420 layout: the Y plane, then U and V with half the  *)
(* width and height. A sample is named by its place in the frame. Shaders  *)
(* and WebGL's own state are left out.                                     *)
(***************************************************************************)
EXTENDS Naturals

VARIABLES
  glObjects,    (* what the renderer has in WebGL                           *)
  picture       (* what is drawn: size of the frame, size of the picture;   *)
                (* NoPicture when the canvas is empty                       *)

renderVars == <<glObjects, picture>>

NoPicture == [width |-> 0, height |-> 0, dWidth |-> 0, dHeight |-> 0]

initProgram == {"YUVProgram"}
initBuffers == {"vertexPosBuffer", "texturePosBuffer"}
initTextures == {"yTextureRef", "uTextureRef", "vTextureRef"}

(* The constructor; WebGL is there.                                         *)
RenderManager == glObjects' = initProgram \cup initBuffers \cup initTextures

(* Without data the canvas is cleared.                                      *)
SR_DisplayFrameData(f) == picture' = f
SR_Clear == picture' = NoPicture

SR_Destroy ==
  glObjects' = glObjects \ (initProgram \cup initBuffers \cup initTextures)

(* Variant: V is looked for where a frame of the picture's size has it.     *)
updateFrameData_Cropped(p) ==
  LET half == p.dWidth \div 2
      Rows(size, columns, Row(_)) ==
        [k \in 0 .. size - 1 |-> Row(k \div columns) + (k % columns)]
      Chroma(start) == Rows(half * (p.dHeight \div 2), half,
                            LAMBDA i : start + (i * p.width) \div 2)
  IN  [Y |-> Rows(p.dWidth * p.dHeight, p.dWidth, LAMBDA i : i * p.width),
       U |-> Chroma(p.width * p.height),
       V |-> Chroma(p.width * p.height + (p.dWidth * p.dHeight) \div 4)]

(* Of every texture, the samples of the frame row by row.                   *)
updateFrameData(p) ==
  LET half == p.dWidth \div 2
      Rows(size, columns, Row(_)) ==
        [k \in 0 .. size - 1 |-> Row(k \div columns) + (k % columns)]
      Chroma(start) == Rows(half * (p.dHeight \div 2), half,
                            LAMBDA i : start + (i * p.width) \div 2)
  IN  [Y |-> Rows(p.dWidth * p.dHeight, p.dWidth, LAMBDA i : i * p.width),
       U |-> Chroma(p.width * p.height),
       V |-> Chroma((p.width * p.height * 5) \div 4)]

RenderInit == glObjects = {} /\ picture = NoPicture

-----------------------------------------------------------------------------
(* Property.                                                                *)

(* Where the I420 layout has a sample of a plane.                           *)
Place(p, plane, x, y) ==
  LET chroma == p.width * p.height
      quarter == (p.width \div 2) * (p.height \div 2)
  IN  CASE plane = "Y" -> y * p.width + x
        [] plane = "U" -> chroma + y * (p.width \div 2) + x
        [] plane = "V" -> chroma + quarter + y * (p.width \div 2) + x

(* The picture is the upper left part of the frame, in every plane: also    *)
(* when the decoder's frame is larger (1088 rows for 1080) and its rows are *)
(* longer than those of the picture.                                        *)
CropIsExact ==
  LET textures == updateFrameData(picture)
      halfW == picture.dWidth \div 2
  IN  /\ \A x \in 0 .. picture.dWidth - 1, y \in 0 .. picture.dHeight - 1 :
           textures.Y[y * picture.dWidth + x] = Place(picture, "Y", x, y)
      /\ \A x \in 0 .. halfW - 1, y \in 0 .. (picture.dHeight \div 2) - 1 :
           /\ textures.U[y * halfW + x] = Place(picture, "U", x, y)
           /\ textures.V[y * halfW + x] = Place(picture, "V", x, y)

=============================================================================
