---------------------------- MODULE RenderBridge ----------------------------
(***************************************************************************)
(* The render bridge between the physics and OrcaStudio                    *)
(* (OrcaLabRenderBridge): push_state mirrors the robot's pose into the     *)
(* studio's scene, capture returns a picture of it.  The picture comes     *)
(* either from a video stream that runs on its own (CameraWrapper), and    *)
(* then a fence on the stream's sequence numbers keeps older frames out,   *)
(* or from a PNG file that the studio writes when it is asked              *)
(* (OrcaGrpcPngCamera).                                                    *)
(*                                                                         *)
(* A scene is the pair of the physics steps whose poses the camera and the *)
(* robot have in it.  Studio, stream and file system are external: a frame *)
(* of the stream shows the scene as it was PipelineDepth frames earlier.   *)
(***************************************************************************)
EXTENDS EgoCamera, Integers, Sequences

CONSTANTS
    PipelineDepth,  \* frames between rendering and publication
    MaxStep,        \* bound: steps of the physics
    MaxFrames,      \* bound: frames of the stream, requests of pictures
    NoFrame, NoFile

ASSUME RenderAssumption ==
    PipelineDepth \in Nat /\ MaxStep \in Nat /\ MaxFrames \in Nat

Step    == 0..MaxStep
Pose    == -1..MaxStep   \* -1: a pose of before this session
Scene   == [camera : Pose, robot : Pose]
FrameId == -1..MaxFrames
Frame   == [step : Step, id : FrameId, scene : Scene]
Stream  == [id : 0..MaxFrames, scene : Scene]
File    == [scene : Scene, complete : BOOLEAN]

ASSUME NoneAssumption == NoFrame \notin Frame /\ NoFile \notin File

VARIABLES
    step,              \* the physics' step_id
    scene,             \* the studio's scene
    pipeline, stream,  \* frames being encoded, and the last one published
    files, request, writing, \* the PNGs, _request_index, an unfinished write
    pc, capturing, expired,
    lastFrameId, pendingStep, baseline,
    frame              \* the picture returned last

bridgeVars == <<step, scene, pipeline, stream, files, request, writing,
                pc, capturing, expired, lastFrameId, pendingStep, baseline, frame>>
vars == <<egoVars, bridgeVars>>

studioVars == <<pipeline, stream, files, request, writing>>
fenceVars  == <<lastFrameId, pendingStep, baseline>>

\* Every variable has its type.
TypeOK ==
    /\ step \in Step /\ scene \in Scene
    /\ pipeline \in Seq(Scene) /\ Len(pipeline) = PipelineDepth
    /\ stream \in Stream
    /\ files \in [0..MaxFrames -> File \cup {NoFile}]
    /\ request \in 0..MaxFrames
    /\ writing \in [index : 0..MaxFrames, scene : Scene] \cup {NoFile}
    /\ pc \in {"idle", "follow", "render", "returned", "fence", "poll",
               "reading", "failed", "closed"}
    /\ capturing \in BOOLEAN /\ expired \in BOOLEAN
    /\ lastFrameId \in FrameId
    /\ pendingStep \in Step \cup {-1} /\ baseline \in FrameId
    /\ frame \in Frame \cup {NoFrame}

\* The studio shows some earlier pose.
Earlier == [camera |-> -1, robot |-> -1]
EarlierFrames == [i \in 1..PipelineDepth |-> Earlier]
NoFiles == [i \in 0..MaxFrames |-> NoFile]

Init ==
    /\ EgoInit
    /\ step = 0 /\ scene = Earlier /\ pipeline = EarlierFrames
    /\ stream = [id |-> 0, scene |-> Earlier]
    /\ files = NoFiles /\ request = 0 /\ writing = NoFile
    /\ pc = "closed" /\ capturing = FALSE /\ expired = FALSE
    /\ lastFrameId = -1 /\ pendingStep = -1 /\ baseline = -1
    /\ frame = NoFrame

\* The first use of the bridge starts it (_ensure_started).
StartBridge == StartSession /\ UNCHANGED bridgeVars

\* The camera is the last part: the bridge may be used.
BridgeReady ==
    /\ StartStep
    /\ pc' = IF stage' = "ready" THEN "idle" ELSE pc
    /\ UNCHANGED <<step, scene, studioVars, capturing, expired, fenceVars, frame>>

-----------------------------------------------------------------------------
(* The callers: physics steps, pose pushes and captures, from one thread.  *)

PhysicsStep ==
    /\ pc = "idle" /\ step < MaxStep
    /\ step' = step + 1
    /\ UNCHANGED <<egoVars, scene, studioVars, pc, capturing, expired,
                   fenceVars, frame>>

BeginPush == pc' = IF bind THEN "follow" ELSE "render"

PushState ==
    /\ pc = "idle"
    /\ BeginPush
    /\ capturing' = FALSE
    /\ UNCHANGED <<egoVars, step, scene, studioVars, expired, fenceVars, frame>>

AlreadyPushed == pendingStep = step

\* MaxFrames bounds the pictures asked for: no capture is begun past it.
Capture ==
    /\ pc = "idle" /\ (pull => request < MaxFrames)
    /\ capturing' = TRUE
    /\ IF AlreadyPushed THEN pc' = "poll" ELSE BeginPush
    /\ expired' = FALSE
    /\ UNCHANGED <<egoVars, step, scene, studioVars, fenceVars, frame>>

-----------------------------------------------------------------------------
(* push_state: first the camera, then the robot, then the fence.           *)

MoveCamera ==
    /\ pc = "follow" /\ actor # NoActor
    /\ scene' = [scene EXCEPT !.camera = step]
    /\ pc' = "render"
    /\ UNCHANGED <<egoVars, step, studioVars, capturing, expired, fenceVars,
                   frame>>

\* UpdateLocalEnv takes effect in the studio before the call returns.
UpdateRobot ==
    /\ pc = "render"
    /\ scene' = [scene EXCEPT !.robot = step]
    /\ pc' = "returned"
    /\ UNCHANGED <<egoVars, step, studioVars, capturing, expired, fenceVars,
                   frame>>

RenderReturns ==
    /\ pc = "returned"
    /\ pc' = "fence"
    /\ UNCHANGED <<egoVars, step, scene, studioVars, capturing, expired,
                   fenceVars, frame>>

CallFails ==
    /\ pc \in {"follow", "render", "returned"}
    /\ pc' = "failed"
    /\ UNCHANGED <<egoVars, step, scene, studioVars, capturing, expired,
                   fenceVars, frame>>

\* Mutant of Fence: only the frames already used are kept out.
FenceOfUsed == lastFrameId

\* What the stream has published by now may show the pose before.
Fence ==
    IF pull \/ stream.id < lastFrameId THEN lastFrameId ELSE stream.id

EstablishFence ==
    /\ pc = "fence"
    /\ baseline' = Fence
    /\ pendingStep' = step
    /\ pc' = IF capturing THEN "poll" ELSE "idle"
    /\ expired' = FALSE
    /\ UNCHANGED <<egoVars, step, scene, studioVars, capturing, lastFrameId,
                   frame>>

-----------------------------------------------------------------------------
(* capture: the first frame behind the fence, or a stale-frame error.      *)

Fresh(id) == id > baseline

ReturnFrame(id, picture) ==
    /\ frame' = [step |-> step, id |-> id, scene |-> picture]
    /\ lastFrameId' = id
    /\ pc' = "idle"
    /\ UNCHANGED <<pendingStep, baseline>>

FrameReceived ==
    /\ pc = "poll" /\ ~pull
    /\ stream.id > 0 /\ Fresh(stream.id)
    /\ ReturnFrame(stream.id, stream.scene)
    /\ UNCHANGED <<egoVars, step, scene, studioVars, capturing, expired>>

\* Mutant of DeadlinePassed: the poll never gives up.
WaitForEver == FALSE

DeadlinePassed == expired

StaleRenderFrame ==
    /\ pc = "poll" /\ ~pull
    /\ ~(stream.id > 0 /\ Fresh(stream.id))
    /\ DeadlinePassed
    /\ pc' = "failed"
    /\ UNCHANGED <<egoVars, step, scene, studioVars, capturing, expired,
                   fenceVars, frame>>

\* The poll sleeps and looks again.
PollAgain ==
    /\ pc = "poll" /\ ~pull
    /\ ~(stream.id > 0 /\ Fresh(stream.id))
    /\ ~DeadlinePassed
    /\ UNCHANGED vars

Deadline ==
    /\ pc \in {"poll", "reading"} /\ ~expired
    /\ expired' = TRUE
    /\ UNCHANGED <<egoVars, step, scene, studioVars, pc, capturing, fenceVars,
                   frame>>

ImageFile(index) == index

\* The studio takes the picture while the request is served and writes it
\* afterwards; _read_complete_png has a deadline of its own.
RequestPicture ==
    /\ pc = "poll" /\ pull
    /\ writing' = [index |-> ImageFile(request), scene |-> scene]
    /\ request' = request + 1
    /\ pc' = "reading" /\ expired' = FALSE
    /\ UNCHANGED <<egoVars, step, scene, pipeline, stream, files, capturing,
                   fenceVars, frame>>

\* The file of the present request ends with an IEND chunk.
PictureReady ==
    LET file == files[ImageFile(request - 1)]
    IN  file # NoFile /\ file.complete

\* The index of a picture counts the pictures read, one per request.
PictureRead ==
    /\ pc = "reading" /\ PictureReady /\ Fresh(request - 1)
    /\ ReturnFrame(request - 1, files[ImageFile(request - 1)].scene)
    /\ UNCHANGED <<egoVars, step, scene, studioVars, capturing, expired>>

\* The studio returned no colour, or the file was not completed in time.
PictureFails ==
    /\ pc = "reading" /\ (expired => ~PictureReady)
    /\ pc' = "failed"
    /\ UNCHANGED <<egoVars, step, scene, studioVars, capturing, expired,
                   fenceVars, frame>>

\* A new process has its own steps, pictures and files.
EndOfProcess ==
    /\ step' = 0 /\ scene' = Earlier /\ pipeline' = EarlierFrames
    /\ stream' = [id |-> 0, scene |-> Earlier]
    /\ files' = NoFiles /\ request' = 0 /\ writing' = NoFile
    /\ pc' = "closed" /\ capturing' = FALSE /\ expired' = FALSE
    /\ lastFrameId' = -1 /\ pendingStep' = -1 /\ baseline' = -1
    /\ frame' = NoFrame

\* The error leaves the caller, which closes the bridge; so does its end.
Close ==
    /\ pc \in {"idle", "failed"}
    /\ CloseBridge
    /\ EndOfProcess

Dies == Kill /\ EndOfProcess

-----------------------------------------------------------------------------
(* The studio.                                                             *)

Publish ==
    /\ stage = "ready" /\ ~pull /\ stream.id < MaxFrames
    /\ LET rendered == Append(pipeline, scene)
       IN  /\ stream' = [id |-> stream.id + 1, scene |-> Head(rendered)]
           /\ pipeline' = Tail(rendered)
    /\ UNCHANGED <<egoVars, step, scene, files, request, writing, pc,
                   capturing, expired, fenceVars, frame>>

HalfWritten == [scene |-> writing.scene, complete |-> FALSE]

BeginWrite ==
    /\ writing # NoFile /\ files[writing.index] # HalfWritten
    /\ files' = [files EXCEPT ![writing.index] = HalfWritten]
    /\ UNCHANGED <<egoVars, step, scene, pipeline, stream, request, writing,
                   pc, capturing, expired, fenceVars, frame>>

EndWrite ==
    /\ writing # NoFile /\ files[writing.index] = HalfWritten
    /\ files' = [files EXCEPT ![writing.index].complete = TRUE]
    /\ writing' = NoFile
    /\ UNCHANGED <<egoVars, step, scene, pipeline, stream, request, pc,
                   capturing, expired, fenceVars, frame>>

Closed == stage = "down" /\ UNCHANGED vars

-----------------------------------------------------------------------------

BridgeStep ==
    \/ MoveCamera \/ UpdateRobot \/ RenderReturns \/ CallFails \/ EstablishFence
    \/ FrameReceived \/ StaleRenderFrame \/ PollAgain
    \/ RequestPicture \/ PictureRead \/ PictureFails

\* A bound: the scene is left alone while a bridge is in use.
SceneStep ==
    /\ stage # "ready"
    /\ BecomesEditable \/ OtherClient
    /\ UNCHANGED bridgeVars

Next ==
    \/ StartBridge \/ BridgeReady \/ PhysicsStep \/ PushState \/ Capture
    \/ Close \/ Dies \/ SceneStep
    \/ BridgeStep \/ Deadline
    \/ Publish \/ BeginWrite \/ EndWrite
    \/ Closed

\* The calling thread goes on and the clock runs; nothing is assumed of the
\* studio.
Spec == /\ Init /\ [][Next]_vars
        /\ WF_vars(BridgeReady) /\ WF_vars(BridgeStep) /\ WF_vars(Deadline)

-----------------------------------------------------------------------------
(* Properties.                                                             *)

\* A picture that is returned for a step shows the robot, and the camera that
\* follows it, in the poses of that step: never a frame rendered before the
\* push, nor one rendered between the camera's move and the robot's.
FrameShowsStep ==
    frame # NoFrame => /\ frame.scene.robot = frame.step
                       /\ bind => frame.scene.camera = frame.step

\* A start ends with a bridge that works or with an error, even when the
\* camera actor never gets its properties, and a capture with a frame or with
\* an error, even when the studio has stopped publishing.
CallsEnd ==
    /\ Starting ~> ~Starting
    /\ pc \in {"poll", "reading"} ~> pc \in {"idle", "failed", "closed"}
=============================================================================
