-------------------------- MODULE RenderBridgeProofs --------------------------
(***************************************************************************)
(* Proofs about EgoCamera and RenderBridge: for any number of sessions,    *)
(* of other clients' steps and of polls, a camera streams with its own     *)
(* session's settings and none is left behind; for any number of steps,    *)
(* frames and pictures, a picture shows the step it is returned for.       *)
(***************************************************************************)
EXTENDS RenderBridge, TLAPS

-----------------------------------------------------------------------------
(* The camera actor.                                                       *)

EgoType ==
    /\ pull \in BOOLEAN /\ follower \in {"none", "stream", "persistent"}
    /\ stage \in {"down", "query", "requery", "add", "wait", "configure", "set", "record",
                  "verify", "stream", "camera", "ready"}
    /\ created \in BOOLEAN /\ touched \in BOOLEAN /\ lost \in BOOLEAN
    /\ actor \in Actor \cup {NoActor}
    /\ session \in 0..MaxSessions

\* A camera of the mujoco asset that is ours will be removed, or it is known
\* that this went wrong.
OwnInv ==
    /\ created => stage \in {"camera", "ready"}
    /\ actor # NoActor /\ actor.asset = "mujoco" /\ actor.by = "us" => created \/ lost
    /\ stage \in {"query", "add"} => follower # "none"

EgoInv == /\ EgoType /\ OwnInv /\ StreamsAsAsked
          /\ stage = "down" => open = {}

\* An actor that is added.
LEMMA AddedType ==
  ASSUME NEW asset \in {"agent", "mujoco"}, NEW by \in {"us", "others"}
  PROVE  Added(asset, by) \in Actor /\ Added(asset, by).asset = asset /\ Added(asset, by).by = by
  BY CameraAssumption DEF Added, Actor

\* Every step of a start keeps the invariant of the camera, ...
LEMMA StartKeepsEgo == ASSUME EgoInv, StartStep PROVE EgoInv'
  <1> USE CameraAssumption, ActorAssumption
  <1>0. EgoType /\ OwnInv /\ StreamsAsAsked
    BY DEF EgoInv
  <1>1. CASE StartFails
    <2>1. /\ stage' = "down" /\ open' = {} /\ created' = FALSE /\ actor' \in {actor, NoActor}
          /\ lost' \in BOOLEAN /\ (lost => lost') /\ UNCHANGED <<pull, follower, session, touched>>
          /\ created /\ actor' # NoActor => lost'
      <3>1. Shut(open)
        BY <1>1 DEF StartFails, Cleared
      <3> QED BY <3>1, <1>0, <1>1 DEF StartFails, Shut, CloseFollower, EgoType
    <2> QED BY <1>0, <2>1 DEF EgoInv, EgoType, OwnInv, StreamsAsAsked
  <1>2. CASE QueryActor \/ AddRefused \/ WaitForProperties \/ WaitForStream \/ StartCamera
    <2>1. /\ UNCHANGED <<pull, follower, actor, session, touched, lost>>
          /\ stage' \in {"add", "requery", "wait", "configure", "camera", "ready"}
          /\ stage' = "add" => stage = "query"
          /\ created' \in BOOLEAN /\ (created => created')
          /\ created' => stage' \in {"camera", "ready"}
          /\ stage' \in {"camera", "ready"} =>
                stage \in {"stream", "camera"} \/ follower = "persistent"
      <3>1. CASE AddRefused
        <4>1. follower \in {"stream", "persistent"} /\ ~created
          BY <1>0, <3>1 DEF AddRefused, OwnInv, EgoType
        <4> QED BY <3>1, <4>1 DEF AddRefused
      <3>2. CASE QueryActor \/ WaitForProperties \/ WaitForStream \/ StartCamera
        BY <1>0, <3>2 DEF QueryActor, WaitForProperties, WaitForStream, StartCamera, OwnInv,
                          EgoType
      <3> QED BY <1>2, <3>1, <3>2
    <2> QED BY <1>0, <2>1 DEF EgoInv, EgoType, OwnInv, StreamsAsAsked
  <1>3. CASE AddActor \/ AddRaises
    <2>1. /\ stage = "add" /\ actor' = Added(AssetOf, "us")
          /\ UNCHANGED <<pull, follower, session, touched>>
          /\ \/ /\ created' = (follower = "persistent") /\ lost' = lost
                /\ stage' = IF follower = "persistent" THEN "camera" ELSE "wait"
             \/ lost' = TRUE /\ stage' = "down" /\ open' = {} /\ created' = created
      BY <1>3 DEF AddActor, AddRaises, Cleared
    <2>2. AssetOf \in {"agent", "mujoco"}
      BY DEF AssetOf
    <2>3. actor' \in Actor /\ actor'.asset = AssetOf /\ actor' # NoActor
      BY <2>1, <2>2, AddedType
    <2>4. ~created /\ follower \in {"stream", "persistent"}
      BY <1>0, <2>1 DEF OwnInv, EgoType
    <2>5. follower = "stream" => AssetOf = "agent"
      BY DEF AssetOf
    <2>6. created' \in BOOLEAN /\ lost' \in BOOLEAN
      BY <1>0, <2>1 DEF EgoType
    <2>7. EgoType'
      BY <1>0, <2>1, <2>3, <2>6 DEF EgoType
    <2>8. OwnInv'
      <3>1. CASE lost' = TRUE /\ stage' = "down" /\ created' = created
        BY <3>1, <2>4 DEF OwnInv
      <3>2. CASE follower = "persistent" /\ created' = TRUE /\ stage' = "camera"
        BY <3>2 DEF OwnInv
      <3>3. CASE follower = "stream" /\ created' = FALSE /\ stage' = "wait"
        BY <3>3, <2>3, <2>5 DEF OwnInv
      <3> QED BY <2>1, <2>4, <3>1, <3>2, <3>3
    <2>9. StreamsAsAsked' /\ (stage' = "down" => open' = {})
      BY <2>1, <2>4 DEF StreamsAsAsked
    <2> QED BY <2>7, <2>8, <2>9 DEF EgoInv
  <1>4. CASE StopRecording \/ SetProperties \/ StartRecording
    <2>1. /\ actor \in Actor /\ actor' \in Actor /\ actor'.asset = actor.asset
          /\ actor'.by = actor.by
          /\ UNCHANGED <<pull, follower, created, session, touched, lost>>
          /\ stage \in {"configure", "set", "record"} /\ stage' \in {"set", "record", "verify"}
      <3>1. actor \in Actor
        BY <1>0, <1>4 DEF StopRecording, SetProperties, StartRecording, Editable, EgoType
      <3>2. session \in 0..MaxSessions + 1
        BY <1>0 DEF EgoType
      <3>3. \/ actor' = actor
            \/ \E on \in BOOLEAN : actor' = [actor EXCEPT !.recording = on]
            \/ actor' = [actor EXCEPT !.settings = session]
        BY <1>4 DEF StopRecording, SetProperties, StartRecording
      <3>4. actor' \in Actor /\ actor'.asset = actor.asset /\ actor'.by = actor.by
        BY <3>1, <3>2, <3>3 DEF Actor
      <3> QED BY <3>1, <3>4, <1>4 DEF StopRecording, SetProperties, StartRecording
    <2> QED BY <1>0, <2>1 DEF EgoInv, EgoType, OwnInv, StreamsAsAsked
  <1>5. CASE Verify
    <2>1. /\ actor # NoActor /\ actor.recording /\ actor.settings = session
          /\ stage = "verify" /\ stage' \in {"camera", "stream"} /\ touched' = FALSE
          /\ UNCHANGED <<pull, follower, created, actor, session, lost>>
      BY <1>5 DEF Verify, Editable, AsAsked
    <2> QED BY <1>0, <2>1 DEF EgoInv, EgoType, OwnInv, StreamsAsAsked
  <1> QED BY <1>1, <1>2, <1>3, <1>4, <1>5 DEF StartStep

\* ... and so do the ends of a session, the scene and the other clients.
LEMMA OthersKeepEgo ==
  ASSUME EgoInv, StartSession \/ CloseBridge \/ Kill \/ BecomesEditable \/ OtherClient
  PROVE  EgoInv'
  <1> USE CameraAssumption, ActorAssumption
  <1>0. EgoType /\ OwnInv /\ StreamsAsAsked
    BY DEF EgoInv
  <1>1. CASE StartSession
    <2>1. /\ stage = "down" /\ session' \in 0..MaxSessions /\ pull' \in BOOLEAN
          /\ follower' \in {"none", "stream", "persistent"}
          /\ stage' = IF follower' = "none" THEN "camera" ELSE "query"
          /\ UNCHANGED <<created, actor, touched, lost>>
      BY <1>0, <1>1 DEF StartSession, EgoType
    <2> QED BY <1>0, <2>1 DEF EgoInv, EgoType, OwnInv, StreamsAsAsked
  <1>2. CASE CloseBridge
    <2>1. /\ stage' = "down" /\ open' = {} /\ created' = FALSE /\ actor' \in {actor, NoActor}
          /\ lost' \in BOOLEAN /\ (lost => lost') /\ UNCHANGED <<pull, follower, session, touched>>
          /\ created /\ actor' # NoActor => lost'
      BY <1>0, <1>2 DEF CloseBridge, Shut, CloseFollower, EgoType
    <2> QED BY <1>0, <2>1 DEF EgoInv, EgoType, OwnInv, StreamsAsAsked
  <1>3. CASE Kill
    <2>1. /\ stage' = "down" /\ open' = {} /\ created' = FALSE /\ lost' = TRUE
          /\ UNCHANGED <<pull, follower, actor, session, touched>>
      BY <1>3 DEF Kill
    <2> QED BY <1>0, <2>1 DEF EgoInv, EgoType, OwnInv, StreamsAsAsked
  <1>4. CASE BecomesEditable
    <2>1. /\ actor \in Actor /\ actor' \in Actor /\ actor'.asset = actor.asset
          /\ actor'.by = actor.by /\ actor'.recording = actor.recording
          /\ actor'.settings = actor.settings
          /\ UNCHANGED <<pull, follower, stage, open, created, session, touched, lost>>
      BY <1>0, <1>4 DEF BecomesEditable, EgoType, Actor
    <2> QED BY <1>0, <2>1 DEF EgoInv, EgoType, OwnInv, StreamsAsAsked
  <1>5. CASE OtherClient
    <2>1. touched' = TRUE /\ UNCHANGED <<pull, follower, stage, open, created, session, lost>>
      BY <1>5 DEF OtherClient
    <2>2. CASE actor = NoActor /\ \E asset \in {"agent", "mujoco"} : actor' = Added(asset, "others")
      <3>1. actor' \in Actor /\ actor'.by = "others"
        BY <2>2, AddedType
      <3> QED BY <1>0, <2>1, <3>1 DEF EgoInv, EgoType, OwnInv, StreamsAsAsked
    <2>3. CASE actor' = NoActor
      BY <1>0, <2>1, <2>3 DEF EgoInv, EgoType, OwnInv, StreamsAsAsked
    <2>4. CASE Editable /\ \E on \in BOOLEAN :
                 actor' = [actor EXCEPT !.recording = on, !.settings = MaxSessions + 1]
      <3>1. actor \in Actor
        BY <1>0, <2>4 DEF Editable, EgoType
      <3>2. actor' \in Actor /\ actor'.asset = actor.asset /\ actor'.by = actor.by
        <4>1. PICK on \in BOOLEAN :
                 actor' = [actor EXCEPT !.recording = on, !.settings = MaxSessions + 1]
          BY <2>4
        <4>2. MaxSessions + 1 \in 0..MaxSessions + 1
          OBVIOUS
        <4> QED BY <3>1, <4>1, <4>2 DEF Actor
      <3> QED BY <1>0, <2>1, <3>1, <3>2 DEF EgoInv, EgoType, OwnInv, StreamsAsAsked
    <2> QED BY <1>5, <2>2, <2>3, <2>4 DEF OtherClient
  <1> QED BY <1>1, <1>2, <1>3, <1>4, <1>5

\* At the start no camera is ours.
LEMMA EgoStarts == EgoInit => EgoInv
  <1> SUFFICES ASSUME EgoInit PROVE EgoInv
    OBVIOUS
  <1>1. actor = NoActor \/ (actor \in Actor /\ actor.by = "others")
    <2>1. Added("agent", "others") \in Actor /\ Added("agent", "others").by = "others"
      BY AddedType
    <2>2. Added("mujoco", "others") \in Actor /\ Added("mujoco", "others").by = "others"
      BY AddedType
    <2>3. actor = NoActor \/ actor = Added("agent", "others") \/ actor = Added("mujoco", "others")
      BY DEF EgoInit
    <2> QED BY <2>1, <2>2, <2>3
  <1>2. /\ pull = FALSE /\ follower = "none" /\ stage = "down" /\ open = {} /\ created = FALSE
        /\ session = 0 /\ touched = FALSE /\ lost = FALSE
    BY DEF EgoInit
  <1>3. EgoType
    <2>1. pull \in BOOLEAN /\ created \in BOOLEAN /\ touched \in BOOLEAN /\ lost \in BOOLEAN
      BY <1>2
    <2>2. /\ follower \in {"none", "stream", "persistent"} /\ stage = "down"
          /\ session \in 0..MaxSessions /\ actor \in Actor \cup {NoActor}
      BY <1>1, <1>2, CameraAssumption
    <2> QED BY <2>1, <2>2 DEF EgoType
  <1>4. OwnInv /\ StreamsAsAsked
    BY <1>1, <1>2 DEF OwnInv, StreamsAsAsked
  <1> QED BY <1>2, <1>3, <1>4 DEF EgoInv

-----------------------------------------------------------------------------
(* Pictures.                                                               *)

\* A scene that shows the present step.
Shows(picture) == picture.robot = step /\ (bind => picture.camera = step)

\* A bridge that is not in use remembers nothing.
ClosedInv ==
    /\ pc = "closed" <=> stage # "ready"
    /\ pc = "closed" => /\ frame = NoFrame /\ writing = NoFile /\ files = NoFiles
                        /\ pendingStep = -1 /\ request = 0

\* Once a step has been pushed the scene shows it until the next push; during
\* a push the camera comes first.
PushInv ==
    /\ pendingStep <= step
    /\ pc \in {"poll", "reading"} => pendingStep = step
    /\ pc \in {"idle", "poll", "reading"} /\ pendingStep = step => Shows(scene)
    /\ pc \in {"render", "returned", "fence"} /\ bind => scene.camera = step
    /\ pc \in {"returned", "fence"} => scene.robot = step

\* What is published behind the fence shows the pushed step, if nothing was
\* under way when the fence was read.
StreamInv ==
    /\ pc = "poll" => (pull => request < MaxFrames)
    /\ pc \in {"follow", "render", "returned", "fence"} /\ capturing =>
           (pull => request < MaxFrames)
    /\ PipelineDepth = 0 /\ ~pull /\ pc \in {"idle", "poll"} /\ pendingStep = step
       /\ stream.id > baseline => Shows(stream.scene)

\* The file of the present request is written from the scene of its time, and
\* no later one exists.
FileInv ==
    /\ pc = "reading" => pull /\ request > 0
    /\ writing # NoFile => writing.index < request
    /\ \A i \in request..MaxFrames : files[i] = NoFile
    /\ pc = "reading" =>
           /\ writing # NoFile /\ writing.index = request - 1 => Shows(writing.scene)
           /\ files[request-1] # NoFile => Shows(files[request-1].scene)

FrameInv == pull \/ PipelineDepth = 0 => FrameShowsStep

BridgeInv == TypeOK /\ ClosedInv /\ PushInv /\ StreamInv /\ FileInv /\ FrameInv

IInv == EgoInv /\ BridgeInv

\* Nothing of the bridge changes but the bridge's own variables.
LEMMA EgoUntouched == ASSUME EgoInv, UNCHANGED egoVars PROVE EgoInv'
  BY DEF EgoInv, EgoType, OwnInv, StreamsAsAsked, egoVars

\* A bridge that is closed, or has just been, is in its first state.
FreshBridge ==
    /\ step = 0 /\ scene = Earlier /\ pipeline = EarlierFrames
    /\ stream = [id |-> 0, scene |-> Earlier]
    /\ files = NoFiles /\ request = 0 /\ writing = NoFile
    /\ pc = "closed" /\ capturing = FALSE /\ expired = FALSE
    /\ lastFrameId = -1 /\ pendingStep = -1 /\ baseline = -1
    /\ frame = NoFrame /\ stage # "ready"

\* The first state keeps the invariant of the bridge, ...
LEMMA FreshBridgeInv == FreshBridge => BridgeInv
  <1> USE RenderAssumption DEF FreshBridge
  <1> SUFFICES ASSUME FreshBridge PROVE BridgeInv
    OBVIOUS
  <1>1. TypeOK
    <2>1. scene \in Scene /\ stream \in Stream
      BY DEF Earlier, Scene, Stream, Pose
    <2>2. pipeline \in Seq(Scene) /\ Len(pipeline) = PipelineDepth
      BY <2>1 DEF EarlierFrames
    <2>3. files \in [0..MaxFrames -> File \cup {NoFile}]
      BY DEF NoFiles
    <2>4. capturing \in BOOLEAN /\ expired \in BOOLEAN
      OBVIOUS
    <2>5. /\ step \in Step /\ request \in 0..MaxFrames /\ lastFrameId \in FrameId
          /\ pendingStep \in Step \cup {-1} /\ baseline \in FrameId
      BY DEF Step, FrameId
    <2> QED BY <2>1, <2>2, <2>3, <2>4, <2>5 DEF TypeOK
  <1>2. ClosedInv /\ PushInv /\ StreamInv /\ FrameInv
    BY DEF ClosedInv, PushInv, StreamInv, FrameInv, FrameShowsStep
  <1>3. FileInv
    BY DEF FileInv, NoFiles
  <1> QED BY <1>1, <1>2, <1>3 DEF BridgeInv

\* ... and so does any later state that is like it.
LEMMA FreshBridgeNext == FreshBridge' => BridgeInv'
  BY FreshBridgeInv, PTL

\* The caller steps the physics, pushes, and asks for a picture.
LEMMA CallersStep == ASSUME IInv, PhysicsStep \/ PushState \/ Capture PROVE IInv'
  <1> USE RenderAssumption
  <1>0. /\ EgoInv /\ TypeOK /\ ClosedInv /\ PushInv /\ StreamInv /\ FileInv /\ FrameInv
        /\ pc = "idle" /\ step \in Nat /\ pendingStep \in Int
    BY DEF IInv, BridgeInv, PhysicsStep, PushState, Capture, TypeOK, Step
  <1>1. /\ UNCHANGED <<egoVars, scene, studioVars, lastFrameId, pendingStep, baseline, frame>>
        /\ pc' \in {"idle", "follow", "render", "poll"}
        /\ pc' \in {"poll", "idle"} => pendingStep' = step' \/ step' # step
        /\ pc' = "render" => ~bind
        /\ step' \in {step, step + 1} /\ step' \in Step
        /\ step' # step => pc' = "idle"
        /\ expired' \in BOOLEAN /\ capturing' \in BOOLEAN
        /\ pc' # "idle" /\ capturing' /\ pull => request < MaxFrames
        /\ pc' = "poll" => capturing'
    <2>1. CASE PhysicsStep
      BY <2>1, <1>0 DEF PhysicsStep, TypeOK, Step, fenceVars
    <2>2. CASE PushState
      BY <2>2, <1>0 DEF PushState, BeginPush, TypeOK, fenceVars
    <2>3. CASE Capture
      BY <2>3, <1>0 DEF Capture, BeginPush, AlreadyPushed, TypeOK, fenceVars
    <2> QED BY <2>1, <2>2, <2>3
  <1>2. bind' = bind /\ pull' = pull /\ stage' = stage
    BY <1>1 DEF egoVars, bind
  <1>3. TypeOK'
    BY <1>0, <1>1 DEF TypeOK, studioVars
  <1>4. ClosedInv' /\ FileInv'
    BY <1>0, <1>1, <1>2 DEF ClosedInv, FileInv, studioVars
  <1>5. PushInv' /\ StreamInv'
    BY <1>0, <1>1, <1>2 DEF PushInv, StreamInv, Shows, studioVars
  <1>6. FrameInv'
    BY <1>0, <1>1, <1>2 DEF FrameInv, FrameShowsStep
  <1>7. EgoInv'
    BY <1>0, <1>1, EgoUntouched
  <1> QED BY <1>3, <1>4, <1>5, <1>6, <1>7 DEF IInv, BridgeInv

\* A push, call by call.
LEMMA PushSteps ==
  ASSUME IInv, MoveCamera \/ UpdateRobot \/ RenderReturns \/ CallFails \/ EstablishFence
  PROVE  IInv'
  <1> USE RenderAssumption
  <1>0. /\ EgoInv /\ TypeOK /\ ClosedInv /\ PushInv /\ StreamInv /\ FileInv /\ FrameInv
        /\ pc \in {"follow", "render", "returned", "fence"} /\ step \in Step /\ step \in Nat
        /\ scene \in Scene
    BY DEF IInv, BridgeInv, MoveCamera, UpdateRobot, RenderReturns, CallFails, EstablishFence,
           TypeOK, Step
  <1>1. /\ UNCHANGED <<egoVars, step, studioVars, capturing, lastFrameId, frame>>
        /\ expired' \in BOOLEAN
        /\ pc' \in {"render", "returned", "fence", "failed", "idle", "poll"}
    BY <1>0 DEF MoveCamera, UpdateRobot, RenderReturns, CallFails, EstablishFence, fenceVars,
                TypeOK
  <1>2. bind' = bind /\ pull' = pull /\ stage' = stage
    BY <1>1 DEF egoVars, bind
  <1>3. EgoInv' /\ ClosedInv' /\ FileInv' /\ FrameInv'
    <2>1. pc = "fence" \/ pendingStep' = pendingStep
      BY DEF MoveCamera, UpdateRobot, RenderReturns, CallFails, EstablishFence, fenceVars
    <2>2. EgoInv'
      BY <1>0, <1>1, EgoUntouched
    <2>3. ClosedInv' /\ FileInv'
      BY <1>0, <1>1, <1>2 DEF ClosedInv, FileInv, studioVars
    <2>4. FrameInv'
      BY <1>0, <1>1, <1>2 DEF FrameInv, FrameShowsStep
    <2> QED BY <2>2, <2>3, <2>4
  <1>4. CASE EstablishFence
    <2>1. /\ pendingStep' = step /\ scene' = scene /\ pc = "fence"
          /\ pc' = (IF capturing THEN "poll" ELSE "idle")
          /\ baseline' = Fence
      BY <1>4 DEF EstablishFence
    <2>2. /\ stream.id \in 0..MaxFrames /\ lastFrameId \in FrameId
      BY <1>0 DEF TypeOK, Stream
    <2>3. baseline' \in FrameId /\ (~pull => stream.id <= baseline')
      BY <2>1, <2>2 DEF Fence, FrameId
    <2>4. TypeOK'
      BY <1>0, <1>1, <2>1, <2>3 DEF TypeOK, studioVars
    <2>5. PushInv'
      BY <1>0, <1>1, <1>2, <2>1 DEF PushInv, Shows
    <2>6. StreamInv'
      <3>1. ~(stream'.id > baseline') \/ pull'
        BY <1>1, <1>2, <2>2, <2>3 DEF studioVars, FrameId
      <3> QED BY <1>0, <1>1, <1>2, <2>1, <3>1 DEF StreamInv, studioVars
    <2> QED BY <1>3, <2>4, <2>5, <2>6 DEF IInv, BridgeInv
  <1>5. CASE MoveCamera \/ UpdateRobot \/ RenderReturns \/ CallFails
    <2>1. /\ UNCHANGED <<pendingStep, baseline>>
          /\ pc' \in {"render", "returned", "fence", "failed"}
          /\ pc' \in {"render", "returned", "fence"} /\ bind => scene'.camera = step
          /\ pc' \in {"returned", "fence"} => scene'.robot = step
          /\ scene' \in Scene
      <3>1. CASE MoveCamera
        BY <3>1, <1>0 DEF MoveCamera, fenceVars, Scene, Pose, Step
      <3>2. CASE UpdateRobot
        BY <3>2, <1>0 DEF UpdateRobot, PushInv, fenceVars, Scene, Pose, Step
      <3>3. CASE RenderReturns
        BY <3>3, <1>0 DEF RenderReturns, PushInv, fenceVars
      <3>4. CASE CallFails
        BY <3>4, <1>0 DEF CallFails, fenceVars
      <3> QED BY <1>5, <3>1, <3>2, <3>3, <3>4
    <2>2. TypeOK'
      BY <1>0, <1>1, <2>1 DEF TypeOK, studioVars
    <2>3. PushInv' /\ StreamInv'
      BY <1>0, <1>1, <1>2, <2>1 DEF PushInv, StreamInv, studioVars
    <2> QED BY <1>3, <2>2, <2>3 DEF IInv, BridgeInv
  <1> QED BY <1>4, <1>5

\* The stream publishes, and a poll finds a frame or gives up.
LEMMA StreamSteps ==
  ASSUME IInv, Publish \/ FrameReceived \/ StaleRenderFrame \/ Deadline
  PROVE  IInv'
  <1> USE RenderAssumption
  <1>0. /\ EgoInv /\ TypeOK /\ ClosedInv /\ PushInv /\ StreamInv /\ FileInv /\ FrameInv
        /\ step \in Step /\ scene \in Scene
    BY DEF IInv, BridgeInv, TypeOK
  <1>1. /\ UNCHANGED <<egoVars, step, scene, files, request, writing, capturing, pendingStep,
                       baseline>>
    BY DEF Publish, FrameReceived, StaleRenderFrame, Deadline, ReturnFrame, studioVars, fenceVars
  <1>2. bind' = bind /\ pull' = pull /\ stage' = stage
    BY <1>1 DEF egoVars, bind
  <1>3. EgoInv'
    BY <1>0, <1>1, EgoUntouched
  <1>4. CASE Publish
    <2>1. /\ UNCHANGED <<pc, expired, lastFrameId, frame>> /\ stage = "ready" /\ ~pull
          /\ stream.id < MaxFrames
          /\ stream' = [id |-> stream.id + 1, scene |-> Head(Append(pipeline, scene))]
          /\ pipeline' = Tail(Append(pipeline, scene))
      BY <1>4 DEF Publish, fenceVars
    <2>2. pipeline \in Seq(Scene) /\ Len(pipeline) = PipelineDepth /\ stream.id \in 0..MaxFrames
      BY <1>0 DEF TypeOK, Stream
    <2>3. /\ Append(pipeline, scene) \in Seq(Scene)
          /\ Len(Append(pipeline, scene)) = PipelineDepth + 1
      BY <1>0, <2>2
    <2>4. /\ pipeline' \in Seq(Scene) /\ Len(pipeline') = PipelineDepth
          /\ Head(Append(pipeline, scene)) \in Scene
      <3> DEFINE rendered == Append(pipeline, scene)
      <3>1. rendered \in Seq(Scene) /\ Len(rendered) = PipelineDepth + 1 /\ rendered # <<>>
        BY <2>3
      <3>2. pipeline' = Tail(rendered)
        BY <2>1
      <3> HIDE DEF rendered
      <3>3. Tail(rendered) \in Seq(Scene) /\ Len(Tail(rendered)) = Len(rendered) - 1
        BY <3>1
      <3>4. Head(rendered) \in Scene
        BY <3>1
      <3> QED BY <3>1, <3>2, <3>3, <3>4 DEF rendered
    <2>5. stream' \in Stream
      BY <2>1, <2>2, <2>4 DEF Stream
    <2>6. TypeOK'
      BY <1>0, <1>1, <2>1, <2>4, <2>5 DEF TypeOK
    <2>7. PipelineDepth = 0 => stream'.scene = scene
      <3> SUFFICES ASSUME PipelineDepth = 0 PROVE Head(Append(pipeline, scene)) = scene
        BY <2>1
      <3>1. Append(pipeline, scene)[1] = scene
        BY <2>2
      <3> QED BY <2>3, <3>1
    <2>8. ClosedInv' /\ PushInv' /\ FileInv' /\ FrameInv'
      BY <1>0, <1>1, <1>2, <2>1 DEF ClosedInv, PushInv, FileInv, FrameInv, FrameShowsStep, Shows
    <2>9. StreamInv'
      BY <1>0, <1>1, <1>2, <2>1, <2>7 DEF StreamInv, PushInv, Shows
    <2> QED BY <1>3, <2>6, <2>8, <2>9 DEF IInv, BridgeInv
  <1>5. CASE FrameReceived
    <2>1. /\ pc = "poll" /\ ~pull /\ stream.id > baseline /\ pc' = "idle"
          /\ frame' = [step |-> step, id |-> stream.id, scene |-> stream.scene]
          /\ lastFrameId' = stream.id /\ UNCHANGED <<pipeline, stream, expired>>
      BY <1>5 DEF FrameReceived, ReturnFrame, Fresh, studioVars
    <2>2. /\ frame' \in Frame /\ lastFrameId' \in FrameId
      BY <1>0, <2>1 DEF TypeOK, Stream, Frame, FrameId
    <2>3. TypeOK'
      BY <1>0, <1>1, <2>1, <2>2 DEF TypeOK
    <2>4. ClosedInv' /\ PushInv' /\ FileInv' /\ StreamInv'
      BY <1>0, <1>1, <1>2, <2>1 DEF ClosedInv, PushInv, FileInv, StreamInv, Shows
    <2>5. FrameInv'
      <3>1. frame'.step = step /\ frame'.scene = stream.scene
        BY <2>1
      <3>2. PipelineDepth = 0 => Shows(stream.scene)
        BY <1>0, <2>1 DEF StreamInv, PushInv
      <3> QED BY <1>2, <2>1, <3>1, <3>2 DEF FrameInv, FrameShowsStep, Shows
    <2> QED BY <1>3, <2>3, <2>4, <2>5 DEF IInv, BridgeInv
  <1>6. CASE StaleRenderFrame \/ Deadline
    <2>1. /\ UNCHANGED <<pipeline, stream, lastFrameId, frame>> /\ expired' \in BOOLEAN
          /\ pc \in {"poll", "reading"} /\ pc' \in {pc, "failed"}
      BY <1>0, <1>6 DEF StaleRenderFrame, Deadline, studioVars, fenceVars, TypeOK
    <2>2. TypeOK'
      BY <1>0, <1>1, <2>1 DEF TypeOK
    <2>3. ClosedInv' /\ PushInv' /\ FileInv' /\ StreamInv' /\ FrameInv'
      BY <1>0, <1>1, <1>2, <2>1 DEF ClosedInv, PushInv, FileInv, StreamInv, FrameInv,
                                    FrameShowsStep, Shows
    <2> QED BY <1>3, <2>2, <2>3 DEF IInv, BridgeInv
  <1> QED BY <1>4, <1>5, <1>6

\* A picture is asked for, written and read.
LEMMA FileSteps ==
  ASSUME IInv, RequestPicture \/ PictureRead \/ PictureFails \/ BeginWrite \/ EndWrite
  PROVE  IInv'
  <1> USE RenderAssumption, NoneAssumption
  <1>0. /\ EgoInv /\ TypeOK /\ ClosedInv /\ PushInv /\ StreamInv /\ FileInv /\ FrameInv
        /\ step \in Step /\ scene \in Scene /\ request \in 0..MaxFrames
        /\ files \in [0..MaxFrames -> File \cup {NoFile}]
    BY DEF IInv, BridgeInv, TypeOK
  <1>1. /\ UNCHANGED <<egoVars, step, scene, pipeline, stream, capturing, pendingStep, baseline>>
        /\ expired' \in BOOLEAN
    BY <1>0 DEF RequestPicture, PictureRead, PictureFails, BeginWrite, EndWrite, ReturnFrame,
                studioVars, fenceVars, TypeOK
  <1>2. bind' = bind /\ pull' = pull /\ stage' = stage
    BY <1>1 DEF egoVars, bind
  <1>3. EgoInv'
    BY <1>0, <1>1, EgoUntouched
  <1>4. CASE RequestPicture
    <2>1. /\ pc = "poll" /\ pull /\ pc' = "reading" /\ request' = request + 1
          /\ writing' = [index |-> request, scene |-> scene]
          /\ UNCHANGED <<files, lastFrameId, frame>> /\ request < MaxFrames
      BY <1>0, <1>4 DEF RequestPicture, ImageFile, fenceVars, StreamInv
    <2>2. writing' \in [index : 0..MaxFrames, scene : Scene] /\ request' \in 0..MaxFrames
      BY <1>0, <2>1
    <2>3. TypeOK'
      BY <1>0, <1>1, <2>1, <2>2 DEF TypeOK
    <2>4. ClosedInv' /\ PushInv' /\ StreamInv' /\ FrameInv'
      BY <1>0, <1>1, <1>2, <2>1 DEF ClosedInv, PushInv, StreamInv, FrameInv, FrameShowsStep, Shows
    <2>5. FileInv'
      <3>1. files[request] = NoFile
        BY <1>0 DEF FileInv
      <3>2. scene.robot = step' /\ (bind' => scene.camera = step')
        BY <1>0, <1>1, <1>2, <2>1 DEF PushInv, Shows
      <3>3. writing'.index < request' /\ request' - 1 = request /\ writing'.scene = scene
        BY <1>0, <2>1
      <3>4. \A i \in request'..MaxFrames : files'[i] = NoFile
        BY <1>0, <2>1 DEF FileInv
      <3>5. files'[request'-1] = NoFile
        BY <2>1, <3>1, <3>3
      <3>6. request' > 0 /\ pull'
        BY <1>0, <1>2, <2>1
      <3> QED BY <3>2, <3>3, <3>4, <3>5, <3>6 DEF FileInv, Shows
    <2> QED BY <1>3, <2>3, <2>4, <2>5 DEF IInv, BridgeInv
  <1>5. CASE PictureRead
    <2>1. /\ pc = "reading" /\ pc' = "idle" /\ files[request-1] # NoFile
          /\ frame' = [step |-> step, id |-> request - 1, scene |-> files[request-1].scene]
          /\ lastFrameId' = request - 1 /\ UNCHANGED <<files, request, writing>>
      BY <1>5 DEF PictureRead, ReturnFrame, PictureReady, ImageFile, studioVars
    <2>2. request > 0 /\ Shows(files[request-1].scene) /\ pull
      BY <1>0, <2>1 DEF FileInv
    <2>3. files[request-1] \in File /\ request - 1 \in FrameId
      BY <1>0, <2>1, <2>2 DEF FrameId
    <2>4. frame' \in Frame
      BY <1>0, <2>1, <2>3 DEF File, Frame
    <2>5. TypeOK'
      BY <1>0, <1>1, <2>1, <2>3, <2>4 DEF TypeOK
    <2>6. ClosedInv' /\ PushInv' /\ StreamInv' /\ FileInv'
      BY <1>0, <1>1, <1>2, <2>1, <2>2 DEF ClosedInv, PushInv, StreamInv, FileInv, Shows
    <2>7. FrameInv'
      <3>1. frame'.step = step /\ frame'.scene = files[request-1].scene
        BY <2>1
      <3> QED BY <1>2, <2>2, <3>1 DEF FrameInv, FrameShowsStep, Shows
    <2> QED BY <1>3, <2>5, <2>6, <2>7 DEF IInv, BridgeInv
  <1>6. CASE PictureFails
    <2>1. pc = "reading" /\ pc' = "failed"
          /\ UNCHANGED <<files, request, writing, lastFrameId, frame>>
      BY <1>6 DEF PictureFails, studioVars, fenceVars
    <2>2. TypeOK'
      BY <1>0, <1>1, <2>1 DEF TypeOK
    <2>3. ClosedInv' /\ PushInv' /\ StreamInv' /\ FileInv' /\ FrameInv'
      BY <1>0, <1>1, <1>2, <2>1 DEF ClosedInv, PushInv, StreamInv, FileInv, FrameInv,
                                    FrameShowsStep, Shows
    <2> QED BY <1>3, <2>2, <2>3 DEF IInv, BridgeInv
  <1>7. CASE BeginWrite \/ EndWrite
    <2> DEFINE w == writing.index
    <2>1. /\ writing # NoFile /\ w \in 0..MaxFrames /\ w < request /\ writing.scene \in Scene
          /\ UNCHANGED <<request, pc, expired, lastFrameId, frame>>
          /\ writing' \in {writing, NoFile}
      BY <1>0, <1>7 DEF BeginWrite, EndWrite, FileInv, TypeOK, fenceVars
    <2>2. \E file \in File : file.scene = writing.scene /\ files' = [files EXCEPT ![w] = file]
      <3>1. [scene |-> writing.scene, complete |-> FALSE] \in File
        BY <2>1 DEF File
      <3>2. CASE BeginWrite
        BY <3>1, <3>2 DEF BeginWrite, HalfWritten
      <3>3. CASE EndWrite
        <4>1. /\ files[w] = [scene |-> writing.scene, complete |-> FALSE]
              /\ files' = [files EXCEPT ![w] = [files[w] EXCEPT !.complete = TRUE]]
          BY <3>3 DEF EndWrite, HalfWritten
        <4>2. files[w] \in File /\ files[w].scene = writing.scene
          BY <3>1, <4>1
        <4>3. /\ [files[w] EXCEPT !.complete = TRUE] \in File
              /\ [files[w] EXCEPT !.complete = TRUE].scene = writing.scene
          BY <4>2 DEF File
        <4> QED BY <4>1, <4>3
      <3> QED BY <1>7, <3>2, <3>3
    <2>3. PICK file \in File : file.scene = writing.scene /\ files' = [files EXCEPT ![w] = file]
      BY <2>2
    <2> HIDE DEF w
    <2>5. /\ files' \in [0..MaxFrames -> File \cup {NoFile}] /\ files'[w] = file
          /\ \A i \in 0..MaxFrames : i # w => files'[i] = files[i]
      BY <1>0, <2>1, <2>3
    <2>6. TypeOK'
      BY <1>0, <1>1, <2>1, <2>5 DEF TypeOK
    <2>7. ClosedInv' /\ PushInv' /\ StreamInv' /\ FrameInv'
      <3>1. pc # "closed"
        BY <1>0, <2>1 DEF ClosedInv
      <3> QED BY <1>0, <1>1, <1>2, <2>1, <3>1 DEF ClosedInv, PushInv, StreamInv, FrameInv,
                                                  FrameShowsStep, Shows
    <2>8. FileInv'
      <3>1. \A i \in request..MaxFrames : files'[i] = NoFile
        BY <1>0, <2>1, <2>5 DEF FileInv
      <3>2. ASSUME pc = "reading", files'[request-1] # NoFile
            PROVE  Shows(files'[request-1].scene)
        <4>1. request - 1 \in 0..MaxFrames
          BY <1>0, <3>2 DEF FileInv
        <4>2. CASE w = request - 1
          BY <1>0, <2>1, <2>3, <2>5, <3>2, <4>2 DEF FileInv, w
        <4>3. CASE w # request - 1
          BY <1>0, <2>5, <3>2, <4>1, <4>3 DEF FileInv
        <4> QED BY <4>2, <4>3
      <3> QED BY <1>0, <1>1, <1>2, <2>1, <3>1, <3>2 DEF FileInv, Shows
    <2> QED BY <1>3, <2>6, <2>7, <2>8 DEF IInv, BridgeInv
  <1> QED BY <1>4, <1>5, <1>6, <1>7

\* A bridge is started; what the studio does to the actor leaves it alone.
LEMMA Starts == ASSUME IInv, StartBridge \/ BridgeReady \/ SceneStep PROVE IInv'
  <1>0. EgoInv /\ TypeOK /\ ClosedInv /\ PushInv /\ StreamInv /\ FileInv /\ FrameInv
    BY DEF IInv, BridgeInv
  <1>1. EgoInv'
    BY <1>0, StartKeepsEgo, OthersKeepEgo DEF StartBridge, BridgeReady, SceneStep
  <1>2. stage # "ready" /\ pc = "closed"
    BY <1>0 DEF StartBridge, StartSession, BridgeReady, StartStep, StartFails, Starting,
                QueryActor, AddActor, AddRaises, AddRefused, WaitForProperties, StopRecording,
                SetProperties, StartRecording, Verify, WaitForStream, StartCamera, SceneStep,
                ClosedInv
  <1>3. /\ UNCHANGED <<step, scene, studioVars, capturing, expired, fenceVars, frame>>
        /\ pc' = IF stage' = "ready" THEN "idle" ELSE "closed"
    <2>1. CASE BridgeReady
      BY <1>2, <2>1 DEF BridgeReady
    <2>2. CASE StartBridge \/ SceneStep
      BY <1>2, <2>2 DEF StartBridge, StartSession, SceneStep, BecomesEditable, OtherClient,
                        bridgeVars, studioVars, fenceVars
    <2> QED BY <2>1, <2>2
  <1>4. /\ frame = NoFrame /\ pendingStep = -1 /\ step \in Nat
    BY <1>0, <1>2 DEF ClosedInv, TypeOK, Step
  <1>5. TypeOK'
    BY <1>0, <1>3 DEF TypeOK, studioVars, fenceVars
  <1>6. ClosedInv' /\ PushInv' /\ StreamInv' /\ FileInv' /\ FrameInv'
    BY <1>0, <1>2, <1>3, <1>4 DEF ClosedInv, PushInv, StreamInv, FileInv, FrameInv,
                                  FrameShowsStep, Shows, studioVars, fenceVars
  <1> QED BY <1>1, <1>5, <1>6 DEF IInv, BridgeInv

\* A process ends, and with it its bridge.
LEMMA Ends == ASSUME IInv, Close \/ Dies PROVE IInv'
  <1>1. EgoInv'
    BY OthersKeepEgo DEF IInv, Close, Dies
  <1>2. stage' # "ready" /\ EndOfProcess
    BY DEF Close, CloseBridge, Shut, Dies, Kill
  <1>3. BridgeInv'
    BY <1>2, FreshBridgeNext DEF EndOfProcess, FreshBridge
  <1> QED BY <1>1, <1>3 DEF IInv

-----------------------------------------------------------------------------
(* The theorems.                                                           *)

\* The inductive invariant holds in every reachable state.
THEOREM RenderInvariance == Spec => []IInv
  <1>1. Init => IInv
    <2>1. Init => EgoInv /\ stage # "ready"
      BY EgoStarts DEF Init, EgoInit
    <2>2. Init => BridgeInv
      BY <2>1, FreshBridgeInv DEF Init, FreshBridge
    <2> QED BY <2>1, <2>2 DEF IInv
  <1>2. IInv /\ [Next]_vars => IInv'
    <2> SUFFICES ASSUME IInv, [Next]_vars PROVE IInv'
      OBVIOUS
    <2>1. CASE UNCHANGED vars
      <3>1. EgoInv'
        BY <2>1, EgoUntouched DEF IInv, vars
      <3>2. TypeOK' /\ ClosedInv' /\ PushInv' /\ StreamInv' /\ FileInv' /\ FrameInv'
        BY <2>1 DEF IInv, BridgeInv, TypeOK, ClosedInv, PushInv, StreamInv, FileInv, FrameInv,
                    FrameShowsStep, Shows, vars, egoVars, bridgeVars, bind
      <3> QED BY <3>1, <3>2 DEF IInv, BridgeInv
    <2>2. CASE BridgeStep
      BY <2>1, <2>2, PushSteps, StreamSteps, FileSteps DEF BridgeStep, PollAgain
    <2>3. CASE ~BridgeStep
      BY <2>1, <2>3, CallersStep, StreamSteps, FileSteps, Starts, Ends DEF Next, Closed
    <2> QED BY <2>2, <2>3
  <1> QED BY <1>1, <1>2, PTL DEF Spec

\* Every variable keeps its type.
THEOREM RenderTypeCorrect == Spec => []TypeOK
  BY RenderInvariance, PTL DEF IInv, BridgeInv

\* For any number of sessions and other clients: a bridge that is started
\* streams with the settings of its own session.
THEOREM StreamsWithOwnSettings == Spec => []StreamsAsAsked
  BY RenderInvariance, PTL DEF IInv, EgoInv

\* Wherever a session ends, no part stays open and no camera of ours stays.
THEOREM NoCameraIsLeft == Spec => []NothingIsLeft
  <1>1. IInv => NothingIsLeft
    BY DEF IInv, EgoInv, OwnInv, NothingIsLeft
  <1> QED BY <1>1, RenderInvariance, PTL

\* For any number of steps, frames and files: a picture that is pulled shows
\* its step, and so does one of the stream if frames are published when they
\* are rendered.
THEOREM PicturesShowTheirStep == Spec => [](pull \/ PipelineDepth = 0 => FrameShowsStep)
  <1>1. IInv => (pull \/ PipelineDepth = 0 => FrameShowsStep)
    BY DEF IInv, BridgeInv, FrameInv
  <1> QED BY <1>1, RenderInvariance, PTL
=============================================================================
