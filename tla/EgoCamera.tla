----------------------------- MODULE EgoCamera -----------------------------
(***************************************************************************)
(* Starting and closing the render bridge (OrcaLabRenderBridge) and its    *)
(* ego camera: a renderer, a follower that finds, creates and configures   *)
(* the camera actor in OrcaLab's scene, and a camera that reads pictures.  *)
(* OrcaEgoCameraFollower configures a streaming actor and leaves it in the *)
(* scene; OrcaMujocoCameraFollower wants another asset without properties  *)
(* and removes the actor if it has created it.  Both use one name.         *)
(*                                                                         *)
(* Sessions follow one another; a killed one leaves what it did to the     *)
(* scene.  The scene, and other clients that use that name, are external.  *)
(***************************************************************************)
EXTENDS Naturals

CONSTANTS
    NoActor,
    MaxSessions, MaxOthers,   \* bounds: our sessions, other clients' steps
    MaxPolls                  \* attempts of _wait_for_property_groups

ASSUME CameraAssumption == {MaxSessions, MaxOthers, MaxPolls} \subseteq Nat

VARIABLES
    pull,          \* pull_capture: PNGs, and not a stream
    follower,      \* which follower is used, if any (bind_camera)
    stage,         \* of the session's start
    open,          \* the parts that are open
    created,       \* _created_actor
    polls,
    actor,         \* the actor of that name in the scene
    session, others,   \* counters
    touched,       \* history: another client used the actor since it was verified
    lost           \* history: a session was killed, or a call failed, unseen by it

egoVars == <<pull, follower, stage, open, created, polls, actor, session,
             others, touched, lost>>

\* What OrcaLab keeps of an actor; settings are those of a session, or others.
Actor == [asset : {"agent", "mujoco"}, by : {"us", "others"}, editable : BOOLEAN,
          recording : BOOLEAN, settings : 0..MaxSessions + 1]

ASSUME ActorAssumption == NoActor \notin Actor

bind == follower # "none"

\* An actor as it is added: its properties can be edited a little later, those
\* of a mujoco actor never.
Added(asset, by) == [asset |-> asset, by |-> by, editable |-> FALSE,
                     recording |-> FALSE, settings |-> 0]

AssetOf == IF follower = "stream" THEN "agent" ELSE "mujoco"

EgoInit ==
    /\ pull = FALSE /\ follower = "none"
    /\ stage = "down" /\ open = {} /\ created = FALSE /\ polls = 0
    /\ actor \in {NoActor, Added("agent", "others"), Added("mujoco", "others")}
    /\ session = 0 /\ others = 0 /\ touched = FALSE /\ lost = FALSE

-----------------------------------------------------------------------------
(* start: the renderer, the follower, the camera.                          *)

\* A new process: --camera-transport and --orcalab-camera-mode name the camera
\* and its follower.
StartSession ==
    /\ stage = "down" /\ session < MaxSessions
    /\ session' = session + 1
    /\ pull' \in BOOLEAN
    /\ follower' \in {"none", "stream"} \cup (IF pull' THEN {"persistent"} ELSE {})
    /\ open' = {"renderer"}
    /\ stage' = IF follower' = "none" THEN "camera" ELSE "query"
    /\ polls' = 0
    /\ UNCHANGED <<created, actor, others, touched, lost>>

\* Mutant of Cleared: what start had not stored on the bridge is not closed.
ClearedStored(parts) == {}

\* The handler of start stops the camera and closes follower and renderer.
Cleared(parts) == parts

\* follower.close(): the actor goes if this follower has created it; the
\* failure of that call is ignored.
CloseFollower ==
    /\ created' = FALSE
    /\ \/ created /\ actor' = NoActor /\ UNCHANGED lost
       \/ created /\ UNCHANGED actor /\ lost' = TRUE
       \/ ~created /\ UNCHANGED <<actor, lost>>

Shut(closed) ==
    /\ CloseFollower
    /\ open' = open \ closed
    /\ stage' = "down"

Starting == stage \notin {"down", "ready"}

\* The service is out of reach, refuses, or a call raises.
StartFails ==
    /\ Starting
    /\ Shut(Cleared(open))
    /\ UNCHANGED <<pull, follower, polls, session, others, touched>>

\* The property groups of the actor; an empty answer is an answer.
QueryActor ==
    /\ stage \in {"query", "requery"}
    /\ open' = open \cup {"follower"}
    /\ \/ /\ actor # NoActor
          /\ stage' = IF follower = "persistent" THEN "camera" ELSE "configure"
       \/ stage = "query" /\ stage' = "add"
    /\ UNCHANGED <<pull, follower, created, polls, actor, session, others, touched, lost>>

\* add_actor_batch; a name that is taken is refused.
AddActor ==
    /\ stage = "add" /\ actor = NoActor
    /\ actor' = Added(AssetOf, "us")
    /\ created' = (follower = "persistent")
    /\ stage' = IF follower = "persistent" THEN "camera" ELSE "wait"
    /\ UNCHANGED <<pull, follower, open, polls, session, others, touched, lost>>

\* The actor is added and the answer is lost.
AddRaises ==
    /\ stage = "add" /\ actor = NoActor
    /\ actor' = Added(AssetOf, "us")
    /\ lost' = TRUE
    /\ open' = open \ Cleared(open)
    /\ stage' = "down"
    /\ UNCHANGED <<pull, follower, created, polls, session, others, touched>>

\* Somebody has created the actor since it was looked for, say: the stream's
\* follower looks again, the persistent one does not read the answer and takes
\* the actor for its own.
AddRefused ==
    /\ stage = "add"
    /\ stage' = IF follower = "stream" THEN "requery" ELSE "camera"
    /\ created' = (follower = "persistent")
    /\ UNCHANGED <<pull, follower, open, polls, actor, session, others, touched, lost>>

Editable == actor # NoActor /\ actor.editable

MaySpawn == polls < MaxPolls

WaitForProperties ==
    /\ stage = "wait"
    /\ \/ Editable /\ stage' = "configure" /\ UNCHANGED polls
       \/ ~Editable /\ MaySpawn /\ polls' = (polls + 1) % (MaxPolls + 1) /\ UNCHANGED stage
    /\ UNCHANGED <<pull, follower, open, created, actor, session, others, touched, lost>>

\* _configure_camera: the recording is stopped, since most changes are
\* refused while it runs, ...
StopRecording ==
    /\ stage = "configure" /\ Editable
    /\ actor' = [actor EXCEPT !.recording = FALSE]
    /\ stage' = "set"
    /\ UNCHANGED <<pull, follower, open, created, polls, session, others, touched, lost>>

SetProperties ==
    /\ stage = "set" /\ Editable
    /\ actor' = IF actor.recording THEN actor ELSE [actor EXCEPT !.settings = session]
    /\ stage' = "record"
    /\ UNCHANGED <<pull, follower, open, created, polls, session, others, touched, lost>>

StartRecording ==
    /\ stage = "record" /\ Editable
    /\ actor' = [actor EXCEPT !.recording = TRUE]
    /\ stage' = "verify"
    /\ UNCHANGED <<pull, follower, open, created, polls, session, others, touched, lost>>

\* Mutant of AsAsked: only that it records is verified.
AsAskedToRecord == actor.recording

AsAsked == actor.recording /\ actor.settings = session

\* ... size and port are set, the recording is started, and all is read back.
Verify ==
    /\ stage = "verify" /\ Editable /\ AsAsked
    /\ stage' = (IF pull THEN "camera" ELSE "stream") /\ touched' = FALSE
    /\ UNCHANGED <<pull, follower, open, created, polls, actor, session, others, lost>>

\* wait_for_stream: whoever listens on the stream's port, before a deadline.
WaitForStream ==
    /\ stage = "stream"
    /\ stage' = "camera"
    /\ UNCHANGED <<pull, follower, open, created, polls, actor, session, others, touched, lost>>

\* camera.start: a service of its own, which has to greet, or the stream.
StartCamera ==
    /\ stage = "camera"
    /\ open' = open \cup {"camera"}
    /\ stage' = "ready" /\ polls' = 0
    /\ UNCHANGED <<pull, follower, created, actor, session, others, touched, lost>>

StartStep ==
    \/ StartFails \/ QueryActor \/ AddActor \/ AddRaises \/ AddRefused
    \/ WaitForProperties \/ StopRecording \/ SetProperties \/ StartRecording
    \/ Verify \/ WaitForStream \/ StartCamera

\* close of a bridge that was started.
CloseBridge ==
    /\ stage = "ready"
    /\ Shut(open)
    /\ UNCHANGED <<pull, follower, polls, session, others, touched>>

\* The process dies with all its connections.
Kill ==
    /\ stage # "down"
    /\ stage' = "down" /\ open' = {} /\ created' = FALSE
    /\ lost' = TRUE
    /\ UNCHANGED <<pull, follower, polls, actor, session, others, touched>>

-----------------------------------------------------------------------------
(* The scene and the other clients of that name.                           *)

BecomesEditable ==
    /\ actor # NoActor /\ actor.asset = "agent" /\ ~actor.editable
    /\ actor' = [actor EXCEPT !.editable = TRUE]
    /\ UNCHANGED <<pull, follower, stage, open, created, polls, session,
                   others, touched, lost>>

OtherClient ==
    /\ others < MaxOthers /\ others' = others + 1
    /\ touched' = TRUE
    /\ \/ actor = NoActor /\ \E asset \in {"agent", "mujoco"} : actor' = Added(asset, "others")
       \/ actor # NoActor /\ actor.by = "others" /\ actor' = NoActor
       \/ /\ Editable
          /\ \E on \in BOOLEAN :
                actor' = [actor EXCEPT !.recording = on, !.settings = MaxSessions + 1]
    /\ UNCHANGED <<pull, follower, stage, open, created, polls, session, lost>>

-----------------------------------------------------------------------------
(* A bridge that says it is started has a camera that streams with the     *)
(* settings of this very session, whatever an earlier one left and whoever *)
(* came between, unless another client touched it after it was verified    *)
(* (_configure_camera).                                                    *)
StreamsAsAsked ==
    stage \in {"stream", "camera", "ready"} /\ follower = "stream" /\ ~touched =>
        actor # NoActor /\ actor.recording /\ actor.settings = session

(* Wherever a session ends, its parts are closed and no camera that a      *)
(* persistent follower created stays in the scene, except after a kill or  *)
(* a call that failed (start's handler, close).                            *)
NothingIsLeft ==
    stage = "down" =>
        /\ open = {}
        /\ actor # NoActor /\ actor.asset = "mujoco" /\ actor.by = "us" => lost
=============================================================================
