---------------------------- MODULE LandmarkScan ----------------------------
(***************************************************************************)
(* run_unitree_landmark_scan.py: the robot turns in place, takes a picture *)
(* of each heading, has a vision model name what is in them, and replaces  *)
(* the landmark map that the search plans from.  It may fail, be           *)
(* interrupted (Ctrl-C runs the finally block) or be terminated (SIGTERM   *)
(* does not: the script installs no handler).                              *)
(*                                                                         *)
(* External: the camera, the Sport controller and the vision model, whose  *)
(* answer may name views that were never taken.                            *)
(***************************************************************************)
EXTENDS Naturals, FiniteSets

CONSTANTS
    ViewCount,     \* --scan-views
    Names,         \* names (with their kind) of landmarks
    Grades,        \* the confidences the model may give
    Answers,       \* what it may answer: sets of landmarks
    MaxScans,      \* bound: scans in a behaviour
    NoMap

Landmarks == [name : Names, view : 0..ViewCount, confidence : Grades]

VARIABLES
    scan,          \* the number of the scan, 0 before the first
    at,            \* where it is
    armed,         \* --execute-actions
    controller,    \* the Sport controller was built
    motion,        \* what the robot does: "still" or "turning"
    error,         \* an exception is on its way to the finally block
    captured,      \* views taken
    found,         \* the landmarks of this scan
    landmarkMap,   \* the map file
    images,        \* the pictures on disk: <<scan, view>>
    failedStops    \* history: StopMoves that did not get through

scanVars == <<scan, at, armed, controller, motion, error, captured, found,
              landmarkMap, images, failedStops>>

Maps == [scan : Nat, views : SUBSET Nat, landmarks : SUBSET Landmarks]

ASSUME ScanAssumption ==
    /\ ViewCount \in Nat /\ ViewCount >= 2
    /\ Grades \subseteq Nat
    /\ Answers \subseteq SUBSET Landmarks
    /\ \A answer \in Answers : IsFiniteSet(answer)
    /\ MaxScans \in Nat
    /\ NoMap \notin Maps

ScanType ==
    /\ scan \in 0..MaxScans
    /\ at \in {"idle", "setup", "view", "brake", "capture", "describe",
               "publish", "cleanup", "ended", "terminated"}
    /\ armed \in BOOLEAN /\ controller \in BOOLEAN /\ error \in BOOLEAN
    /\ motion \in {"still", "turning"}
    /\ captured \in 0..ViewCount
    /\ found \subseteq Landmarks
    /\ landmarkMap \in Maps \cup {NoMap}
    /\ images \subseteq ((1..MaxScans) \X (0..ViewCount - 1))
    /\ failedStops \in Nat

ScanInit ==
    /\ scan = 0 /\ at = "idle" /\ armed = FALSE /\ controller = FALSE
    /\ motion = "still" /\ error = FALSE /\ captured = 0 /\ found = {}
    /\ failedStops = 0
    /\ landmarkMap = NoMap /\ images = {}

\* An exception leaves the try block.
Abort == at' = "cleanup" /\ error' = TRUE

StartScan ==
    /\ at \in {"idle", "ended"} /\ scan < MaxScans
    /\ scan' = scan + 1 /\ at' = "setup" /\ armed' \in BOOLEAN
    /\ UNCHANGED <<controller, motion, error, captured, found, landmarkMap, images,
                   failedStops>>

\* The camera, the controller if the motors are armed, and the warm-up frames.
Connect ==
    /\ at = "setup"
    /\ \/ at' = "view" /\ controller' = armed /\ UNCHANGED error
       \/ Abort /\ controller' \in {FALSE, armed}
    /\ UNCHANGED <<scan, armed, motion, captured, found, landmarkMap, images, failedStops>>

\* Every view but the first is turned to, by an armed robot.
TurnDue == captured > 0 /\ controller

\* SafeMotionExecutor.execute: Move until the deadline.  A Move that reports
\* a failure, or is interrupted, may have been obeyed.
Turn ==
    /\ at = "view" /\ TurnDue /\ at' = "brake"
    /\ \/ motion' = "turning" /\ UNCHANGED error
       \/ motion' \in {"still", "turning"} /\ error' = TRUE
    /\ UNCHANGED <<scan, armed, controller, captured, found, landmarkMap, images, failedStops>>

\* ... and its StopMove, whatever happened.
Brake ==
    /\ at = "brake"
    /\ \/ /\ motion' = "still" /\ UNCHANGED <<error, failedStops>>
          /\ at' = IF error THEN "cleanup" ELSE "capture"
       \/ /\ failedStops' = failedStops + 1 /\ UNCHANGED motion
          /\ Abort
    /\ UNCHANGED <<scan, armed, controller, captured, found, landmarkMap, images>>

\* The settled robot takes the picture and saves it in this scan's directory.
Capture ==
    /\ at = "capture" \/ (at = "view" /\ ~TurnDue)
    /\ \/ /\ images' = images \cup {<<scan, captured>>}
          /\ captured' = captured + 1
          /\ at' = IF captured + 1 = ViewCount THEN "describe" ELSE "view"
          /\ UNCHANGED error
       \/ Abort /\ UNCHANGED <<images, captured>>
    /\ UNCHANGED <<scan, armed, controller, motion, found, landmarkMap, failedStops>>

\* Mutant of Valid: any view the model names.
ValidAnyView(answer) == answer

\* describe_landmarks drops what names no view that was sent.
Valid(answer) == {l \in answer : l.view \in 0..ViewCount - 1}

\* _normalise_landmarks: of the sightings of one thing a most confident one.
Normalised(answer, chosen) ==
    /\ chosen \subseteq answer
    /\ \A l \in answer : \E c \in chosen : c.name = l.name /\ c.confidence >= l.confidence
    /\ \A c, d \in chosen : c.name = d.name => c = d

\* The vision model is asked, unless --skip-landmark-extraction: no landmarks.
Describe ==
    /\ at = "describe"
    /\ \/ /\ \E answer \in Answers \cup {{}} : \E chosen \in SUBSET Valid(answer) :
                /\ Normalised(Valid(answer), chosen)
                /\ found' = chosen
          /\ at' = "publish" /\ UNCHANGED error
       \/ Abort /\ UNCHANGED found
    /\ UNCHANGED <<scan, armed, controller, motion, captured, landmarkMap, images, failedStops>>

\* scan.json, then the map itself, each through a temporary file: a reader
\* sees the old map or the new one.
Publish ==
    /\ at = "publish"
    /\ \/ /\ landmarkMap' = [scan |-> scan, views |-> 0..captured - 1, landmarks |-> found]
          /\ at' = "cleanup" /\ UNCHANGED error
       \/ Abort /\ UNCHANGED landmarkMap
    /\ UNCHANGED <<scan, armed, controller, motion, captured, found, images, failedStops>>

\* What the process held in memory is gone with it.
Forgets ==
    /\ armed' = FALSE /\ controller' = FALSE /\ error' = FALSE
    /\ captured' = 0 /\ found' = {}

\* Mutant of CleanUp: only a scan that took all its views is stopped once more.
CleanUpIfComplete ==
    /\ at = "cleanup" /\ at' = "ended" /\ Forgets
    /\ motion' = IF captured = ViewCount THEN "still" ELSE motion
    /\ UNCHANGED <<scan, landmarkMap, images, failedStops>>

\* The finally block: one more StopMove, whose failure is only reported.
CleanUp ==
    /\ at = "cleanup" /\ at' = "ended" /\ Forgets
    /\ \/ motion' = (IF controller THEN "still" ELSE motion) /\ UNCHANGED failedStops
       \/ controller /\ failedStops' = failedStops + 1 /\ UNCHANGED motion
    /\ UNCHANGED <<scan, landmarkMap, images>>

\* SIGTERM: nothing is cleaned up.
TerminateScan ==
    /\ at \notin {"idle", "ended", "terminated"}
    /\ at' = "terminated" /\ Forgets
    /\ UNCHANGED <<scan, motion, landmarkMap, images, failedStops>>

ScanNext ==
    \/ StartScan \/ Connect \/ Turn \/ Brake \/ Capture
    \/ Describe \/ Publish \/ CleanUp \/ TerminateScan

-----------------------------------------------------------------------------
(* A scan that ends in any way but SIGTERM (which nothing handles) leaves  *)
(* the robot still, unless two StopMoves did not get through: the one of   *)
(* execute() and the one of the finally block back each other up.          *)
ScanEndsStill == (at = "ended" /\ failedStops <= 1) => motion = "still"
=============================================================================
