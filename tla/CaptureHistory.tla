--------------------------- MODULE CaptureHistory ---------------------------
(***************************************************************************)
(* The gateway's camera: a worker thread (CameraCaptureWorker) that reads  *)
(* frames and appends them to a shared history (JpegFrameHistory), and the *)
(* mission thread that waits for frames, samples eight of them for each    *)
(* decision and clears the history between two waypoints.                  *)
(*                                                                         *)
(* A frame is the sequence number it was given and the waypoint during     *)
(* which it was read.  The condition variable is modelled by its wait set: *)
(* a test of the history and the wait that follows it are one step, as are *)
(* an append and its notify_all.                                           *)
(***************************************************************************)
EXTENDS Integers, Sequences

CONSTANTS
    MaxFrames,      \* --max-history-frames; 0: unlimited
    WarmupFrames,   \* --camera-warmup-frames
    NumSlots,       \* NUM_VIDEO_FRAMES, 8 in the code
    FrameRetries,   \* --camera-frame-retries
    MaxErrors,      \* --camera-error-retries
    MaxSequence,    \* bound: frames the camera delivers
    MissionWaypoints,
    Black           \* a padding frame

ASSUME CaptureAssumption ==
    /\ MaxFrames \in Nat /\ WarmupFrames \in Nat \ {0}
    /\ NumSlots \in Nat /\ NumSlots > 1
    /\ FrameRetries \in Nat /\ MaxErrors \in Nat
    /\ MaxSequence \in Nat /\ MissionWaypoints \in Nat \ {0}

Frame == [sequence : Nat, waypoint : 1..MissionWaypoints]

ASSUME BlackAssumption == Black \notin Frame

VARIABLES
    frames, nextSequence,        \* the history
    worker, attempt, consecutive, image,
    error, stop,                 \* worker.error and its stop event
    main, expired,               \* the mission thread, and its deadline
    waypoint, sampled

historyVars == <<frames, nextSequence>>
workerVars  == <<worker, attempt, consecutive, image, error>>
mainVars    == <<main, expired, waypoint, sampled>>
captureVars == <<historyVars, workerVars, stop, mainVars>>

\* Every variable has its type, and the history its length.
CaptureType ==
    /\ frames \in Seq(Frame)
    /\ MaxFrames # 0 => Len(frames) <= MaxFrames
    /\ nextSequence \in 0..MaxSequence
    /\ worker \in {"test", "read", "append", "publish", "exited"}
    /\ attempt \in 0..FrameRetries
    /\ consecutive \in 0..MaxErrors + 1
    /\ image \in Frame \cup {Black}
    /\ error \in BOOLEAN /\ stop \in BOOLEAN
    /\ main \in {"wait", "asleep", "timed_out", "healthy", "sample", "decide",
                 "close", "join", "closed"}
    /\ expired \in BOOLEAN
    /\ waypoint \in 1..MissionWaypoints
    /\ sampled = <<>> \/ sampled \in [1..NumSlots -> Frame \cup {Black}]

\* The worker has been started, and the mission waits for its first frames.
CaptureInit ==
    /\ frames = <<>> /\ nextSequence = 0
    /\ worker = "test" /\ attempt = 0 /\ consecutive = 0 /\ image = Black
    /\ error = FALSE /\ stop = FALSE
    /\ main = "wait" /\ expired = FALSE /\ waypoint = 1 /\ sampled = <<>>

-----------------------------------------------------------------------------
(* The worker thread.                                                      *)

TestStop ==
    /\ worker = "test"
    /\ worker' = IF stop THEN "exited" ELSE "read"
    /\ attempt' = 0
    /\ UNCHANGED <<historyVars, consecutive, image, error, stop,
                   mainVars>>

ReadFrame ==
    /\ worker = "read" /\ nextSequence < MaxSequence
    /\ image' = [sequence |-> 0, waypoint |-> waypoint]
    /\ worker' = "append"
    /\ UNCHANGED <<historyVars, attempt, consecutive, error, stop,
                   mainVars>>

\* A bad sample is read again, up to FrameRetries times.
RetryRead ==
    /\ worker = "read" /\ attempt < FrameRetries
    /\ attempt' = attempt + 1
    /\ UNCHANGED <<historyVars, worker, consecutive, image, error, stop,
                   mainVars>>

\* Mutant of TooManyErrors: the last tolerated error is not tolerated.
AsManyErrors(n) == n >= MaxErrors

TooManyErrors(n) == n > MaxErrors

\* The read gives up: another cycle is dropped, or the worker dies.
ReadFails ==
    /\ worker = "read" /\ attempt = FrameRetries
    /\ consecutive' = consecutive + 1
    /\ IF TooManyErrors(consecutive')
       THEN error' = TRUE /\ stop' = TRUE /\ worker' = "exited"
       ELSE worker' = "test" /\ UNCHANGED <<error, stop>>
    /\ UNCHANGED <<historyVars, attempt, image, mainVars>>

\* The frame is encoded and numbered, outside the lock.
EncodeFrame ==
    /\ worker = "append"
    /\ image' = [image EXCEPT !.sequence = nextSequence]
    /\ worker' = "publish"
    /\ UNCHANGED <<historyVars, attempt, consecutive, error, stop,
                   mainVars>>

\* The newest max_frames frames.
Trim(s) ==
    IF MaxFrames # 0 /\ Len(s) > MaxFrames
    THEN SubSeq(s, Len(s) - MaxFrames + 1, Len(s))
    ELSE s

\* Whoever sleeps on the condition tests the history again.
NotifyAll == main' = IF main = "asleep" THEN "wait" ELSE main

PublishFrame ==
    /\ worker = "publish"
    /\ nextSequence' = nextSequence + 1
    /\ frames' = Trim(Append(frames, image))
    /\ NotifyAll
    /\ image' = Black
    /\ consecutive' = 0
    /\ worker' = "test"
    /\ UNCHANGED <<attempt, error, stop, expired, waypoint, sampled>>

-----------------------------------------------------------------------------
(* The mission thread.                                                     *)

EnoughFrames == Len(frames) >= WarmupFrames

\* wait_for, under the lock.
WaitFor ==
    /\ main = "wait"
    /\ main' = IF EnoughFrames THEN "healthy"
               ELSE IF expired THEN "timed_out" ELSE "asleep"
    /\ UNCHANGED <<historyVars, workerVars, stop, expired, waypoint, sampled>>

\* The deadline passes, and with it the wait on the condition.
Deadline ==
    /\ main \in {"wait", "asleep"}
    /\ expired' = TRUE /\ main' = "wait"
    /\ UNCHANGED <<historyVars, workerVars, stop, waypoint, sampled>>

\* The timeout is reported as the worker's error, or as its own.
ReportTimeout ==
    /\ main = "timed_out"
    /\ main' = "close"
    /\ UNCHANGED <<historyVars, workerVars, stop, expired, waypoint, sampled>>

\* Mutant of Healthy: a dead worker goes unnoticed.
AssumedHealthy == TRUE

Healthy == ~error

EnsureWorkerHealthy ==
    /\ main = "healthy"
    /\ main' = IF Healthy THEN "sample" ELSE "close"
    /\ UNCHANGED <<historyVars, workerVars, stop, expired, waypoint, sampled>>

\* Mutant of Padding: the black frames are put behind.
PadRight(s) == s \o [i \in 1..(NumSlots - Len(s)) |-> Black]

\* int(index * (len(frames) - 1) / 7), from one.
SlotIndex(i, n) == ((i - 1) * (n - 1)) \div (NumSlots - 1) + 1

Padding(s) == [i \in 1..(NumSlots - Len(s)) |-> Black] \o s

\* NumSlots - 1 uniform historical frames and the latest one; a short history
\* is padded with black frames on the left.
SampleFrames(s) ==
    IF Len(s) < NumSlots
    THEN Padding(s)
    ELSE [i \in 1..NumSlots |->
             IF i < NumSlots THEN s[SlotIndex(i, Len(s))] ELSE s[Len(s)]]

\* The simulator's choice: pad first, then take uniform frames and the latest.
SampleHistory(s) ==
    LET missing == IF Len(s) < NumSlots THEN NumSlots - Len(s) ELSE 0
        padded  == [i \in 1..missing |-> Black] \o s
        count   == Len(padded)
    IN  [i \in 1..NumSlots |->
            IF i = NumSlots THEN padded[count]
            ELSE padded[((i - 1) * (count - 1)) \div (NumSlots - 1) + 1]]

\* An empty history cannot be sampled: the ValueError ends the mission.
Sample ==
    /\ main = "sample"
    /\ IF frames = <<>>
       THEN main' = "close" /\ UNCHANGED sampled
       ELSE main' = "decide" /\ sampled' = SampleFrames(frames)
    /\ UNCHANGED <<historyVars, workerVars, stop, expired, waypoint>>

\* The decision is made and its motion driven; the images are released.
DecideAgain ==
    /\ main = "decide"
    /\ main' = "healthy" /\ sampled' = <<>>
    /\ UNCHANGED <<historyVars, workerVars, stop, expired, waypoint>>

\* Mutants of Cleared and of its sequence: the history survives, or starts to
\* count anew.
KeptFrames == frames
CountAnew == 0

Cleared == <<>>

SequenceAfterClear == nextSequence

\* The waypoint is complete: clear() and wait_for() again.
NextWaypoint ==
    /\ main = "decide" /\ waypoint < MissionWaypoints
    /\ waypoint' = waypoint + 1
    /\ frames' = Cleared /\ nextSequence' = SequenceAfterClear
    /\ main' = "wait" /\ expired' = FALSE /\ sampled' = <<>>
    /\ UNCHANGED <<workerVars, stop>>

MissionEnds ==
    /\ main = "decide"
    /\ main' = "close" /\ sampled' = <<>>
    /\ UNCHANGED <<historyVars, workerVars, stop, expired, waypoint>>

Close ==
    /\ main = "close"
    /\ stop' = TRUE /\ main' = "join"
    /\ UNCHANGED <<historyVars, workerVars, expired, waypoint, sampled>>

\* join() returns when the worker has gone, or after two seconds.
JoinReturns ==
    /\ main = "join"
    /\ main' = "closed"
    /\ UNCHANGED <<historyVars, workerVars, stop, expired, waypoint, sampled>>

CaptureFinished == main = "closed" /\ UNCHANGED captureVars

-----------------------------------------------------------------------------

WorkerStep == \/ TestStop \/ ReadFrame \/ RetryRead \/ ReadFails
              \/ EncodeFrame \/ PublishFrame

MissionThreadStep ==
    \/ WaitFor \/ ReportTimeout \/ EnsureWorkerHealthy \/ Sample
    \/ DecideAgain \/ NextWaypoint \/ MissionEnds
    \/ Close \/ JoinReturns

CaptureNext == WorkerStep \/ MissionThreadStep \/ Deadline \/ CaptureFinished

\* The mission thread goes on, and a deadline comes.  Nothing is assumed of
\* the camera: a read may block for ever.
CaptureSpec ==
    /\ CaptureInit /\ [][CaptureNext]_captureVars
    /\ WF_captureVars(MissionThreadStep) /\ WF_captureVars(Deadline)

-----------------------------------------------------------------------------
(* Properties.                                                             *)

\* After a waypoint is left behind only the first frame of the history may
\* still show it: the one that was being read while the history was cleared.
OnlyFirstFrameStale ==
    \A i \in DOMAIN frames : i > 1 => frames[i].waypoint = waypoint

\* The history has no gap and no repetition, whatever was trimmed or cleared
\* between the numbering of a frame and its publication.
HistoryIsContiguous ==
    \A i \in DOMAIN frames :
        i > 1 => frames[i].sequence = frames[i-1].sequence + 1

\* NaVILA is shown the same choice of frames on the robot as in the
\* simulator it was trained with (frames.py): unitree_gateway.py:246.
SampleMatchesSimulator ==
    [][main = "sample" /\ main' = "decide"
          => sampled' = SampleHistory(frames)]_captureVars

\* A camera that died is noticed: the mission comes to an end.
CameraDeathIsNoticed == error ~> main = "closed"
=============================================================================
