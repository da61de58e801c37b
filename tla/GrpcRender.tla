----------------------------- MODULE GrpcRender -----------------------------
(***************************************************************************)
(* render/grpc_bridge.py: the render bridges of several programs and one   *)
(* ProgrammableRenderServer. A bridge pushes the state of its physics as   *)
(* an RPC with a time-out, checks the step and the token of the frame that *)
(* comes back, and keeps it for the captures of the same step. The server  *)
(* renders in a pool of threads and numbers its frames under a lock.       *)
(*                                                                         *)
(* External: gRPC, which gives an RPC its own response or an error and     *)
(* lets the handler of a cancelled RPC run on; the engine behind the       *)
(* callback, which may answer with an older frame of its own or raise; and *)
(* whoever starts the server again on its port.                            *)
(***************************************************************************)
EXTENDS Naturals, Integers, FiniteSets

CONSTANTS
    Bridges, Nothing,
    Workers,      \* max_workers
    MaxRpcs,     \* bound: RPCs of all bridges together
    MaxStep,      \* bound: physics steps
    MaxRestarts   \* bound: restarts of the server

ASSUME RenderAssumption ==
    /\ Workers \in Nat \ {0}
    /\ MaxRpcs \in Nat /\ MaxStep \in Nat /\ MaxRestarts \in Nat
    /\ Nothing \notin Int

VARIABLES
    step,      \* the step of each caller's state
    latest,    \* _latest_frame
    last,      \* _last_frame_id
    waits,     \* the RPC each bridge waits for
    wants,     \* what the caller asked for: to push or to capture
    shown,     \* the frame the caller was given last
    requests,     \* RPCs made so far
    rpc,       \* the RPCs
    frameId,   \* _frame_id of the server
    restarts

renderVars == <<step, latest, last, waits, wants, shown, requests, rpc, frameId, restarts>>

RpcIds == 1..MaxRpcs
Steps == 0..MaxStep
Frame == [step : Steps, token : RpcIds]

\* An RPC: the state that was pushed, how far the server is with it, the step
\* of the picture it made, the frame number it gave it.
Rpc == [step : Steps, at : {"none", "queued", "render", "number", "sent", "failed"},
        pictured : Steps, token : RpcIds \cup {0}]
NoRpc == [step |-> 0, at |-> "none", pictured |-> 0, token |-> 0]

RenderType ==
    /\ step \in [Bridges -> Steps]
    /\ latest \in [Bridges -> Frame \cup {Nothing}]
    /\ last \in [Bridges -> RpcIds \cup {-1}]
    /\ waits \in [Bridges -> RpcIds \cup {Nothing}]
    /\ wants \in [Bridges -> {"push", "capture"}]
    /\ shown \in [Bridges -> Frame \cup {Nothing}]
    /\ requests \in 0..MaxRpcs
    /\ rpc \in [RpcIds -> Rpc]
    /\ frameId \in 0..MaxRpcs
    /\ restarts \in 0..MaxRestarts

RenderInit ==
    /\ step = [c \in Bridges |-> 0]
    /\ latest = [c \in Bridges |-> Nothing]
    /\ last = [c \in Bridges |-> -1]
    /\ waits = [c \in Bridges |-> Nothing]
    /\ wants = [c \in Bridges |-> "push"]
    /\ shown = [c \in Bridges |-> Nothing]
    /\ requests = 0 /\ frameId = 0 /\ restarts = 0
    /\ rpc = [n \in RpcIds |-> NoRpc]

-----------------------------------------------------------------------------
(* The bridge's side. *)

Physics(c) ==
    /\ waits[c] = Nothing /\ step[c] < MaxStep
    /\ step' = [step EXCEPT ![c] = @ + 1]
    /\ UNCHANGED <<latest, last, waits, wants, shown, requests, rpc, frameId, restarts>>

\* _request_frame, up to the RPC.
Request(c, want) ==
    /\ waits[c] = Nothing /\ requests < MaxRpcs
    /\ requests' = requests + 1
    /\ waits' = [waits EXCEPT ![c] = requests + 1]
    /\ wants' = [wants EXCEPT ![c] = want]
    /\ rpc' = [rpc EXCEPT ![requests + 1] = [NoRpc EXCEPT !.step = step[c], !.at = "queued"]]
    /\ UNCHANGED <<step, latest, last, shown, frameId, restarts>>

PushState(c) == Request(c, "push")

HasAny(c) == latest[c] # Nothing
\* The frame at hand is of the caller's step.
HasFrame(c) == latest[c] # Nothing /\ latest[c].step = step[c]

\* capture: the frame at hand, or the frame of a push.
Capture(c) ==
    \/ /\ waits[c] = Nothing /\ HasFrame(c)
       /\ shown' = [shown EXCEPT ![c] = latest[c]]
       /\ UNCHANGED <<step, latest, last, waits, wants, requests, rpc, frameId, restarts>>
    \/ ~HasFrame(c) /\ Request(c, "capture")

\* The end of a call, with nothing changed in the bridge when it failed.
CallEnded(c) ==
    /\ waits' = [waits EXCEPT ![c] = Nothing]
    /\ UNCHANGED <<step, wants, requests, frameId, restarts>>
CallFailed(c) == CallEnded(c) /\ UNCHANGED <<latest, last, shown, rpc>>

RightStep(n) == rpc[n].pictured = rpc[n].step
AnyToken(c, n) == TRUE
NewToken(c, n) == rpc[n].token > last[c]
FrameOf(n) == [step |-> rpc[n].pictured, token |-> rpc[n].token]

\* The response: a frame of the step that was pushed, with a token newer than
\* any before.
Accepted(c) ==
    LET n == waits[c] IN
    /\ n # Nothing /\ rpc[n].at = "sent"
    /\ RightStep(n) /\ NewToken(c, n)
    /\ last' = [last EXCEPT ![c] = rpc[n].token]
    /\ latest' = [latest EXCEPT ![c] = FrameOf(n)]
    /\ shown' = IF wants[c] = "capture" THEN [shown EXCEPT ![c] = FrameOf(n)] ELSE shown
    /\ CallEnded(c) /\ UNCHANGED rpc

\* GrpcRenderError of another step, StaleGrpcFrameError of an older token.
Rejected(c) ==
    LET n == waits[c] IN
    /\ n # Nothing /\ rpc[n].at = "sent"
    /\ ~(RightStep(n) /\ NewToken(c, n))
    /\ CallFailed(c)

\* An abort of the handler or a server that is gone.
RpcError(c) == waits[c] # Nothing /\ rpc[waits[c]].at = "failed" /\ CallFailed(c)

\* The deadline of the RPC; the handler is not stopped by it.
RpcTimesOut(c) == waits[c] # Nothing /\ rpc[waits[c]].at # "sent" /\ CallFailed(c)

-----------------------------------------------------------------------------
(* The server's side. *)

bridgeSide == <<step, latest, last, waits, wants, shown, requests>>

Busy == {n \in RpcIds : rpc[n].at \in {"render", "number"}}

\* A thread of the pool takes an RPC; a queued one whose caller left is dropped.
Start(n) ==
    /\ rpc[n].at = "queued" /\ Cardinality(Busy) < Workers
    /\ \/ rpc' = [rpc EXCEPT ![n].at = "render"]
       \/ (\A c \in Bridges : waits[c] # n) /\ rpc' = [rpc EXCEPT ![n].at = "failed"]
    /\ UNCHANGED <<bridgeSide, frameId, restarts>>

\* The callback, outside the lock: a picture of the state that was pushed, a
\* frame of the engine's own that may be older, or an exception.
Render(n) ==
    /\ rpc[n].at = "render"
    /\ \/ \E s \in 0..rpc[n].step :
             rpc' = [rpc EXCEPT ![n].at = "number", ![n].pictured = s]
       \/ rpc' = [rpc EXCEPT ![n].at = "failed"]
    /\ UNCHANGED <<bridgeSide, frameId, restarts>>

\* The counter under the lock, and the response.
Number(n) ==
    /\ rpc[n].at = "number"
    /\ frameId' = frameId + 1
    /\ rpc' = [rpc EXCEPT ![n].at = "sent", ![n].token = frameId + 1]
    /\ UNCHANGED <<bridgeSide, restarts>>

\* The server is stopped and started again: its counter starts anew and what
\* it had accepted is lost.
RestartServer ==
    /\ restarts < MaxRestarts
    /\ restarts' = restarts + 1 /\ frameId' = 0
    /\ rpc' = [n \in RpcIds |-> IF rpc[n].at \in {"queued", "render", "number"}
                             THEN [rpc[n] EXCEPT !.at = "failed"] ELSE rpc[n]]
    /\ UNCHANGED bridgeSide

-----------------------------------------------------------------------------
RenderNext ==
    \/ \E c \in Bridges :
          \/ Physics(c) \/ PushState(c) \/ Capture(c)
          \/ Accepted(c) \/ Rejected(c) \/ RpcError(c) \/ RpcTimesOut(c)
    \/ \E n \in RpcIds : Start(n) \/ Render(n) \/ Number(n)
    \/ RestartServer

RenderSpec == RenderInit /\ [][RenderNext]_renderVars

-----------------------------------------------------------------------------
\* The frame a capture gives is of the step the caller is at, also when earlier
\* pushes failed, timed out or brought an older frame.
CaptureShowsStep ==
    [][\A c \in Bridges : shown'[c] # shown[c] => shown'[c].step = step[c]]_renderVars

\* A bridge never takes a picture for newer that is not: across failures and
\* restarts of the server its tokens only grow, and with them the step.
FramesAdvance ==
    [][\A c \in Bridges : latest'[c] # latest[c] /\ latest[c] # Nothing =>
          /\ latest'[c].token > latest[c].token
          /\ latest'[c].step >= latest[c].step]_renderVars
=============================================================================
