--------------------------- MODULE ServiceProofs ---------------------------
(***************************************************************************)
(* The services that the missions call: the NaVILA server and its callers  *)
(* (VlmLink), the render server and its bridges (GrpcRender), and the      *)
(* script that starts and stops them (DevStack), each for any number of    *)
(* callers, of calls, of processes and of failures.                        *)
(***************************************************************************)
EXTENDS VlmLink, GrpcRender, DevStack, FiniteSetTheorems, TLAPS

-----------------------------------------------------------------------------
(* GrpcRender.  The two action properties rest on what a bridge remembers  *)
(* between its calls; that the frame counter keeps its type rests on a     *)
(* count: every number it gave went to another RPC.                        *)

\* A bridge waits for an RPC of its own step: physics does not go on meanwhile.
WaitInv ==
    \A c \in Bridges : waits[c] # Nothing =>
        waits[c] \in 1..requests /\ rpc[waits[c]].step = step[c]

\* The last token is that of the frame at hand, which is not of the future.
LatestInv ==
    \A c \in Bridges : latest[c] # Nothing =>
        latest[c].token = last[c] /\ latest[c].step <= step[c]

\* An RPC that nobody made is nowhere.
UnusedInv == \A n \in RpcIds : n > requests => rpc[n] = NoRpc

\* The numbers given since the last restart were all given to someone.
Numbered == {n \in RpcIds : rpc[n].at = "sent"}
CountInv == frameId <= Cardinality(Numbered)
TokenInv == \A n \in Numbered : rpc[n].token # 0

RenderInv == RenderType /\ WaitInv /\ LatestInv /\ UnusedInv /\ CountInv /\ TokenInv

\* At most MaxRpcs RPCs have a number, and one that gets its number is new.
LEMMA NumberedIsFinite ==
  IsFiniteSet(Numbered) /\ Cardinality(Numbered) \in Nat
  <1>1. IsFiniteSet(RpcIds)
    BY RenderAssumption, FS_Interval DEF RpcIds
  <1> QED BY <1>1, FS_Subset, FS_CardinalityType DEF Numbered

LEMMA NumberedIsBounded ==
  ASSUME NEW S \in SUBSET RpcIds
  PROVE  IsFiniteSet(S) /\ Cardinality(S) \in 0..MaxRpcs
  <1>1. IsFiniteSet(RpcIds) /\ Cardinality(RpcIds) = MaxRpcs
    BY RenderAssumption, FS_Interval DEF RpcIds
  <1>2. IsFiniteSet(S) /\ Cardinality(S) <= Cardinality(RpcIds)
    BY <1>1, FS_Subset
  <1>3. Cardinality(S) \in Nat
    BY <1>2, FS_CardinalityType
  <1> QED BY <1>1, <1>2, <1>3, RenderAssumption

\* The invariant holds before the first physics step.
LEMMA RenderStarts == RenderInit => RenderInv
  <1> SUFFICES ASSUME RenderInit PROVE RenderInv
    OBVIOUS
  <1>1. RenderType
    BY RenderAssumption
    DEF RenderInit, RenderType, Steps, Frame, Rpc, NoRpc, RpcIds
  <1>2. WaitInv /\ LatestInv /\ UnusedInv /\ TokenInv
    BY DEF RenderInit, WaitInv, LatestInv, UnusedInv, TokenInv, Numbered, NoRpc
  <1>3. CountInv
    BY NumberedIsFinite DEF RenderInit, CountInv
  <1> QED BY <1>1, <1>2, <1>3 DEF RenderInv

\* A new RPC takes an identity that was never used.
LEMMA RequestKeeps ==
  ASSUME RenderInv, NEW c \in Bridges, NEW want \in {"push", "capture"},
         Request(c, want)
  PROVE  RenderInv'
  <1> USE RenderAssumption
  <1> DEFINE n == requests + 1
  <1>1. n \in RpcIds /\ n \in 1..requests' /\ requests' = n /\ requests \in Nat
    BY DEF Request, RenderInv, RenderType, RpcIds
  <1>2. rpc' = [rpc EXCEPT ![n] = [NoRpc EXCEPT !.step = step[c], !.at = "queued"]]
    BY DEF Request
  <1>3. RenderType'
    <2>1. [NoRpc EXCEPT !.step = step[c], !.at = "queued"] \in Rpc
      <3>1. NoRpc \in Rpc
        BY DEF NoRpc, Rpc, Steps
      <3>2. step[c] \in Steps
        BY DEF RenderInv, RenderType
      <3> QED BY <3>1, <3>2 DEF Rpc
    <2> QED BY <1>1, <1>2, <2>1 DEF Request, RenderInv, RenderType
  <1>4. /\ rpc'[n].step = step[c] /\ rpc'[n].at = "queued"
        /\ \A k \in RpcIds : k # n => rpc'[k] = rpc[k]
    BY <1>1, <1>2 DEF RenderInv, RenderType, NoRpc
  <1>5. WaitInv'
    BY <1>1, <1>4 DEF Request, RenderInv, RenderType, WaitInv, RpcIds
  <1>6. LatestInv'
    BY DEF Request, RenderInv, LatestInv
  <1>7. UnusedInv'
    BY <1>1, <1>4 DEF RenderInv, UnusedInv, RpcIds
  <1>8. Numbered' = Numbered
    <2>1. rpc[n].at # "sent"
      BY <1>1 DEF RenderInv, UnusedInv, NoRpc, RpcIds
    <2> QED BY <2>1, <1>4, <1>1 DEF Numbered
  <1>9. CountInv' /\ TokenInv'
    BY <1>1, <1>4, <1>8 DEF Request, RenderInv, CountInv, TokenInv, Numbered
  <1> QED BY <1>3, <1>5, <1>6, <1>7, <1>9 DEF RenderInv

\* What the bridge does with the frame at hand and with a response.
LEMMA BridgeKeeps ==
  ASSUME RenderInv, NEW c \in Bridges,
         \/ Physics(c) \/ Accepted(c) \/ CallFailed(c)
         \/ waits[c] = Nothing /\ HasFrame(c)
            /\ shown' = [shown EXCEPT ![c] = latest[c]]
            /\ UNCHANGED <<step, latest, last, waits, wants, requests, rpc, frameId, restarts>>
  PROVE  RenderInv'
  <1> USE RenderAssumption
  <1> USE DEF RenderInv
  <1>1. CASE Physics(c)
    <2>1. RenderType'
      BY <1>1 DEF Physics, RenderType, Steps
    <2>2. WaitInv' /\ UnusedInv'
      BY <1>1 DEF Physics, RenderType, WaitInv, UnusedInv
    <2>3. LatestInv'
      BY <1>1 DEF Physics, RenderType, LatestInv, Steps, Frame
    <2>4. CountInv' /\ TokenInv'
      BY <1>1 DEF Physics, CountInv, TokenInv, Numbered
    <2> QED BY <2>1, <2>2, <2>3, <2>4
  <1>2. CASE Accepted(c)
    <2> DEFINE n == waits[c]
    <2>1. /\ n \in RpcIds /\ rpc[n] \in Rpc /\ rpc[n].step = step[c]
          /\ rpc[n].pictured = step[c] /\ rpc[n].token # 0
      BY <1>2 DEF Accepted, RenderType, WaitInv, RightStep, TokenInv, Numbered, RpcIds
    <2>2. rpc[n].token \in RpcIds /\ FrameOf(n) \in Frame
      BY <2>1 DEF RenderType, Rpc, FrameOf, Frame, RpcIds, Steps
    <2>3. RenderType'
      BY <2>2, <1>2 DEF Accepted, CallEnded, RenderType
    <2>4. WaitInv' /\ UnusedInv'
      BY <1>2 DEF Accepted, CallEnded, RenderType, WaitInv, UnusedInv
    <2>5. LatestInv'
      BY <2>1, <2>2, <1>2 DEF Accepted, CallEnded, RenderType, LatestInv, FrameOf, Steps
    <2>6. CountInv' /\ TokenInv'
      BY <1>2 DEF Accepted, CallEnded, CountInv, TokenInv, Numbered
    <2> QED BY <2>3, <2>4, <2>5, <2>6
  <1>3. CASE CallFailed(c)
    <2>1. RenderType'
      BY <1>3 DEF CallFailed, CallEnded, RenderType
    <2>2. WaitInv' /\ UnusedInv' /\ LatestInv'
      BY <1>3 DEF CallFailed, CallEnded, RenderType, WaitInv, UnusedInv, LatestInv
    <2>3. CountInv' /\ TokenInv'
      BY <1>3 DEF CallFailed, CallEnded, CountInv, TokenInv, Numbered
    <2> QED BY <2>1, <2>2, <2>3
  <1>4. CASE /\ waits[c] = Nothing /\ HasFrame(c)
             /\ shown' = [shown EXCEPT ![c] = latest[c]]
             /\ UNCHANGED <<step, latest, last, waits, wants, requests, rpc, frameId, restarts>>
    BY <1>4 DEF RenderType, WaitInv, UnusedInv, LatestInv, CountInv, TokenInv, Numbered
  <1> QED BY <1>1, <1>2, <1>3, <1>4

\* The pool's threads: the step that was pushed stays, and a number that is
\* given is one more RPC that has one.
LEMMA ServerKeeps ==
  ASSUME RenderInv, NEW n \in RpcIds, Start(n) \/ Render(n) \/ Number(n)
  PROVE  RenderInv'
  <1> USE RenderAssumption
  <1> USE DEF RenderInv
  <1>1. CASE Start(n) \/ Render(n)
    <2>1. PICK r \in Rpc : /\ rpc' = [rpc EXCEPT ![n] = r]
                           /\ r.step = rpc[n].step /\ r.at # "sent"
      <3>1. rpc[n] \in Rpc
        BY DEF RenderType
      <3>2. CASE Start(n)
        <4>1. /\ [rpc[n] EXCEPT !.at = "render"] \in Rpc
              /\ [rpc[n] EXCEPT !.at = "failed"] \in Rpc
          BY <3>1 DEF Rpc
        <4>2. CASE rpc' = [rpc EXCEPT ![n].at = "render"]
          BY <4>1, <4>2, <3>1 DEF Rpc
        <4>3. CASE rpc' = [rpc EXCEPT ![n].at = "failed"]
          BY <4>1, <4>3, <3>1 DEF Rpc
        <4> QED BY <4>2, <4>3, <3>2 DEF Start
      <3>3. CASE Render(n)
        <4>1. CASE rpc' = [rpc EXCEPT ![n].at = "failed"]
          <5>1. [rpc[n] EXCEPT !.at = "failed"] \in Rpc
            BY <3>1 DEF Rpc
          <5> QED BY <5>1, <4>1, <3>1 DEF Rpc, RenderType
        <4>2. ASSUME NEW s \in 0..rpc[n].step,
                     rpc' = [rpc EXCEPT ![n].at = "number", ![n].pictured = s]
              PROVE  \E r \in Rpc : /\ rpc' = [rpc EXCEPT ![n] = r]
                                    /\ r.step = rpc[n].step /\ r.at # "sent"
          <5>1. [rpc[n] EXCEPT !.at = "number", !.pictured = s] \in Rpc
            <6>1. s \in Steps
              BY <3>1 DEF Rpc, Steps
            <6> QED BY <6>1, <3>1 DEF Rpc
          <5> QED BY <5>1, <4>2, <3>1 DEF Rpc, RenderType
        <4> QED BY <4>1, <4>2, <3>3 DEF Render
      <3> QED BY <3>2, <3>3, <1>1
    <2>2. UNCHANGED <<bridgeSide, frameId, restarts>> /\ rpc[n].at \notin {"none", "sent"}
      BY <1>1 DEF Start, Render
    <2>3. RenderType'
      BY <2>1, <2>2 DEF RenderType, bridgeSide
    <2>4. WaitInv' /\ LatestInv'
      BY <2>1, <2>2 DEF RenderType, WaitInv, LatestInv, bridgeSide, RpcIds
    <2>5. UnusedInv'
      BY <2>1, <2>2 DEF RenderType, UnusedInv, bridgeSide, NoRpc
    <2>6. Numbered' = Numbered
      BY <2>1, <2>2 DEF RenderType, Numbered
    <2>7. CountInv' /\ TokenInv'
      BY <2>1, <2>2, <2>6 DEF CountInv, TokenInv, Numbered, RenderType
    <2> QED BY <2>3, <2>4, <2>5, <2>7
  <1>2. CASE Number(n)
    <2>1. /\ rpc[n] \in Rpc /\ rpc[n].at = "number" /\ frameId \in Nat /\ n \notin Numbered
          /\ frameId' = frameId + 1
      BY <1>2 DEF Number, RenderType, Numbered
    <2>2. rpc' = [rpc EXCEPT ![n] = [rpc[n] EXCEPT !.at = "sent", !.token = frameId + 1]]
      BY <1>2, <2>1 DEF Number, RenderType, Rpc
    <2>3. Numbered' = Numbered \cup {n}
      BY <2>1, <2>2 DEF RenderType, Numbered, Rpc
    <2>4. Cardinality(Numbered') = Cardinality(Numbered) + 1
      BY <2>3, <2>1, NumberedIsFinite, FS_AddElement
    <2>5. Cardinality(Numbered') \in 0..MaxRpcs
      BY <2>3, NumberedIsBounded DEF Numbered
    <2>6. CountInv' /\ frameId + 1 \in RpcIds
      BY <2>1, <2>4, <2>5, NumberedIsFinite DEF CountInv, RpcIds
    <2>7. [rpc[n] EXCEPT !.at = "sent", !.token = frameId + 1] \in Rpc
      BY <2>1, <2>6 DEF Rpc
    <2>8. RenderType'
      BY <2>1, <2>2, <2>6, <2>7, <1>2 DEF Number, RenderType, bridgeSide, RpcIds
    <2>9. WaitInv' /\ LatestInv'
      BY <2>1, <2>2, <1>2 DEF Number, RenderType, WaitInv, LatestInv, bridgeSide, RpcIds, Rpc
    <2>10. UnusedInv'
      BY <2>1, <2>2, <1>2 DEF Number, RenderType, UnusedInv, bridgeSide, NoRpc
    <2>11. TokenInv'
      BY <2>1, <2>2, <2>3 DEF TokenInv, Numbered, RenderType, Rpc
    <2> QED BY <2>6, <2>8, <2>9, <2>10, <2>11
  <1> QED BY <1>1, <1>2

\* A restart loses what the server had accepted, and no number that was given.
LEMMA RestartKeeps == ASSUME RenderInv, RestartServer PROVE RenderInv'
  <1> USE RenderAssumption
  <1> USE DEF RenderInv
  <1>1. /\ rpc' \in [RpcIds -> Rpc]
        /\ \A n \in RpcIds : /\ rpc'[n].step = rpc[n].step
                             /\ rpc'[n].at = "sent" <=> rpc[n].at = "sent"
                             /\ rpc[n].at \in {"none", "sent"} => rpc'[n] = rpc[n]
    BY DEF RestartServer, RenderType, Rpc
  <1>2. RenderType'
    BY <1>1 DEF RestartServer, RenderType, bridgeSide
  <1>3. WaitInv' /\ LatestInv'
    BY <1>1 DEF RestartServer, RenderType, WaitInv, LatestInv, bridgeSide, RpcIds
  <1>4. UnusedInv'
    BY <1>1 DEF RestartServer, UnusedInv, bridgeSide, NoRpc
  <1>5. CountInv' /\ TokenInv'
    <2>1. Numbered' = Numbered
      BY <1>1 DEF Numbered
    <2>2. CountInv'
      BY <2>1, NumberedIsFinite DEF RestartServer, CountInv
    <2>3. TokenInv'
      BY <1>1, <2>1 DEF TokenInv, Numbered
    <2> QED BY <2>2, <2>3
  <1> QED BY <1>2, <1>3, <1>4, <1>5

\* Every step keeps the invariant.
LEMMA RenderStep == RenderInv /\ [RenderNext]_renderVars => RenderInv'
  <1> SUFFICES ASSUME RenderInv, [RenderNext]_renderVars PROVE RenderInv'
    OBVIOUS
  <1>1. ASSUME NEW c \in Bridges, PushState(c) PROVE RenderInv'
    BY <1>1, RequestKeeps DEF PushState
  <1>2. ASSUME NEW c \in Bridges, Capture(c) PROVE RenderInv'
    <2>1. CASE ~HasFrame(c) /\ Request(c, "capture")
      BY <2>1, RequestKeeps
    <2>2. CASE ~(~HasFrame(c) /\ Request(c, "capture"))
      BY <1>2, <2>2, BridgeKeeps DEF Capture
    <2> QED BY <2>1, <2>2
  <1>3. ASSUME NEW c \in Bridges,
               Physics(c) \/ Accepted(c) \/ Rejected(c) \/ RpcError(c) \/ RpcTimesOut(c)
        PROVE  RenderInv'
    BY <1>3, BridgeKeeps DEF Rejected, RpcError, RpcTimesOut
  <1>4. ASSUME NEW n \in RpcIds, Start(n) \/ Render(n) \/ Number(n) PROVE RenderInv'
    BY <1>4, ServerKeeps
  <1>5. CASE RestartServer
    BY <1>5, RestartKeeps
  <1>6. CASE UNCHANGED renderVars
    BY <1>6 DEF renderVars, RenderInv, RenderType, WaitInv, LatestInv, UnusedInv,
                CountInv, TokenInv, Numbered
  <1> QED BY <1>1, <1>2, <1>3, <1>4, <1>5, <1>6 DEF RenderNext

\* The invariant of bridges, RPCs and frame counter holds in every reachable
\* state (GrpcRenderBridge, ProgrammableRenderServer).
THEOREM RenderInvariance == RenderSpec => []RenderInv
  <1> QED BY RenderStarts, RenderStep, PTL DEF RenderSpec

\* Every variable keeps its type; a server never numbers more frames than
\* there were requests (_handle_render).
THEOREM RenderTypeCorrect == RenderSpec => []RenderType
  <1>1. RenderInv => RenderType
    BY DEF RenderInv
  <1> QED BY <1>1, RenderInvariance, PTL

\* A capture shows the step its caller is at, for every number of bridges, of
\* threads, of failed, late and abandoned pushes and of restarts (capture).
THEOREM CapturesShowTheirStep == RenderSpec => CaptureShowsStep
  <1> DEFINE Shows == \A c \in Bridges : shown'[c] # shown[c] => shown'[c].step = step[c]
  <1>1. RenderInv /\ [RenderNext]_renderVars => [Shows]_renderVars
    <2> SUFFICES ASSUME RenderInv, RenderNext, NEW c \in Bridges, shown'[c] # shown[c]
                 PROVE  shown'[c].step = step[c]
      OBVIOUS
    <2>1. shown \in [Bridges -> Frame \cup {Nothing}]
      BY DEF RenderInv, RenderType
    <2>2. ASSUME NEW d \in Bridges, Capture(d) PROVE shown'[c].step = step[c]
      BY <2>1, <2>2 DEF Capture, HasFrame, Request
    <2>3. ASSUME NEW d \in Bridges, Accepted(d) PROVE shown'[c].step = step[c]
      BY <2>1, <2>3 DEF Accepted, RightStep, FrameOf, RenderInv, WaitInv
    <2>4. CASE UNCHANGED shown
      BY <2>4
    <2>5. \/ UNCHANGED shown
          \/ \E d \in Bridges : Capture(d) \/ Accepted(d)
      BY DEF RenderNext, Physics, PushState, Request, Rejected, RpcError, RpcTimesOut,
             CallFailed, Start, Render, Number, RestartServer, bridgeSide
    <2> QED BY <2>2, <2>3, <2>4, <2>5
  <1> QED BY <1>1, RenderInvariance, PTL DEF RenderSpec, CaptureShowsStep

\* A bridge never takes an older picture for a newer one, whatever the server
\* numbers its frames with after a restart (_request_frame).
THEOREM FramesOnlyAdvance == RenderSpec => FramesAdvance
  <1> DEFINE Advances == \A c \in Bridges :
                 latest'[c] # latest[c] /\ latest[c] # Nothing =>
                     /\ latest'[c].token > latest[c].token
                     /\ latest'[c].step >= latest[c].step
  <1>1. RenderInv /\ [RenderNext]_renderVars => [Advances]_renderVars
    <2> SUFFICES ASSUME RenderInv, RenderNext, NEW c \in Bridges,
                        latest'[c] # latest[c], latest[c] # Nothing
                 PROVE  /\ latest'[c].token > latest[c].token
                        /\ latest'[c].step >= latest[c].step
      OBVIOUS
    <2>1. /\ latest \in [Bridges -> Frame \cup {Nothing}] /\ step \in [Bridges -> Steps]
          /\ latest[c].token = last[c] /\ latest[c].step <= step[c]
      BY DEF RenderInv, RenderType, LatestInv
    <2>2. PICK d \in Bridges : Accepted(d)
      BY DEF RenderNext, Physics, PushState, Capture, Request, Rejected, RpcError,
             RpcTimesOut, CallFailed, Start, Render, Number, RestartServer, bridgeSide
    <2>3. /\ d = c /\ latest'[c] = FrameOf(waits[c]) /\ rpc[waits[c]].step = step[c]
          /\ RightStep(waits[c]) /\ NewToken(c, waits[c])
      BY <2>1, <2>2 DEF Accepted, RenderInv, WaitInv
    <2> QED BY <2>1, <2>3, RenderAssumption
            DEF FrameOf, RightStep, NewToken, Frame, Steps, RpcIds
  <1> QED BY <1>1, RenderInvariance, PTL DEF RenderSpec, FramesAdvance

-----------------------------------------------------------------------------
(* VlmLink.  That it implements RemoteCall rests on who may touch which    *)
(* connection: a call has one of its own, and the server's thread stores   *)
(* an answer in no other than the one whose request it has read.           *)

Calling(c) == client[c].at \in {"connect", "send", "receive"}
Serving == server \in {"header", "body", "infer", "reply"}

\* A caller under way has a connection, which no other caller has, and which
\* has given it nothing yet; it sends at most twice.
CallerInv ==
    /\ \A c \in Clients :
          /\ Calling(c) => /\ client[c].on \in 1..calls
                           /\ conn[client[c].on].got = None
          /\ ~Calling(c) => client[c].on = None
          /\ At(c, "connect") => conn[client[c].on].sent = 0
          /\ At(c, "send") => conn[client[c].on].sent <= 1
    /\ \A c, d \in Clients : c # d /\ Calling(c) => client[c].on # client[d].on

\* Only the connections of calls that were made are served and answered.
ConnectionInv ==
    /\ \A n \in Ids : n > calls => conn[n].computed = None /\ conn[n].got = None
    /\ \A i \in DOMAIN backlog : backlog[i] \in 1..calls
    /\ Serving => cur \in 1..calls

\* What was computed for a connection was computed for it, before it was sent.
AnswerInv ==
    /\ \A n \in Ids : /\ conn[n].computed \in {None, n}
                      /\ conn[n].replied => conn[n].computed = n
    /\ server = "reply" => conn[cur].computed = cur

LinkInv == TypeOK /\ CallerInv /\ ConnectionInv /\ AnswerInv

\* A step that changes one connection: it keeps its type, and the others stay.
LEMMA OneConnection ==
  ASSUME TypeOK, NEW n \in Ids, NEW r \in Connection, conn' = [conn EXCEPT ![n] = r]
  PROVE  /\ conn' \in [Ids -> Connection]
         /\ conn'[n] = r
         /\ \A k \in Ids : k # n => conn'[k] = conn[k]
  BY DEF TypeOK

\* The invariant holds before the first call.
LEMMA LinkStarts == Init => LinkInv
  <1> SUFFICES ASSUME Init PROVE LinkInv
    OBVIOUS
  <1> USE LinkAssumption
  <1>1. NoConnection \in Connection
    BY DEF NoConnection, Connection
  <1>2. TypeOK
    BY <1>1 DEF Init, TypeOK
  <1>3. CallerInv
    BY DEF Init, CallerInv, Calling, At
  <1>4. ConnectionInv
    BY DEF Init, ConnectionInv, Serving, NoConnection
  <1>5. AnswerInv
    BY DEF Init, AnswerInv, NoConnection
  <1> QED BY <1>2, <1>3, <1>4, <1>5 DEF LinkInv

\* A new call has a new connection.
LEMMA CallKeeps == ASSUME LinkInv, NEW c \in Clients, Call(c) PROVE LinkInv'
  <1> USE LinkAssumption
  <1> DEFINE n == calls + 1
  <1>1. n \in Ids /\ calls \in Nat /\ calls' = n
    BY DEF Call, LinkInv, TypeOK, Ids
  <1>2. PICK r \in Connection :
           /\ conn' = [conn EXCEPT ![n] = r]
           /\ r.sent = 0 /\ r.got = None /\ r.computed = None /\ ~r.replied
    <2>1. NoConnection \in Connection
      BY DEF NoConnection, Connection
    <2>2. ASSUME NEW b \in BOOLEAN
          PROVE  LET r == [NoConnection EXCEPT !.health = b]
                 IN r \in Connection /\ r.sent = 0 /\ r.got = None /\ r.computed = None
                    /\ ~r.replied
      BY <2>1 DEF Connection, NoConnection
    <2>3. (c \in Checkers) \in BOOLEAN
      OBVIOUS
    <2>4. conn' = [conn EXCEPT ![n] = [NoConnection EXCEPT !.health = c \in Checkers]]
      BY DEF Call
    <2> QED BY <2>2, <2>3, <2>4
  <1>3. /\ conn' \in [Ids -> Connection] /\ conn'[n] = r
        /\ \A k \in Ids : k # n => conn'[k] = conn[k]
    BY <1>1, <1>2, OneConnection DEF LinkInv
  <1>4. /\ client' = [client EXCEPT ![c] = [at |-> "connect", on |-> n]]
        /\ ~Calling(c) /\ UNCHANGED <<server, cur, backlog, crashes>>
    BY DEF Call, At, Calling, clientSide
  <1>5. TypeOK'
    <2>1. n \in 0..MaxCalls
      BY <1>1 DEF Ids
    <2> QED BY <1>1, <2>1, <1>3, <1>4 DEF LinkInv, TypeOK
  <1>6. CallerInv'
    BY <1>1, <1>2, <1>3, <1>4 DEF LinkInv, TypeOK, CallerInv, Calling, At, Ids
  <1>7. ConnectionInv'
    BY <1>1, <1>3, <1>4 DEF LinkInv, TypeOK, ConnectionInv, Serving, Ids
  <1>8. AnswerInv'
    BY <1>1, <1>2, <1>3, <1>4 DEF LinkInv, TypeOK, AnswerInv, ConnectionInv, Serving, Ids
  <1> QED BY <1>5, <1>6, <1>7, <1>8 DEF LinkInv

\* Callers do not touch what was computed or sent.
LEMMA AnswersStay ==
  ASSUME LinkInv, NEW n \in Ids, UNCHANGED <<server, cur>>,
         \A k \in Ids : k # n => conn'[k] = conn[k],
         conn'[n].computed = conn[n].computed, conn'[n].replied = conn[n].replied
  PROVE  AnswerInv'
  <1>1. \A k \in Ids : /\ conn'[k].computed = conn[k].computed
                       /\ conn'[k].replied = conn[k].replied
    OBVIOUS
  <1>2. server = "reply" => cur \in Ids
    BY LinkAssumption DEF LinkInv, TypeOK, ConnectionInv, Serving, Ids
  <1> QED BY <1>1, <1>2 DEF LinkInv, AnswerInv

\* The end of a call leaves what was computed as it is.
LEMMA EndOfCallKeeps ==
  ASSUME LinkInv, NEW c \in Clients, Calling(c), Ended(c),
         UNCHANGED <<calls, clientSide>>,
         NEW r \in Connection, conn' = [conn EXCEPT ![client[c].on] = r],
         r.computed = conn[client[c].on].computed, r.replied = conn[client[c].on].replied
  PROVE  LinkInv'
  <1> USE LinkAssumption
  <1> DEFINE n == client[c].on
  <1>1. n \in Ids
    BY DEF LinkInv, TypeOK, CallerInv, Ids
  <1>3. /\ conn' \in [Ids -> Connection] /\ conn'[n] = r
        /\ \A k \in Ids : k # n => conn'[k] = conn[k]
    BY <1>1, OneConnection DEF LinkInv
  <1>4. /\ client' = [client EXCEPT ![c] = [at |-> "idle", on |-> None]]
        /\ UNCHANGED <<calls, server, cur, backlog, crashes>>
    BY DEF Ended, clientSide
  <1>5. TypeOK'
    BY <1>3, <1>4 DEF LinkInv, TypeOK
  <1>6. CallerInv'
    BY <1>1, <1>3, <1>4 DEF LinkInv, TypeOK, CallerInv, Calling, At, Ids
  <1>7. ConnectionInv'
    BY <1>1, <1>3, <1>4 DEF LinkInv, TypeOK, ConnectionInv, CallerInv, Serving, Ids
  <1>8. AnswerInv'
    BY <1>1, <1>3, <1>4, AnswersStay
  <1> QED BY <1>5, <1>6, <1>7, <1>8 DEF LinkInv

\* The connections that an action of a caller or of the server changes, and
\* what it leaves of them.
LEMMA GiveUpKeeps ==
  ASSUME LinkInv, NEW c \in Clients, Calling(c), GiveUp(c)
  PROVE  LinkInv'
  <1> DEFINE n == client[c].on
             r == [conn[n] EXCEPT !.near = FALSE]
  <1>1. n \in Ids /\ conn[n] \in Connection
    BY LinkAssumption DEF LinkInv, TypeOK, CallerInv, Ids
  <1>2. /\ r \in Connection /\ r.computed = conn[n].computed
        /\ r.replied = conn[n].replied
    BY <1>1 DEF Connection
  <1>3. conn' = [conn EXCEPT ![n] = r]
    BY <1>1 DEF GiveUp, LinkInv, TypeOK
  <1> HIDE DEF r
  <1> QED BY <1>2, <1>3, EndOfCallKeeps DEF GiveUp

LEMMA ReceiveKeeps == ASSUME LinkInv, NEW c \in Clients, Receive(c) PROVE LinkInv'
  <1> DEFINE n == client[c].on
             g == IF Accepts(n) THEN conn[n].computed ELSE None
             r == [conn[n] EXCEPT !.near = FALSE, !.got = g]
  <1>1. Calling(c)
    BY DEF Receive, At, Calling
  <1>2. n \in Ids /\ conn[n] \in Connection
    BY <1>1, LinkAssumption DEF LinkInv, TypeOK, CallerInv, Ids
  <1>3. g \in Ids \cup {None}
    BY <1>2 DEF Connection
  <1> HIDE DEF g
  <1>4. /\ r \in Connection /\ r.computed = conn[n].computed
        /\ r.replied = conn[n].replied
    BY <1>2, <1>3 DEF Connection
  <1>5. conn' = [conn EXCEPT ![n] = r]
    BY <1>2 DEF Receive, LinkInv, TypeOK, g
  <1> HIDE DEF r
  <1> QED BY <1>1, <1>4, <1>5, EndOfCallKeeps DEF Receive

LEMMA ConnectKeeps == ASSUME LinkInv, NEW c \in Clients, Connect(c) PROVE LinkInv'
  <1> USE LinkAssumption
  <1> DEFINE n == client[c].on
             r == [conn[n] EXCEPT !.near = TRUE, !.far = TRUE]
  <1>1. n \in Ids /\ n \in 1..calls /\ conn[n] \in Connection /\ At(c, "connect")
    BY DEF Connect, At, Calling, LinkInv, TypeOK, CallerInv, Ids
  <1>2. /\ r \in Connection /\ r.computed = conn[n].computed /\ r.got = conn[n].got
        /\ r.replied = conn[n].replied /\ r.sent = conn[n].sent
    BY <1>1 DEF Connection
  <1>3. conn' = [conn EXCEPT ![n] = r]
    BY <1>1 DEF Connect, LinkInv, TypeOK
  <1> HIDE DEF r
  <1>4. /\ conn' \in [Ids -> Connection] /\ conn'[n] = r
        /\ \A k \in Ids : k # n => conn'[k] = conn[k]
    BY <1>1, <1>2, <1>3, OneConnection DEF LinkInv
  <1>5. /\ client' = [client EXCEPT ![c].at = "send"]
        /\ UNCHANGED <<calls, server, cur, crashes>>
        /\ backlog' = Append(backlog, n) /\ Len(backlog) < Backlog
        /\ backlog \in Seq(Ids)
    BY DEF Connect, Go, LinkInv, TypeOK
  <1>6. backlog' \in Seq(Ids) /\ Len(backlog') <= Backlog
        /\ \A i \in DOMAIN backlog' : backlog'[i] \in 1..calls
    BY <1>1, <1>5 DEF LinkInv, ConnectionInv
  <1>7. TypeOK'
    BY <1>4, <1>5, <1>6 DEF LinkInv, TypeOK
  <1>8. CallerInv'
    BY <1>1, <1>2, <1>4, <1>5 DEF LinkInv, TypeOK, CallerInv, Calling, At, Ids
  <1>9. ConnectionInv'
    BY <1>1, <1>2, <1>4, <1>5, <1>6 DEF LinkInv, ConnectionInv, Serving
  <1>10. AnswerInv'
    BY <1>1, <1>2, <1>4, <1>5, AnswersStay
  <1> QED BY <1>7, <1>8, <1>9, <1>10 DEF LinkInv

LEMMA SendKeeps == ASSUME LinkInv, NEW c \in Clients, Send(c) PROVE LinkInv'
  <1> USE LinkAssumption
  <1> DEFINE n == client[c].on
             r == [conn[n] EXCEPT !.sent = @ + 1]
  <1>1. n \in Ids /\ n \in 1..calls /\ conn[n] \in Connection /\ At(c, "send")
        /\ conn[n].sent \in {0, 1}
    BY DEF Send, At, Calling, LinkInv, TypeOK, CallerInv, Ids, Connection
  <1>2. /\ r \in Connection /\ r.computed = conn[n].computed /\ r.got = conn[n].got
        /\ r.replied = conn[n].replied /\ r.sent = conn[n].sent + 1
    BY <1>1 DEF Connection
  <1>3. conn' = [conn EXCEPT ![n] = r]
    BY <1>1 DEF Send, LinkInv, TypeOK
  <1> HIDE DEF r
  <1>4. /\ conn' \in [Ids -> Connection] /\ conn'[n] = r
        /\ \A k \in Ids : k # n => conn'[k] = conn[k]
    BY <1>1, <1>2, <1>3, OneConnection DEF LinkInv
  <1>5. /\ client' = [client EXCEPT ![c].at = IF conn[n].sent = 1 THEN "receive" ELSE "send"]
        /\ UNCHANGED <<calls, server, cur, backlog, crashes>>
    BY DEF Send, Go, Mine, clientSide
  <1>6. TypeOK'
    BY <1>4, <1>5 DEF LinkInv, TypeOK
  <1>7. CallerInv'
    BY <1>1, <1>2, <1>4, <1>5 DEF LinkInv, TypeOK, CallerInv, Calling, At, Ids
  <1>8. ConnectionInv'
    BY <1>1, <1>2, <1>4, <1>5 DEF LinkInv, ConnectionInv, Serving
  <1>9. AnswerInv'
    BY <1>1, <1>2, <1>4, <1>5, AnswersStay
  <1> QED BY <1>6, <1>7, <1>8, <1>9 DEF LinkInv

\* A step of the server's thread on the connection it serves: the callers do
\* not notice, and an answer is that connection's own.
LEMMA ServingKeeps ==
  ASSUME LinkInv, Serving, NEW r \in Connection, conn' = [conn EXCEPT ![cur] = r],
         r.got = conn[cur].got, r.sent = conn[cur].sent,
         r.computed \in {None, cur}, r.replied => r.computed = cur,
         server' \in {"accept", "body", "infer", "reply"},
         server' = "accept" => cur' = None,
         server' # "accept" => cur' = cur,
         server' = "reply" => r.computed = cur,
         UNCHANGED <<serverSide, backlog>>
  PROVE  LinkInv'
  <1> USE LinkAssumption
  <1>1. cur \in Ids /\ cur \in 1..calls
    BY DEF LinkInv, TypeOK, ConnectionInv, Ids
  <1>2. /\ conn' \in [Ids -> Connection] /\ conn'[cur] = r
        /\ \A k \in Ids : k # cur => conn'[k] = conn[k]
    BY <1>1, OneConnection DEF LinkInv
  <1>3. UNCHANGED <<calls, client, crashes, backlog>>
    BY DEF serverSide
  <1>4. TypeOK'
    BY <1>1, <1>2, <1>3 DEF LinkInv, TypeOK
  <1>5. \A k \in Ids : conn'[k].got = conn[k].got /\ conn'[k].sent = conn[k].sent
    BY <1>2
  <1>6. \A c \in Clients : Calling(c) => client[c].on \in Ids
    BY DEF LinkInv, TypeOK, CallerInv, Ids
  <1>7. CallerInv'
    BY <1>3, <1>5, <1>6 DEF LinkInv, TypeOK, CallerInv, Calling, At
  <1>8. ConnectionInv'
    BY <1>1, <1>2, <1>3 DEF LinkInv, TypeOK, ConnectionInv, Serving, Ids
  <1>9. AnswerInv'
    BY <1>1, <1>2 DEF LinkInv, AnswerInv
  <1> QED BY <1>4, <1>7, <1>8, <1>9 DEF LinkInv

\* The thread moves on to another connection, or starts again, and stores
\* nothing.
LEMMA NothingServedKeeps ==
  ASSUME LinkInv, Accept \/ ReadHeader \/ ReadBody \/ Restart
  PROVE  LinkInv'
  <1> USE LinkAssumption
  <1>1. UNCHANGED <<calls, client, crashes, conn>>
    BY DEF Accept, ReadHeader, ReadBody, Restart, serverSide
  <1>2. CallerInv'
    BY <1>1 DEF LinkInv, CallerInv, Calling, At
  <1>3. CASE Accept
    <2>1. /\ Head(backlog) \in 1..calls /\ Head(backlog) \in Ids
          /\ Tail(backlog) \in Seq(Ids) /\ Len(Tail(backlog)) <= Backlog
          /\ \A i \in DOMAIN Tail(backlog) : Tail(backlog)[i] \in 1..calls
      BY <1>3 DEF Accept, LinkInv, TypeOK, ConnectionInv
    <2>2. TypeOK'
      BY <1>1, <1>3, <2>1 DEF Accept, LinkInv, TypeOK
    <2>3. ConnectionInv' /\ AnswerInv'
      BY <1>1, <1>3, <2>1 DEF Accept, LinkInv, ConnectionInv, AnswerInv, Serving
    <2> QED BY <1>2, <2>2, <2>3 DEF LinkInv
  <1>4. CASE ReadHeader \/ ReadBody \/ Restart
    <2>1. TypeOK'
      BY <1>1, <1>4 DEF ReadHeader, ReadBody, Restart, LinkInv, TypeOK
    <2>2. ConnectionInv' /\ AnswerInv'
      BY <1>1, <1>4 DEF ReadHeader, ReadBody, Restart, LinkInv, ConnectionInv, AnswerInv,
                        Serving
    <2> QED BY <1>2, <2>1, <2>2 DEF LinkInv
  <1> QED BY <1>3, <1>4

LEMMA ServerStepKeeps == ASSUME LinkInv, Serverside PROVE LinkInv'
  <1> USE LinkAssumption
  <1>1. ASSUME Serving
        PROVE  /\ cur \in Ids /\ conn[cur] \in Connection /\ conn \in [Ids -> Connection]
               /\ conn[cur].computed \in {None, cur}
               /\ conn[cur].replied => conn[cur].computed = cur
    BY <1>1 DEF LinkInv, TypeOK, ConnectionInv, AnswerInv, Ids
  <1>2. CASE EarlyEnd \/ RequestFails \/ ReplyFails
    <2> DEFINE r == [conn[cur] EXCEPT !.far = FALSE]
    <2>1. Serving
      BY <1>2 DEF EarlyEnd, RequestFails, ReplyFails, Serving
    <2>2. /\ r \in Connection /\ r.got = conn[cur].got /\ r.sent = conn[cur].sent
          /\ r.computed = conn[cur].computed /\ r.replied = conn[cur].replied
      BY <1>1, <2>1 DEF Connection
    <2>3. /\ conn' = [conn EXCEPT ![cur] = r]
          /\ server' = "accept" /\ cur' = None /\ UNCHANGED <<serverSide, backlog>>
      BY <1>1, <1>2, <2>1 DEF EarlyEnd, RequestFails, ReplyFails, CloseConnection,
                              BackToAccept, AfterException
    <2> HIDE DEF r
    <2> QED BY <1>1, <2>1, <2>2, <2>3, ServingKeeps
  <1>3. CASE Infer
    <2>1. Serving
      BY <1>3 DEF Infer, Serving
    <2>2. PICK valid \in BOOLEAN :
             conn' = [conn EXCEPT ![cur].computed = cur, ![cur].valid = valid]
      BY <1>3 DEF Infer, AnswerFor
    <2> DEFINE r == [conn[cur] EXCEPT !.computed = cur, !.valid = valid]
    <2>3. /\ r \in Connection /\ r.got = conn[cur].got /\ r.sent = conn[cur].sent
          /\ r.computed = cur /\ r.replied = conn[cur].replied
      BY <1>1, <2>1 DEF Connection
    <2>4. conn' = [conn EXCEPT ![cur] = r]
      BY <1>1, <2>1, <2>2
    <2>5. server' = "reply" /\ cur' = cur /\ UNCHANGED <<serverSide, backlog>>
      BY <1>3 DEF Infer
    <2> HIDE DEF r
    <2> QED BY <2>1, <2>3, <2>4, <2>5, ServingKeeps
  <1>4. CASE Reply
    <2> DEFINE r == [conn[cur] EXCEPT !.replied = TRUE, !.far = FALSE]
    <2>1. Serving /\ conn[cur].computed = cur
      BY <1>4 DEF Reply, Serving, LinkInv, AnswerInv
    <2>2. /\ r \in Connection /\ r.got = conn[cur].got /\ r.sent = conn[cur].sent
          /\ r.computed = cur
      BY <1>1, <2>1 DEF Connection
    <2>3. /\ conn' = [conn EXCEPT ![cur] = r]
          /\ server' = "accept" /\ cur' = None /\ UNCHANGED <<serverSide, backlog>>
      BY <1>1, <1>4, <2>1 DEF Reply, BackToAccept
    <2> HIDE DEF r
    <2> QED BY <2>1, <2>2, <2>3, ServingKeeps
  <1>5. CASE Accept \/ ReadHeader \/ ReadBody
    BY <1>5, NothingServedKeeps
  <1> QED BY <1>2, <1>3, <1>4, <1>5 DEF Serverside

\* A crash closes every connection and forgets those that wait.
LEMMA CrashKeeps == ASSUME LinkInv, Crash PROVE LinkInv'
  <1> USE LinkAssumption
  <1>1. /\ conn' \in [Ids -> Connection]
        /\ \A k \in Ids : /\ conn'[k].got = conn[k].got /\ conn'[k].sent = conn[k].sent
                          /\ conn'[k].computed = conn[k].computed
                          /\ conn'[k].replied = conn[k].replied
    <2>1. ASSUME NEW k \in Ids
          PROVE  /\ [conn[k] EXCEPT !.far = FALSE] \in Connection
                 /\ conn'[k] = [conn[k] EXCEPT !.far = FALSE]
      BY DEF Crash, LinkInv, TypeOK, Connection
    <2> QED BY <2>1 DEF Crash, LinkInv, TypeOK, Connection
  <1>2. TypeOK'
    BY <1>1 DEF Crash, LinkInv, TypeOK
  <1>3. \A c \in Clients : Calling(c) => client[c].on \in Ids
    BY DEF LinkInv, TypeOK, CallerInv, Ids
  <1>4. CallerInv'
    BY <1>1, <1>3 DEF Crash, LinkInv, CallerInv, Calling, At
  <1>5. ConnectionInv' /\ AnswerInv'
    <2>1. ConnectionInv'
      BY <1>1 DEF Crash, LinkInv, ConnectionInv, Serving
    <2>2. AnswerInv'
      BY <1>1 DEF Crash, LinkInv, AnswerInv
    <2> QED BY <2>1, <2>2
  <1> QED BY <1>2, <1>4, <1>5 DEF LinkInv

\* A caller that vanishes lets go of its connection.
LEMMA VanishKeeps == ASSUME LinkInv, NEW c \in Clients, Vanish(c) PROVE LinkInv'
  <1>1. /\ client' = [client EXCEPT ![c] = [at |-> "gone", on |-> None]]
        /\ UNCHANGED <<calls, conn, server, cur, backlog, crashes>>
    BY DEF Vanish, clientSide
  <1>2. TypeOK'
    BY <1>1 DEF LinkInv, TypeOK
  <1>3. /\ client'[c].at = "gone" /\ client'[c].on = None
        /\ \A d \in Clients : d # c => client'[d] = client[d]
    BY <1>1 DEF LinkInv, TypeOK
  <1>4. CallerInv'
    <2>1. \A d \in Clients : Calling(d)' => Calling(d) /\ d # c /\ client'[d] = client[d]
      BY <1>3 DEF Calling
    <2>2. \A d \in Clients : ~Calling(d)' => client'[d].on = None
      BY <1>3 DEF LinkInv, CallerInv, Calling
    <2>3. \A d \in Clients : /\ At(d, "connect")' => At(d, "connect")
                            /\ At(d, "send")' => At(d, "send")
      BY <1>3 DEF At
    <2>4. conn' = conn /\ calls' = calls
      BY <1>1
    <2>5. \A d, e \in Clients : d # e /\ Calling(d)' => client'[d].on # client'[e].on
      <3> SUFFICES ASSUME NEW d \in Clients, NEW e \in Clients, d # e, Calling(d)'
                   PROVE  client'[d].on # client'[e].on
        OBVIOUS
      <3>1. Calling(d) /\ client'[d].on = client[d].on /\ client[d].on \in 1..calls
        BY <2>1 DEF LinkInv, CallerInv
      <3>2. CASE e = c
        BY <3>1, <3>2, <1>3, LinkAssumption
      <3>3. CASE e # c
        BY <3>1, <3>3, <1>3 DEF LinkInv, CallerInv
      <3> QED BY <3>2, <3>3
    <2> QED BY <2>1, <2>2, <2>3, <2>4, <2>5, <1>3 DEF LinkInv, CallerInv, Calling, At
  <1>5. ConnectionInv' /\ AnswerInv'
    BY <1>1 DEF LinkInv, ConnectionInv, AnswerInv, Serving
  <1> QED BY <1>2, <1>4, <1>5 DEF LinkInv

\* Every step keeps the invariant.
LEMMA LinkStep == LinkInv /\ [Next]_vars => LinkInv'
  <1> SUFFICES ASSUME LinkInv, [Next]_vars PROVE LinkInv'
    OBVIOUS
  <1>1. ASSUME NEW c \in Clients, TimeOut(c) \/ Refused(c) \/ ClosedByServer(c)
        PROVE  LinkInv'
    <2>1. Calling(c) /\ GiveUp(c)
      BY <1>1 DEF TimeOut, TimesOut, Refused, ClosedByServer, Blocked, At, Calling
    <2> QED BY <2>1, GiveUpKeeps
  <1>2. ASSUME NEW c \in Clients, Call(c) \/ Clientside(c) \/ Vanish(c) PROVE LinkInv'
    BY <1>1, <1>2, CallKeeps, ConnectKeeps, SendKeeps, ReceiveKeeps, VanishKeeps
    DEF Clientside
  <1>3. CASE Serverside
    BY <1>3, ServerStepKeeps
  <1>4. CASE Crash \/ Restart
    BY <1>4, CrashKeeps, NothingServedKeeps
  <1>5. CASE UNCHANGED vars
    BY <1>5 DEF vars, LinkInv, TypeOK, CallerInv, ConnectionInv, AnswerInv, Calling, At,
                Serving
  <1> QED BY <1>2, <1>3, <1>4, <1>5 DEF Next

\* The invariant of callers, connections and server holds in every reachable
\* state (infer, check_endpoint, serve_forever).
THEOREM LinkInvariance == Spec => []LinkInv
  <1> QED BY LinkStarts, LinkStep, PTL DEF Spec

\* Every variable keeps its type; the kernel's queue never holds more than
\* listen() allows (serve_forever).
THEOREM LinkTypeCorrect == Spec => []TypeOK
  <1>1. LinkInv => TypeOK
    BY DEF LinkInv
  <1> QED BY <1>1, LinkInvariance, PTL

\* RemoteCall's variables, as VlmLink has them.
Begun == 1..calls
Pending == [c \in Clients |-> client[c].on]
Executed == {n \in Ids : conn[n].computed # None}
Results == [n \in Ids |-> conn[n].got]

\* Where no answer is computed and none is taken, RemoteCall's view of the
\* connections stays.
LEMMA SameAnswers ==
  ASSUME \A n \in Ids : conn'[n].computed = conn[n].computed /\ conn'[n].got = conn[n].got
  PROVE  Executed' = Executed /\ Results' = Results
  BY DEF Executed, Results

\* A caller that lets go of its connection.
LEMMA PendingEnds ==
  ASSUME TypeOK, NEW c \in Clients, client'[c].on = None,
         client' \in [Clients -> [at : {"idle", "connect", "send", "receive", "gone"},
                                  on : Ids \cup {None}]],
         \A d \in Clients : d # c => client'[d] = client[d]
  PROVE  Pending' = [Pending EXCEPT ![c] = None]
  BY DEF Pending

\* A new call is one that RemoteCall has not seen.
LEMMA CallBegins == ASSUME LinkInv, NEW c \in Clients, Call(c) PROVE Link!Begin(c)
  <1> USE LinkAssumption
  <1> DEFINE n == calls + 1
  <1>1. /\ n \in Ids /\ calls \in Nat /\ calls' = n /\ ~Calling(c)
        /\ client' = [client EXCEPT ![c] = [at |-> "connect", on |-> n]]
    BY DEF Call, At, Calling, LinkInv, TypeOK, Ids
  <1>2. n \in Ids \ Begun /\ Begun' = Begun \cup {n}
    BY <1>1 DEF Begun
  <1>3. Pending[c] = None /\ Pending' = [Pending EXCEPT ![c] = n]
    BY <1>1 DEF LinkInv, TypeOK, CallerInv, Pending
  <1>4. /\ \A k \in Ids : k # n => conn'[k] = conn[k]
        /\ conn'[n] = [NoConnection EXCEPT !.health = c \in Checkers]
        /\ conn[n].computed = None /\ conn[n].got = None
    BY <1>1 DEF Call, LinkInv, TypeOK, ConnectionInv
  <1>5. conn'[n].computed = None /\ conn'[n].got = None
    BY <1>4 DEF NoConnection
  <1>6. Executed' = Executed /\ Results' = Results
    BY <1>4, <1>5, SameAnswers
  <1> QED BY <1>2, <1>3, <1>6 DEF Link!Begin, Begun, Pending, Executed, Results

\* A call that ends without an answer has failed.
LEMMA CallFails ==
  ASSUME LinkInv, LinkInv', NEW c \in Clients, Calling(c), Ended(c),
         UNCHANGED <<calls, clientSide>>,
         \A n \in Ids : conn'[n].computed = conn[n].computed /\ conn'[n].got = conn[n].got
  PROVE  Link!Fail(c)
  <1>1. Pending[c] # None
    BY LinkAssumption DEF LinkInv, CallerInv, Pending
  <1>2. Pending' = [Pending EXCEPT ![c] = None]
    BY PendingEnds DEF Ended, LinkInv, TypeOK
  <1>3. Begun' = Begun /\ Executed' = Executed /\ Results' = Results
    BY SameAnswers DEF Begun
  <1> QED BY <1>1, <1>2, <1>3 DEF Link!Fail, Begun, Pending, Executed, Results

\* The caller takes the answer that was computed for its call, or refuses it.
LEMMA ReceiveEnds ==
  ASSUME LinkInv, LinkInv', NEW c \in Clients, Receive(c)
  PROVE  Link!Answer(c) \/ Link!Fail(c)
  <1> DEFINE n == client[c].on
             g == IF Accepts(n) THEN conn[n].computed ELSE None
  <1>1. Calling(c) /\ conn[n].replied /\ Ended(c) /\ UNCHANGED <<calls, clientSide>>
    BY DEF Receive, At, Calling, Mine
  <1>2. n \in 1..calls /\ n \in Ids /\ conn[n].got = None /\ conn[n].computed = n
    BY <1>1, LinkAssumption DEF LinkInv, TypeOK, CallerInv, AnswerInv, Ids
  <1>3. /\ conn'[n].got = g /\ conn'[n].computed = conn[n].computed
        /\ \A k \in Ids : k # n => conn'[k] = conn[k]
    BY <1>2 DEF Receive, LinkInv, TypeOK, Connection
  <1>4. CASE Accepts(n)
    <2>1. Pending[c] = n /\ n \in Executed /\ Pending' = [Pending EXCEPT ![c] = None]
      <3>1. Pending' = [Pending EXCEPT ![c] = None]
        BY <1>1, PendingEnds DEF Ended, LinkInv, TypeOK
      <3>2. n # None
        BY <1>2, LinkAssumption DEF Ids
      <3> QED BY <1>2, <3>1, <3>2 DEF Pending, Executed
    <2>2. Executed' = Executed
      BY <1>3 DEF Executed
    <2>3. Results' = [Results EXCEPT ![n] = n]
      BY <1>2, <1>3, <1>4 DEF Results
    <2>4. Begun' = Begun
      BY <1>1 DEF Begun
    <2>5. Link!Answer(c)
      BY <2>1, <2>2, <2>3, <2>4 DEF Link!Answer, Begun, Pending, Executed, Results
    <2> QED BY <2>5
  <1>5. CASE ~Accepts(n)
    BY <1>1, <1>2, <1>3, <1>5, CallFails
  <1> QED BY <1>4, <1>5

\* The server's thread computes the answer to a call that was made, if it has
\* not done so before.
LEMMA InferExecutes ==
  ASSUME LinkInv, Infer
  PROVE  (\E n \in Ids : Link!Execute(n)) \/ UNCHANGED Link!vars
  <1>1. cur \in Ids /\ cur \in 1..calls
    BY LinkAssumption DEF Infer, Serving, LinkInv, TypeOK, ConnectionInv, Ids
  <1>2. /\ \A k \in Ids : k # cur => conn'[k] = conn[k]
        /\ conn'[cur].computed = cur /\ conn'[cur].got = conn[cur].got
    BY <1>1 DEF Infer, AnswerFor, LinkInv, TypeOK, Connection
  <1>3. Begun' = Begun /\ Pending' = Pending /\ Results' = Results
    BY <1>2 DEF Infer, serverSide, Begun, Pending, Results
  <1>4. Executed' = Executed \cup {cur}
    BY <1>1, <1>2, LinkAssumption DEF Executed, Ids
  <1>5. CASE cur \in Executed
    <2>1. Executed' = Executed
      BY <1>4, <1>5
    <2> QED BY <1>3, <2>1 DEF Link!vars, Begun, Pending, Executed, Results
  <1>6. CASE cur \notin Executed
    BY <1>1, <1>3, <1>4, <1>6 DEF Link!Execute, Begun, Pending, Executed, Results
  <1> QED BY <1>5, <1>6

\* The other steps of callers and server are not RemoteCall's concern.
LEMMA OthersStutter ==
  ASSUME LinkInv,
         \/ \E c \in Clients : Connect(c) \/ Send(c)
         \/ Accept \/ ReadHeader \/ ReadBody \/ EarlyEnd \/ RequestFails
         \/ Reply \/ ReplyFails \/ Crash \/ Restart \/ UNCHANGED vars
  PROVE  UNCHANGED Link!vars
  <1> USE LinkAssumption
  <1>1. \A n \in Ids : conn'[n].computed = conn[n].computed /\ conn'[n].got = conn[n].got
    <2>1. conn \in [Ids -> Connection]
      BY DEF LinkInv, TypeOK
    <2>2. ASSUME NEW c \in Clients, Connect(c) \/ Send(c)
          PROVE  \A n \in Ids : conn'[n].computed = conn[n].computed
                             /\ conn'[n].got = conn[n].got
      BY <2>1, <2>2 DEF Connect, Send, Connection
    <2>3. CASE EarlyEnd \/ RequestFails \/ ReplyFails \/ Reply
      BY <2>1, <2>3 DEF EarlyEnd, RequestFails, ReplyFails, Reply, CloseConnection, Connection
    <2>4. CASE Crash
      BY <2>1, <2>4 DEF Crash, Connection
    <2>5. CASE Accept \/ ReadHeader \/ ReadBody \/ Restart \/ UNCHANGED vars
      BY <2>5 DEF Accept, ReadHeader, ReadBody, Restart, vars
    <2> QED BY <2>2, <2>3, <2>4, <2>5
  <1>2. Executed' = Executed /\ Results' = Results
    BY <1>1, SameAnswers
  <1>3. Begun' = Begun
    BY DEF Begun, Connect, Send, Accept, ReadHeader, ReadBody, EarlyEnd, RequestFails, Reply,
           ReplyFails, CloseConnection, Crash, Restart, vars, clientSide, serverSide
  <1>4. Pending' = Pending
    <2>1. ASSUME NEW c \in Clients, Connect(c) \/ Send(c)
          PROVE  \A d \in Clients : client'[d].on = client[d].on
      BY <2>1 DEF Connect, Send, Go, LinkInv, TypeOK
    <2>2. \/ UNCHANGED client
          \/ \E c \in Clients : Connect(c) \/ Send(c)
      BY DEF Accept, ReadHeader, ReadBody, EarlyEnd, RequestFails, Reply, ReplyFails,
             CloseConnection, Crash, Restart, vars, serverSide
    <2> QED BY <2>1, <2>2 DEF Pending
  <1> QED BY <1>2, <1>3, <1>4 DEF Link!vars, Begun, Pending, Executed, Results

\* Every step of callers and server is a step of RemoteCall, or none.
LEMMA StepRefines ==
  ASSUME LinkInv, LinkInv', [Next]_vars
  PROVE  [Link!Next]_Link!vars
  <1>1. ASSUME NEW c \in Clients, Call(c) PROVE Link!Next
    BY <1>1, CallBegins DEF Link!Next
  <1>2. ASSUME NEW c \in Clients, Receive(c) PROVE Link!Next
    BY <1>2, ReceiveEnds DEF Link!Next
  <1>3. ASSUME NEW c \in Clients, TimeOut(c) \/ Refused(c) \/ ClosedByServer(c)
        PROVE  Link!Next
    <2>1. Calling(c) /\ GiveUp(c)
      BY <1>3 DEF TimeOut, TimesOut, Refused, ClosedByServer, Blocked, At, Calling
    <2>2. \A n \in Ids : conn'[n].computed = conn[n].computed /\ conn'[n].got = conn[n].got
      BY <2>1 DEF GiveUp, LinkInv, TypeOK, Connection
    <2> QED BY <2>1, <2>2, CallFails DEF GiveUp, Link!Next
  <1>4. ASSUME NEW c \in Clients, Vanish(c) PROVE [Link!Next]_Link!vars
    <2>1. /\ Pending' = [Pending EXCEPT ![c] = None] /\ Begun' = Begun
          /\ Executed' = Executed /\ Results' = Results
      BY <1>4, PendingEnds DEF Vanish, clientSide, LinkInv, TypeOK, Begun, Executed, Results
    <2>2. CASE Pending[c] = None
      <3>1. Pending' = Pending
        BY <2>1, <2>2 DEF Pending
      <3> QED BY <2>1, <3>1 DEF Link!vars, Begun, Pending, Executed, Results
    <2>3. CASE Pending[c] # None
      <3>1. Link!Fail(c)
        BY <2>1, <2>3 DEF Link!Fail, Begun, Pending, Executed, Results
      <3> QED BY <3>1 DEF Link!Next
    <2> QED BY <2>2, <2>3
  <1>5. CASE Infer
    BY <1>5, InferExecutes DEF Link!Next
  <1>6. CASE \/ \E c \in Clients : Connect(c) \/ Send(c)
             \/ Accept \/ ReadHeader \/ ReadBody \/ EarlyEnd \/ RequestFails
             \/ Reply \/ ReplyFails \/ Crash \/ Restart \/ UNCHANGED vars
    BY <1>6, OthersStutter
  <1> QED BY <1>1, <1>2, <1>3, <1>4, <1>5, <1>6 DEF Next, Clientside, Serverside

\* Every call ends at most once, with the answer that was computed for it or
\* with an error, for any number of callers, calls, time-outs, vanished hosts
\* and crashes of the server (infer, _handle_request).
THEOREM LinkRefinement == Spec => ImplementsRemoteCall
  <1>1. Init => Link!Init
    <2> SUFFICES ASSUME Init PROVE Link!Init
      OBVIOUS
    <2>1. Begun = {} /\ Executed = {}
      BY DEF Init, Begun, Executed, NoConnection
    <2>2. Pending = [c \in Clients |-> None] /\ Results = [n \in Ids |-> None]
      BY DEF Init, Pending, Results, NoConnection
    <2> QED BY <2>1, <2>2 DEF Link!Init, Begun, Pending, Executed, Results
  <1>2. LinkInv /\ LinkInv' /\ [Next]_vars => [Link!Next]_Link!vars
    BY StepRefines
  <1> QED BY <1>1, <1>2, LinkInvariance, PTL DEF Spec, ImplementsRemoteCall, Link!Spec

-----------------------------------------------------------------------------
(* DevStack.  While nobody meddles one supervisor works at a time, and     *)
(* where it is tells which of the processes that are alive and in time it  *)
(* still has to account for: none before its first start and after its     *)
(* clean-up, no backend before it starts one.  The two invariants of the   *)
(* run are the last line of Undisturbed and one case of Stage.             *)

Owned == alive \ outlived
NoBackend == \A p \in Owned : Kind[p] # "navila"

Starting == {"orcalab", "record", "await", "navila", "watch", "replace", "replacing"}
Cleaning == {"kill navila", "wait navila", "kill orcalab", "wait orcalab", "remove"}
Works(s) == pc[s] \in Starting \cup Cleaning

\* A trap is set from the claim on, and no more once it runs.
TrapInv == \A s \in trapped : pc[s] \in Starting

\* The file of a service names one of its processes.
KindInv == \A x \in Services : pidFile[x] # NoProcess => Kind[pidFile[x]] = x

\* What a supervisor may still own where it is.
Stage(s) ==
    /\ pc[s] \in {"orcalab", "remove"} => Owned = {}
    /\ pc[s] = "record" =>
          /\ forking[s] \in Pids
          /\ \A p \in Owned : Kind[p] = Kind[forking[s]] => p = forking[s]
          /\ Kind[forking[s]] = "orcalab" => NoBackend
    /\ pc[s] = "await" /\ Awaited(s) = "orcalab" => NoBackend
    /\ pc[s] \in {"navila", "kill orcalab", "wait orcalab"} => NoBackend
    /\ pc[s] = "replacing" => target[s] = pidFile["navila"]
    /\ pc[s] = "wait navila" => target[TrapOf(s)] = pidFile["navila"]
    /\ pc[s] = "wait orcalab" => target[TrapOf(s)] = pidFile["orcalab"]

\* A process is on record, or about to be.
OnRecord(p) ==
    \/ p = pidFile[Kind[p]]
    \/ \E s \in Supervisors : pc[s] = "record" /\ forking[s] = p

\* As long as nobody meddles.
Undisturbed ==
    /\ \A t \in Stops : pc[t] = "idle"
    /\ term = {}
    /\ \A s \in Supervisors :
          /\ pc[s] \in Starting \cup Cleaning \cup {"claim", "ended"}
          /\ Works(s) => supervisorFile = s /\ \A r \in Supervisors : r # s => pc[r] = "ended"
          /\ pc[s] \in Starting => s \in trapped
          /\ pc[s] \in Cleaning => resume[s] = "ended"
          /\ Stage(s)
    /\ (\A s \in Supervisors : ~Works(s)) => Owned = {}
    /\ \A p \in Owned : OnRecord(p)

StackInv == StackType /\ TrapInv /\ KindInv /\ (~meddled => Undisturbed)

\* The invariant holds before the first start.
LEMMA StackStarts == StackInit => StackInv
  <1> SUFFICES ASSUME StackInit PROVE StackInv
    OBVIOUS
  <1> USE StackAssumption
  <1>1. StackType
    BY DEF StackInit, StackType, Actors, Places, Over
  <1>2. TrapInv /\ KindInv
    BY DEF StackInit, TrapInv, KindInv
  <1>3. \A s \in Supervisors : pc[s] = "ended"
    BY DEF StackInit, Actors
  <1>4. Undisturbed
    BY <1>3 DEF StackInit, Undisturbed, Works, Starting, Cleaning, Stage, Owned, Actors
  <1> QED BY <1>1, <1>2, <1>4 DEF StackInv

-----------------------------------------------------------------------------
(* Types, traps and the kinds of processes on record: they hold whoever    *)
(* meddles.                                                                *)

\* stop_owned_process, in a command or in a trap.
LEMMA OwnedTypes ==
  ASSUME StackType, NEW a \in Actors, NEW f, NEW x \in Services, NEW waiting \in Places,
         NEW next \in Places, UNCHANGED meddled,
         KillOwned(a, f, x, waiting, next) \/ WaitOwned(a, f, x, next, waiting)
  PROVE  StackType'
  <1>1. pc' \in [Actors -> Places]
    BY DEF StackType, KillOwned, WaitOwned, Goes
  <1>2. pidFile' \in [Services -> Pids \cup {NoProcess}]
    BY DEF StackType, KillOwned, WaitOwned
  <1>3. target' \in [Frames -> Pids \cup Supervisors \cup {NoProcess}]
    BY DEF StackType, KillOwned, WaitOwned
  <1>4. outlived' \subseteq alive'
    BY DEF StackType, KillOwned, WaitOwned, serviceVars
  <1> QED BY <1>1, <1>2, <1>3, <1>4 DEF StackType, KillOwned, WaitOwned, serviceVars

LEMMA SupervisorTypes ==
  ASSUME StackType, NEW s \in Supervisors,
         Begin(s) \/ SupervisorStep(s) \/ Terminate(s) \/ Interrupt(s) \/ KillSupervisor(s)
  PROVE  StackType'
  <1> USE StackAssumption
  <1> USE DEF StackType, Goes, Actors, Places, Over, commandVars, fileVars, serviceVars,
              history
  <1>1. CASE Begin(s) \/ Claim(s)
    BY <1>1 DEF Begin, Claim
  <1>2. ASSUME NEW x \in Services, Fork(s, x) PROVE StackType'
    BY <1>2 DEF Fork, FreePids
  <1>3. ASSUME Fail(s), UNCHANGED <<fileVars, serviceVars, history>> \/
               (UNCHANGED <<supervisorFile, serviceVars, history>> /\ UNCHANGED pidFile)
        PROVE  StackType'
    BY <1>3 DEF Fail, Forgotten
  <1>4. CASE StartOrcalab(s)
    BY <1>4, <1>2 DEF StartOrcalab, Services
  <1>5. CASE Record(s)
    BY <1>5 DEF Record
  <1>6. CASE Await(s)
    BY <1>6, <1>3 DEF Await
  <1>7. CASE StartNavila(s)
    BY <1>7, <1>2, <1>3 DEF StartNavila, Services
  <1>8. CASE Watch(s)
    BY <1>8, <1>3 DEF Watch, BeforeRestart
  <1>9. ASSUME NEW a \in Actors, NEW f, NEW x \in Services, NEW waiting \in Places,
               NEW next \in Places, KillOwned(a, f, x, waiting, next), UNCHANGED meddled
        PROVE  StackType'
    BY <1>9, OwnedTypes
  <1>10. ASSUME NEW a \in Actors, NEW f, NEW x \in Services, NEW next \in Places,
                NEW failure \in Places, WaitOwned(a, f, x, next, failure), UNCHANGED meddled
         PROVE  StackType'
    BY <1>10, OwnedTypes
  <1>11. CASE Replace(s) \/ Replacing(s)
    BY <1>11, <1>9, <1>10 DEF Replace, Replacing, Services
  <1>12. CASE CleanUp(s)
    BY <1>12, <1>9, <1>10 DEF CleanUp, Services, AfterNavila
  <1>13. ASSUME NEW to \in Places, Goes(s, to) PROVE pc' \in [Actors -> Places]
    BY <1>13
  <1>14. ASSUME Forgotten(s)
         PROVE  /\ target' \in [Frames -> Pids \cup Supervisors \cup {NoProcess}]
                /\ resume' \in [Supervisors -> Places] /\ term' \subseteq Supervisors
                /\ forking' \in [Supervisors -> Pids \cup {NoProcess}]
    <2>1. target' \in [Frames -> Pids \cup Supervisors \cup {NoProcess}]
      BY <1>14 DEF Forgotten
    <2>2. resume' \in [Supervisors -> Places]
      BY <1>14 DEF Forgotten
    <2>3. forking' \in [Supervisors -> Pids \cup {NoProcess}]
      BY <1>14 DEF Forgotten
    <2>4. term' \subseteq Supervisors
      BY <1>14 DEF Forgotten
    <2> QED BY <2>1, <2>2, <2>3, <2>4
  <1>15. ASSUME NEW places \in SUBSET Places, Trap(s, places)
         PROVE  /\ pc' \in [Actors -> Places]
                /\ target' \in [Frames -> Pids \cup Supervisors \cup {NoProcess}]
                /\ trapped' \subseteq Supervisors /\ term' \subseteq Supervisors
                /\ resume' \in [Supervisors -> Places]
                /\ forking' \in [Supervisors -> Pids \cup {NoProcess}]
    <2>1. CASE s \in trapped
      <3>1. /\ Goes(s, "kill navila") /\ trapped' = trapped \ {s} /\ term' = term \ {s}
            /\ UNCHANGED <<target, forking>>
        BY <1>15, <2>1 DEF Trap
      <3>2. PICK to \in places : resume' = [resume EXCEPT ![s] = to]
        BY <1>15, <2>1 DEF Trap
      <3>3. resume' \in [Supervisors -> Places]
        BY <3>2
      <3>4. pc' \in [Actors -> Places]
        BY <3>1, <1>13
      <3> QED BY <3>1, <3>3, <3>4
    <2>2. CASE s \notin trapped
      <3>1. Goes(s, "ended") /\ Forgotten(s) /\ UNCHANGED trapped
        BY <1>15, <2>2 DEF Trap
      <3>2. pc' \in [Actors -> Places]
        BY <3>1, <1>13
      <3> QED BY <3>1, <3>2, <1>14
    <2> QED BY <2>1, <2>2
  <1>16. CASE Remove(s)
    <2>1. pc' \in [Actors -> Places]
      BY <1>16, <1>13 DEF Remove
    <2>2. /\ target' \in [Frames -> Pids \cup Supervisors \cup {NoProcess}]
          /\ resume' \in [Supervisors -> Places] /\ term' \subseteq Supervisors
          /\ forking' \in [Supervisors -> Pids \cup {NoProcess}]
      <3>1. Forgotten(s) \/ UNCHANGED <<target, resume, term, forking>>
        BY <1>16 DEF Remove
      <3> QED BY <3>1, <1>14
    <2>3. /\ supervisorFile' = NoProcess
          /\ UNCHANGED <<trapped, pidFile, serviceVars, history>>
      BY <1>16 DEF Remove
    <2> QED BY <2>1, <2>2, <2>3
  <1>17. pc[s] \in Places
    OBVIOUS
  <1>18. CASE Terminate(s)
    <2>1. Trap(s, {pc[s]}) /\ UNCHANGED <<fileVars, serviceVars, history>>
      BY <1>18 DEF Terminate
    <2>2. {pc[s]} \in SUBSET Places
      BY <1>17
    <2> QED BY <2>1, <2>2, <1>15
  <1>19. CASE Interrupt(s)
    <2>1. /\ Trap(s, {pc[s], "ended"}) /\ UNCHANGED <<fileVars, serviceVars, outlived>>
          /\ meddled' \in BOOLEAN
      BY <1>19 DEF Interrupt
    <2>2. {pc[s], "ended"} \in SUBSET Places
      BY <1>17
    <2> QED BY <2>1, <2>2, <1>15
  <1>20. CASE KillSupervisor(s)
    <2>1. /\ Goes(s, "ended") /\ Forgotten(s) /\ trapped' = trapped \ {s}
          /\ meddled' = TRUE /\ UNCHANGED <<fileVars, serviceVars, outlived>>
      BY <1>20 DEF KillSupervisor
    <2>2. pc' \in [Actors -> Places]
      BY <2>1, <1>13
    <2> QED BY <2>1, <2>2, <1>14
  <1> QED BY <1>1, <1>4, <1>5, <1>6, <1>7, <1>8, <1>11, <1>12, <1>16, <1>18, <1>19, <1>20
          DEF SupervisorStep

LEMMA StopTypes == ASSUME StackType, NEW t \in Stops, StopStep(t) PROVE StackType'
  <1> USE StackAssumption
  <1> USE DEF StackType, Goes, Actors, Places, Over, commandVars, fileVars, serviceVars,
              history
  <1>1. CASE BeginStop(t)
    BY <1>1 DEF BeginStop, SupervisorRuns
  <1>2. CASE AwaitSupervisor(t)
    BY <1>2 DEF AwaitSupervisor
  <1>3. CASE StopServices(t)
    <2>1. ASSUME NEW x \in Services, NEW waiting \in Places, NEW next \in Places,
                 KillOwned(t, t, x, waiting, next), UNCHANGED meddled
          PROVE  StackType'
      BY <2>1, OwnedTypes
    <2>2. ASSUME NEW x \in Services, NEW next \in Places, NEW failure \in Places,
                 WaitOwned(t, t, x, next, failure), UNCHANGED meddled
          PROVE  StackType'
      BY <2>2, OwnedTypes
    <2> QED BY <1>3, <2>1, <2>2 DEF StopServices, Services
  <1>4. CASE Report(t)
    BY <1>4 DEF Report
  <1> QED BY <1>1, <1>2, <1>3, <1>4 DEF StopStep

LEMMA ServiceTypes ==
  ASSUME StackType,
         (\E p \in Pids : Answers(p) \/ LosesPort(p) \/ ServiceDies(p))
            \/ OtherBackendGoes \/ UNCHANGED stackVars
  PROVE  StackType'
  <1> USE DEF StackType, commandVars, fileVars, serviceVars, history
  <1>1. ASSUME NEW p \in Pids, Answers(p) \/ LosesPort(p) \/ ServiceDies(p)
        PROVE  StackType'
    BY <1>1 DEF Answers, LosesPort, ServiceDies
  <1>2. CASE OtherBackendGoes
    BY <1>2 DEF OtherBackendGoes
  <1>3. CASE UNCHANGED stackVars
    BY <1>3 DEF stackVars
  <1> QED BY <1>1, <1>2, <1>3

\* A command that moves keeps the traps where they belong.
LEMMA TrapsKept ==
  ASSUME StackType, TrapInv, NEW a \in Actors, NEW to, Goes(a, to),
         \/ trapped' = trapped /\ (a \in trapped => to \in Starting)
         \/ trapped' = trapped \ {a}
         \/ trapped' = trapped \cup {a} /\ to \in Starting
  PROVE  TrapInv'
  BY DEF StackType, TrapInv, Goes, Actors

LEMMA SupervisorTraps ==
  ASSUME StackType, TrapInv, NEW s \in Supervisors,
         Begin(s) \/ SupervisorStep(s) \/ Terminate(s) \/ Interrupt(s) \/ KillSupervisor(s)
  PROVE  TrapInv'
  <1>1. s \in Actors
    BY DEF Actors
  <1>2. pc[s] \in Starting \/ s \notin trapped
    BY DEF TrapInv
  <1> DEFINE Moves == \E to : /\ Goes(s, to)
                               /\ \/ trapped' = trapped /\ (s \in trapped => to \in Starting)
                                  \/ trapped' = trapped \ {s}
                                  \/ trapped' = trapped \cup {s} /\ to \in Starting
  <1>3. Moves
    <2>1. CASE Begin(s)
      BY <1>2, <2>1 DEF Begin, Over, Starting
    <2>2. CASE Claim(s)
      BY <2>2 DEF Claim, Starting
    <2>3. ASSUME Fail(s) PROVE Moves
      BY <2>3 DEF Fail
    <2>4. CASE StartOrcalab(s) \/ Record(s)
      BY <2>4 DEF StartOrcalab, Record, Fork, Starting
    <2>5. CASE Await(s) \/ StartNavila(s)
      BY <2>3, <2>5 DEF Await, StartNavila, Fork, Starting
    <2>6. CASE Watch(s)
      BY <2>3, <2>6 DEF Watch, BeforeRestart, Starting
    <2>7. CASE Replace(s) \/ Replacing(s)
      BY <2>7 DEF Replace, Replacing, KillOwned, WaitOwned, Starting
    <2>8. CASE CleanUp(s)
      BY <1>2, <2>8 DEF CleanUp, KillOwned, WaitOwned, Starting
    <2>9. CASE Remove(s)
      BY <1>2, <2>9 DEF Remove, Starting
    <2>10. CASE Terminate(s) \/ Interrupt(s) \/ KillSupervisor(s)
      BY <2>10 DEF Terminate, Interrupt, KillSupervisor, Trap
    <2> QED BY <2>1, <2>2, <2>4, <2>5, <2>6, <2>7, <2>8, <2>9, <2>10 DEF SupervisorStep
  <1> QED BY <1>1, <1>3, TrapsKept

LEMMA OtherTraps ==
  ASSUME StackType, TrapInv,
         \/ \E t \in Stops : StopStep(t)
         \/ \E p \in Pids : Answers(p) \/ LosesPort(p) \/ ServiceDies(p)
         \/ OtherBackendGoes \/ UNCHANGED stackVars
  PROVE  TrapInv'
  <1>1. ASSUME NEW t \in Stops, StopStep(t) PROVE TrapInv'
    <2>1. (\E to : Goes(t, to)) /\ trapped' = trapped /\ t \notin trapped /\ t \in Actors
      BY <1>1, StackAssumption DEF StopStep, BeginStop, AwaitSupervisor, StopServices, Report,
         KillOwned, WaitOwned, StackType, Actors
    <2> QED BY <2>1, TrapsKept
  <1>2. CASE UNCHANGED commandVars
    BY <1>2 DEF TrapInv, commandVars
  <1> QED BY <1>1, <1>2 DEF Answers, LosesPort, ServiceDies, OtherBackendGoes, stackVars

\* Only a supervisor that records what it started writes a number.
LEMMA KindsKept ==
  ASSUME StackType, StackType', KindInv, StackNext \/ UNCHANGED stackVars
  PROVE  KindInv'
  <1> DEFINE Files == \/ pidFile' = pidFile
                      \/ \E x \in Services : pidFile' = [pidFile EXCEPT ![x] = NoProcess]
                      \/ \E p : pidFile' = [pidFile EXCEPT ![Kind[p]] = p]
  <1>1. Files
    <2>1. ASSUME NEW s \in Supervisors,
                 Begin(s) \/ SupervisorStep(s) \/ Terminate(s) \/ Interrupt(s)
                    \/ KillSupervisor(s)
          PROVE  Files
      <3>1. CASE Begin(s) \/ Claim(s) \/ StartOrcalab(s) \/ Await(s) \/ StartNavila(s)
                    \/ Remove(s) \/ Terminate(s) \/ Interrupt(s) \/ KillSupervisor(s)
        BY <3>1 DEF Begin, Claim, StartOrcalab, Fork, Await, StartNavila, Remove, Terminate,
                    Interrupt, KillSupervisor, fileVars
      <3>2. CASE Record(s)
        BY <3>2 DEF Record
      <3>3. CASE Watch(s) \/ Replace(s) \/ Replacing(s) \/ CleanUp(s)
        BY <3>3 DEF Watch, Replace, Replacing, CleanUp, KillOwned, WaitOwned, Services
      <3> QED BY <2>1, <3>1, <3>2, <3>3 DEF SupervisorStep
    <2>2. ASSUME NEW t \in Stops, StopStep(t) PROVE Files
      BY <2>2 DEF StopStep, BeginStop, AwaitSupervisor, StopServices, Report, KillOwned,
                  WaitOwned, Services, fileVars
    <2>3. CASE \/ \E p \in Pids : Answers(p) \/ LosesPort(p) \/ ServiceDies(p)
               \/ OtherBackendGoes \/ UNCHANGED stackVars
      BY <2>3 DEF Answers, LosesPort, ServiceDies, OtherBackendGoes, stackVars, fileVars
    <2> QED BY <2>1, <2>2, <2>3 DEF StackNext
  <1> QED BY <1>1 DEF KindInv, StackType

-----------------------------------------------------------------------------
(* Undisturbed, step by step.                                              *)

\* The supervisor that works moves on and goes on working.
LEMMA WorkerMoves ==
  ASSUME StackType, Undisturbed, NEW s \in Supervisors, Works(s),
         NEW to \in Starting \cup Cleaning, Goes(s, to),
         supervisorFile' = supervisorFile, term' = term,
         to \in Starting => s \in trapped',
         to \in Cleaning => resume'[s] = "ended",
         Stage(s)', \A p \in Owned' : OnRecord(p)'
  PROVE  Undisturbed'
  <1> USE StackAssumption
  <1>1. /\ pc'[s] = to /\ Works(s)'
        /\ \A a \in Actors : a # s => pc'[a] = pc[a]
    BY DEF StackType, Goes, Actors, Works
  <1>2. \A r \in Supervisors : r # s => pc[r] = "ended" /\ pc'[r] = "ended"
    BY <1>1 DEF Undisturbed, Actors
  <1>3. \A t \in Stops : pc'[t] = "idle"
    BY <1>1 DEF Undisturbed, Actors
  <1>4. \A r \in Supervisors :
          /\ pc'[r] \in Starting \cup Cleaning \cup {"claim", "ended"}
          /\ pc'[r] \in Starting => r \in trapped'
          /\ pc'[r] \in Cleaning => resume'[r] = "ended"
          /\ Works(r)' => r = s
    BY <1>1, <1>2 DEF Starting, Cleaning, Works
  <1>5. \A r \in Supervisors : Stage(r)'
    BY <1>2 DEF Stage
  <1> QED BY <1>1, <1>2, <1>3, <1>4, <1>5 DEF Undisturbed

\* Unless it is recording a new process, all that is owned is on record ...
LEMMA AllOnFile ==
  ASSUME Undisturbed, NEW s \in Supervisors, Works(s), pc[s] # "record"
  PROVE  \A p \in Owned : p = pidFile[Kind[p]]
  BY DEF Undisturbed, OnRecord, Works

\* ... so a file that names nothing alive says that nothing is owned.
LEMMA NoneOwned ==
  ASSUME Undisturbed, NEW s \in Supervisors, Works(s), pc[s] # "record",
         NEW x, pidFile[x] \notin Owned
  PROVE  \A p \in Owned : Kind[p] # x
  BY AllOnFile

\* A supervisor that fails, or is interrupted for good, cleans up.
LEMMA WorkerFails ==
  ASSUME StackType, TrapInv, Undisturbed, NEW s \in Supervisors, s \in trapped, pc[s] # "record",
         Goes(s, "kill navila"), resume'[s] = "ended", term' = term,
         UNCHANGED <<fileVars, serviceVars, outlived>>
  PROVE  Undisturbed'
  <1>1. Works(s)
    BY DEF TrapInv, Works
  <1>2. Owned' = Owned
    BY DEF Owned, serviceVars
  <1>3. \A p \in Owned' : OnRecord(p)'
    BY <1>1, <1>2, AllOnFile DEF OnRecord, fileVars
  <1>4. pc'[s] = "kill navila"
    BY DEF StackType, Goes, Actors
  <1>5. Stage(s)'
    BY <1>4 DEF Stage
  <1> QED BY <1>1, <1>3, <1>5, WorkerMoves DEF Starting, Cleaning, fileVars

\* stop_owned_process, first half: either the process is there and is waited
\* for, or none of its service is.
LEMMA KillKeeps ==
  ASSUME StackType, KindInv, Undisturbed, NEW s \in Supervisors, Works(s), pc[s] # "record",
         NEW x \in Services, NEW f \in Frames, NEW waiting \in Starting \cup Cleaning,
         NEW next \in Starting \cup Cleaning, waiting # "record", next # "record",
         waiting \in Starting \/ next \in Starting => s \in trapped,
         waiting \in Cleaning \/ next \in Cleaning => resume[s] = "ended",
         KillOwned(s, f, x, waiting, next)
  PROVE  /\ Owned' = Owned
         /\ \A p \in Owned' : OnRecord(p)'
         /\ \/ Goes(s, waiting) /\ target'[f] = pidFile'[x] /\ pidFile' = pidFile
            \/ Goes(s, next) /\ \A p \in Owned : Kind[p] # x
         /\ Stage(s)' => Undisturbed'
  <1>1. Owned' = Owned
    BY DEF KillOwned, serviceVars, Owned
  <1>2. \/ Goes(s, waiting) /\ target'[f] = pidFile'[x] /\ pidFile' = pidFile
        \/ Goes(s, next) /\ (\A p \in Owned : Kind[p] # x)
              /\ pidFile' = [pidFile EXCEPT ![x] = NoProcess]
    <2>1. CASE pidFile[x] \in alive
      BY <2>1 DEF KillOwned, StackType
    <2>2. CASE pidFile[x] \notin alive
      BY <2>2, NoneOwned DEF KillOwned, Owned
    <2> QED BY <2>1, <2>2
  <1>3. \A p \in Owned' : p = pidFile'[Kind[p]]
    <2>1. \A p \in Owned : p = pidFile[Kind[p]] /\ Kind[p] \in Services
      BY AllOnFile, StackAssumption DEF Owned, StackType
    <2>2. pidFile \in [Services -> Pids \cup {NoProcess}]
      BY DEF StackType
    <2> QED BY <1>1, <1>2, <2>1, <2>2
  <1>4. \A p \in Owned' : OnRecord(p)'
    BY <1>3 DEF OnRecord
  <1>5. ASSUME Stage(s)' PROVE Undisturbed'
    <2>1. \E to \in {waiting, next} : Goes(s, to)
      BY <1>2
    <2>2. UNCHANGED <<supervisorFile, term, trapped, resume>>
      BY DEF KillOwned
    <2> QED BY <1>4, <1>5, <2>1, <2>2, WorkerMoves
  <1> QED BY <1>1, <1>2, <1>4, <1>5

\* Its second half: afterwards none of the service is owned, because the
\* process is gone or has outlived its deadline.
LEMMA WaitKeeps ==
  ASSUME StackType, Undisturbed, ~meddled, NEW s \in Supervisors, Works(s), pc[s] # "record",
         NEW x \in Services, NEW f \in Frames, target[f] = pidFile[x],
         NEW next \in Starting \cup Cleaning, next # "record",
         next \in Starting => s \in trapped,
         next \in Cleaning => resume[s] = "ended",
         WaitOwned(s, f, x, next, next)
  PROVE  /\ Goes(s, next)
         /\ Owned' \subseteq Owned
         /\ \A p \in Owned' : Kind[p] # x
         /\ Stage(s)' => Undisturbed'
  <1>1. Goes(s, next) /\ UNCHANGED <<supervisorFile, term, trapped, resume, alive>>
    BY DEF WaitOwned, serviceVars
  <1>2. /\ Owned' \subseteq Owned
        /\ \A p \in Owned' : Kind[p] # x
        /\ \A p \in Owned' : p = pidFile'[Kind[p]]
    <2>1. CASE target[f] \notin alive
      <3>1. \A p \in Owned : Kind[p] # x
        BY <2>1, NoneOwned DEF Owned
      <3>2. Owned' = Owned /\ pidFile' = [pidFile EXCEPT ![x] = NoProcess]
        BY <1>1, <2>1 DEF WaitOwned, Owned
      <3>3. \A p \in Owned : p = pidFile[Kind[p]] /\ Kind[p] \in Services
        BY AllOnFile, StackAssumption DEF Owned, StackType
      <3>4. pidFile \in [Services -> Pids \cup {NoProcess}]
        BY DEF StackType
      <3> QED BY <3>1, <3>2, <3>3, <3>4
    <2>2. CASE target[f] \in alive
      <3>1. outlived' = outlived \cup {pidFile[x]} /\ pidFile' = pidFile
        BY <2>2 DEF WaitOwned
      <3>2. Owned' = Owned \ {pidFile[x]}
        BY <1>1, <3>1 DEF Owned
      <3> QED BY <3>1, <3>2, AllOnFile
    <2> QED BY <2>1, <2>2
  <1>3. \A p \in Owned' : OnRecord(p)'
    BY <1>2 DEF OnRecord
  <1>4. ASSUME Stage(s)' PROVE Undisturbed'
    BY <1>1, <1>3, <1>4, WorkerMoves
  <1> QED BY <1>1, <1>2, <1>4

\* start_stack: an own supervisor.pid that runs keeps a second one out.
LEMMA BeginKeeps ==
  ASSUME StackType, Undisturbed, NEW s \in Supervisors, Begin(s)
  PROVE  Undisturbed'
  <1> USE StackAssumption
  <1>1. pc[s] = "ended" /\ ~Works(s)
    BY DEF Begin, Undisturbed, Over, Starting, Cleaning, Works
  <1>2. Owned' = Owned /\ UNCHANGED <<trapped, resume, term, forking, pidFile>>
    BY DEF Begin, serviceVars, Owned
  <1>3. CASE SupervisorRuns
    <2>1. pc' = pc
      BY <1>1, <1>3 DEF Begin, Goes, StackType, Actors
    <2>2. supervisorFile' = supervisorFile
      BY <1>1, <1>3 DEF Begin, SupervisorRuns, Over
    <2>3. \A f \in Frames, x \in Services : target[f] = pidFile[x] => target'[f] = target[f]
      BY DEF Begin, StackType
    <2>4. \A r \in Supervisors : r \in Frames /\ TrapOf(r) \in Frames
      BY DEF Frames, Actors
    <2>5. ASSUME NEW r \in Supervisors PROVE Stage(r)'
      <3>1. Stage(r)
        BY DEF Undisturbed
      <3> QED BY <1>2, <2>1, <2>3, <2>4, <3>1 DEF Stage, NoBackend, Awaited, Services
    <2> QED BY <1>2, <2>1, <2>2, <2>5 DEF Undisturbed, Works, OnRecord
  <1>4. CASE ~SupervisorRuns
    <2>1. \A r \in Supervisors : ~Works(r)
      <3>1. ASSUME NEW r \in Supervisors, Works(r) PROVE FALSE
        <4>1. supervisorFile = r /\ pc[r] \in Starting \cup Cleaning
          BY <3>1 DEF Undisturbed, Works
        <4> QED BY <1>4, <4>1 DEF SupervisorRuns, Starting, Cleaning, Over
      <3> QED BY <3>1
    <2>2. Owned' = {}
      BY <1>2, <2>1 DEF Undisturbed
    <2>3. /\ \A t \in Stops : pc'[t] = "idle"
          /\ \A r \in Supervisors : pc'[r] \in {"claim", "ended"}
      BY <1>4, <2>1 DEF Begin, Goes, StackType, Actors, Undisturbed, Works
    <2>4. \A r \in Supervisors : ~Works(r)' /\ Stage(r)'
      BY <2>3 DEF Works, Stage, Starting, Cleaning
    <2> QED BY <1>2, <2>2, <2>3, <2>4 DEF Undisturbed, Works
  <1> QED BY <1>3, <1>4

\* Whoever claims the stack alone finds nothing that its predecessors left.
LEMMA ClaimKeeps ==
  ASSUME StackType, Undisturbed, NEW s \in Supervisors, Claim(s), ~meddled'
  PROVE  Undisturbed'
  <1> USE StackAssumption
  <1>1. Live = {s} /\ pc[s] = "claim"
    BY DEF Claim
  <1>2. \A r \in Supervisors : r # s => pc[r] = "ended"
    BY <1>1 DEF Live, Undisturbed, Over, Starting, Cleaning
  <1>3. Owned = {}
    BY <1>1, <1>2 DEF Undisturbed, Works, Starting, Cleaning
  <1>4. Owned' = {} /\ UNCHANGED <<resume, term, forking, pidFile>>
    BY <1>3 DEF Claim, serviceVars, Owned
  <1>5. /\ pc'[s] = "orcalab" /\ supervisorFile' = s /\ s \in trapped'
        /\ \A a \in Actors : a # s => pc'[a] = pc[a]
    BY DEF Claim, Goes, StackType, Actors
  <1>6. \A r \in Supervisors : r # s => pc'[r] = "ended"
    BY <1>2, <1>5 DEF Actors
  <1>7. \A t \in Stops : pc'[t] = "idle"
    BY <1>5 DEF Undisturbed, Actors
  <1>8. \A r \in Supervisors : Stage(r)'
    BY <1>4, <1>5, <1>6 DEF Stage
  <1>9. \A r \in Supervisors :
          /\ pc'[r] \in Starting \cup Cleaning \cup {"claim", "ended"}
          /\ pc'[r] \in Starting => r \in trapped'
          /\ pc'[r] \notin Cleaning
          /\ Works(r)' => r = s
    BY <1>5, <1>6 DEF Starting, Cleaning, Works
  <1> QED BY <1>4, <1>5, <1>6, <1>7, <1>8, <1>9 DEF Undisturbed

\* start_owned_process, first half.
LEMMA ForkKeeps ==
  ASSUME StackType, Undisturbed, NEW s \in Supervisors, Works(s), s \in trapped,
         pc[s] # "record", NEW x \in Services, Fork(s, x), \A p \in Owned : Kind[p] # x,
         x = "orcalab" => Owned = {}
  PROVE  Undisturbed'
  <1> USE StackAssumption
  <1>1. PICK p \in FreePids(x) : alive' = alive \cup {p} /\ forking' = [forking EXCEPT ![s] = p]
    BY DEF Fork
  <1>2. p \in Pids /\ p \notin alive /\ Kind[p] = x
    BY DEF FreePids
  <1>3. /\ Goes(s, "record") /\ forking'[s] = p /\ pc'[s] = "record"
        /\ UNCHANGED <<supervisorFile, term, trapped, pidFile>>
    BY <1>1 DEF Fork, Goes, StackType, Actors, fileVars
  <1>4. Owned' = Owned \cup {p}
    BY <1>1, <1>2 DEF Fork, history, Owned, StackType
  <1>5. Stage(s)'
    BY <1>2, <1>3, <1>4 DEF Stage, NoBackend
  <1>6. \A q \in Owned' : OnRecord(q)'
    BY <1>3, <1>4, AllOnFile DEF OnRecord
  <1> QED BY <1>3, <1>5, <1>6, WorkerMoves DEF Starting, Cleaning

\* Its second half.
LEMMA RecordKeeps ==
  ASSUME StackType, Undisturbed, NEW s \in Supervisors, Record(s)
  PROVE  Undisturbed'
  <1> USE StackAssumption
  <1> DEFINE p == forking[s]
  <1>1. Works(s) /\ s \in trapped /\ pc[s] = "record"
    BY DEF Record, Works, Starting, Undisturbed
  <1>2. /\ p \in Pids /\ p # NoProcess
        /\ \A q \in Owned : Kind[q] = Kind[p] => q = p
        /\ Kind[p] = "orcalab" => NoBackend
    BY <1>1 DEF Undisturbed, Stage
  <1>3. /\ pidFile' = [pidFile EXCEPT ![Kind[p]] = p] /\ Owned' = Owned /\ forking' = forking
        /\ pc'[s] = "await" /\ UNCHANGED <<supervisorFile, term, trapped>>
    BY DEF Record, Goes, StackType, Actors, serviceVars, history, Owned
  <1>4. \A q \in Owned : q = p \/ q = pidFile[Kind[q]]
    <2>1. \A r \in Supervisors : pc[r] = "record" => r = s
      BY <1>1 DEF Undisturbed
    <2> QED BY <2>1 DEF Undisturbed, OnRecord
  <1>5. \A q \in Owned' : q = pidFile'[Kind[q]]
    BY <1>2, <1>3, <1>4 DEF StackType, Owned
  <1>6. \A q \in Owned' : OnRecord(q)'
    BY <1>5 DEF OnRecord
  <1>7. Stage(s)'
    BY <1>2, <1>3 DEF Stage, Awaited, NoBackend
  <1> QED BY <1>1, <1>3, <1>6, <1>7, WorkerMoves DEF Record, Starting, Cleaning

\* Every other step of a supervisor that works.
LEMMA WorkerKeeps ==
  ASSUME StackType, TrapInv, KindInv, Undisturbed, ~meddled, NEW s \in Supervisors,
         StartOrcalab(s) \/ Await(s) \/ StartNavila(s) \/ Watch(s) \/ Replace(s)
            \/ Replacing(s) \/ CleanUp(s)
  PROVE  Undisturbed'
  <1> USE StackAssumption
  <1>1. /\ Works(s) /\ pc[s] # "record"
        /\ pc[s] \in Starting => s \in trapped
        /\ pc[s] \in Cleaning => resume[s] = "ended"
        /\ Stage(s)
    BY DEF StartOrcalab, Await, StartNavila, Watch, Replace, Replacing, CleanUp, Works,
           Starting, Cleaning, Undisturbed
  <1>2. s \in Frames /\ TrapOf(s) \in Frames /\ s \in Actors
    BY DEF Frames, Actors
  <1>3. ASSUME pc[s] \in Starting, Fail(s), UNCHANGED <<fileVars, serviceVars, history>>
        PROVE  Undisturbed'
    <2>1. /\ s \in trapped /\ Goes(s, "kill navila") /\ term' = term /\ resume'[s] = "ended"
          /\ outlived' = outlived
      BY <1>1, <1>3 DEF Fail, StackType, history
    <2> QED BY <1>1, <1>3, <2>1, WorkerFails
  <1>4. ASSUME pc[s] \in Starting, NEW to \in Starting, to # "record", Goes(s, to),
               UNCHANGED <<supervisorFile, serviceVars, history, trapped, term>>,
               Stage(s)', \A p \in Owned : p = pidFile'[Kind[p]]
        PROVE  Undisturbed'
    <2>1. Owned' = Owned
      BY <1>4 DEF Owned, serviceVars, history
    <2>2. \A p \in Owned' : OnRecord(p)'
      BY <1>4, <2>1 DEF OnRecord
    <2> QED BY <1>1, <1>4, <2>2, WorkerMoves DEF Starting, Cleaning
  <1>5. \A to : Goes(s, to) => pc'[s] = to
    BY <1>2 DEF Goes, StackType
  <1>6. CASE StartOrcalab(s)
    <2>1. pc[s] \in Starting /\ Owned = {}
      BY <1>1, <1>6 DEF StartOrcalab, Starting, Stage
    <2>2. CASE Fork(s, "orcalab")
      BY <1>1, <2>1, <2>2, ForkKeeps DEF Services
    <2>3. CASE ~Fork(s, "orcalab")
      <3>1. /\ Goes(s, "await")
            /\ UNCHANGED <<trapped, term, fileVars, serviceVars, history>>
        BY <1>6, <2>3 DEF StartOrcalab
      <3>2. Owned' = {}
        BY <2>1, <3>1 DEF Owned, serviceVars, history
      <3>3. Stage(s)'
        BY <1>5, <3>1, <3>2 DEF Stage, NoBackend
      <3> QED BY <1>4, <2>1, <3>1, <3>3 DEF Starting, fileVars
    <2> QED BY <2>2, <2>3
  <1>7. CASE Await(s)
    <2>1. pc[s] \in Starting /\ UNCHANGED <<fileVars, serviceVars, history>>
      BY <1>7 DEF Await, Starting
    <2>2. CASE Fail(s)
      BY <1>3, <2>1, <2>2
    <2>3. CASE ~Fail(s)
      <3>1. /\ Goes(s, IF Awaited(s) = "orcalab" THEN "navila" ELSE "watch")
            /\ UNCHANGED <<trapped, term>>
        BY <1>7, <2>3 DEF Await
      <3>2. Owned' = Owned
        BY <2>1 DEF Owned, serviceVars, history
      <3>3. Stage(s)'
        BY <1>1, <1>5, <1>7, <3>1, <3>2 DEF Await, Stage, NoBackend
      <3>4. \A p \in Owned : p = pidFile'[Kind[p]]
        BY <1>1, <2>1, AllOnFile DEF fileVars
      <3> QED BY <1>4, <2>1, <3>1, <3>3, <3>4 DEF Starting, fileVars
    <2> QED BY <2>2, <2>3
  <1>8. CASE StartNavila(s)
    <2>1. pc[s] \in Starting /\ NoBackend
      BY <1>1, <1>8 DEF StartNavila, Starting, Stage
    <2>2. CASE Fork(s, "navila")
      BY <1>1, <2>1, <2>2, ForkKeeps DEF Services, NoBackend
    <2>3. CASE Fail(s) /\ UNCHANGED <<fileVars, serviceVars, history>>
      BY <1>3, <2>1, <2>3
    <2>4. CASE /\ Goes(s, "watch")
               /\ UNCHANGED <<trapped, term, fileVars, serviceVars, history>>
      <3>1. Stage(s)'
        BY <1>5, <2>4 DEF Stage
      <3>2. \A p \in Owned : p = pidFile'[Kind[p]]
        BY <1>1, <2>4, AllOnFile DEF fileVars
      <3> QED BY <1>4, <2>1, <2>4, <3>1, <3>2 DEF Starting, fileVars
    <2> QED BY <1>8, <2>2, <2>3, <2>4 DEF StartNavila
  <1>9. CASE Watch(s)
    <2>1. pc[s] \in Starting /\ UNCHANGED <<supervisorFile, serviceVars, history>>
      BY <1>9 DEF Watch, Starting
    <2>2. CASE Fail(s) /\ pidFile' = pidFile
      BY <1>3, <2>1, <2>2 DEF fileVars
    <2>3. Owned' = Owned /\ Owned \subseteq alive
      BY <2>1 DEF Owned, serviceVars, history
    <2>4. CASE /\ Exited("navila") /\ Goes(s, "navila") /\ UNCHANGED <<trapped, term>>
               /\ pidFile' = [pidFile EXCEPT !["navila"] = NoProcess]
      <3>1. NoBackend
        BY <1>1, <2>3, <2>4, NoneOwned DEF Exited, NoBackend
      <3>2. Stage(s)'
        BY <1>5, <2>3, <2>4, <3>1 DEF Stage, NoBackend
      <3>3. \A p \in Owned : p = pidFile'[Kind[p]]
        BY <1>1, <2>4, <3>1, AllOnFile DEF NoBackend, StackType, Owned
      <3> QED BY <1>4, <2>1, <2>4, <3>2, <3>3 DEF Starting
    <2>5. CASE Goes(s, "replace") /\ UNCHANGED <<trapped, term, pidFile>>
      <3>1. Stage(s)'
        BY <1>5, <2>5 DEF Stage
      <3>2. \A p \in Owned : p = pidFile'[Kind[p]]
        BY <1>1, <2>5, AllOnFile
      <3> QED BY <1>4, <2>1, <2>5, <3>1, <3>2 DEF Starting
    <2> QED BY <1>9, <2>2, <2>4, <2>5 DEF Watch, BeforeRestart
  <1>10. CASE Replace(s)
    <2>1. pc[s] = "replace" /\ KillOwned(s, s, "navila", "replacing", "navila")
      BY <1>10 DEF Replace
    <2>2. /\ Owned' = Owned /\ (Stage(s)' => Undisturbed')
          /\ \/ Goes(s, "replacing") /\ target'[s] = pidFile'["navila"]
             \/ Goes(s, "navila") /\ \A p \in Owned : Kind[p] # "navila"
      BY <1>1, <1>2, <2>1, KillKeeps DEF Starting, Cleaning, Services
    <2> QED BY <1>5, <2>2 DEF Stage, NoBackend
  <1>11. CASE Replacing(s)
    <2>1. pc[s] = "replacing" /\ WaitOwned(s, s, "navila", "navila", "navila")
      BY <1>11 DEF Replacing
    <2>2. target[s] = pidFile["navila"]
      BY <1>1, <2>1 DEF Stage
    <2>3. /\ Goes(s, "navila") /\ (Stage(s)' => Undisturbed')
          /\ \A p \in Owned' : Kind[p] # "navila"
      BY <1>1, <1>2, <2>1, <2>2, WaitKeeps DEF Starting, Cleaning, Services
    <2> QED BY <1>5, <2>3 DEF Stage, NoBackend
  <1>12. CASE CleanUp(s)
    <2> DEFINE f == TrapOf(s)
    <2>1. CASE /\ pc[s] = "kill navila"
               /\ KillOwned(s, f, "navila", "wait navila", "kill orcalab")
      <3>1. /\ Owned' = Owned /\ (Stage(s)' => Undisturbed')
            /\ \/ Goes(s, "wait navila") /\ target'[f] = pidFile'["navila"]
               \/ Goes(s, "kill orcalab") /\ \A p \in Owned : Kind[p] # "navila"
        BY <1>1, <1>2, <2>1, KillKeeps DEF Starting, Cleaning, Services
      <3> QED BY <1>5, <3>1 DEF Stage, NoBackend
    <2>2. CASE /\ pc[s] = "wait navila"
               /\ WaitOwned(s, f, "navila", "kill orcalab", "kill orcalab")
      <3>1. target[f] = pidFile["navila"]
        BY <1>1, <2>2 DEF Stage
      <3>2. /\ Goes(s, "kill orcalab") /\ (Stage(s)' => Undisturbed')
            /\ \A p \in Owned' : Kind[p] # "navila"
        BY <1>1, <1>2, <2>2, <3>1, WaitKeeps DEF Starting, Cleaning, Services
      <3> QED BY <1>5, <3>2 DEF Stage, NoBackend
    <2>3. \A p \in Owned : Kind[p] \in {"orcalab", "navila"}
      BY DEF Owned, StackType, Services
    <2>4. CASE /\ pc[s] = "kill orcalab"
               /\ KillOwned(s, f, "orcalab", "wait orcalab", "remove")
      <3>1. NoBackend
        BY <1>1, <2>4 DEF Stage
      <3>2. /\ Owned' = Owned /\ (Stage(s)' => Undisturbed')
            /\ \/ Goes(s, "wait orcalab") /\ target'[f] = pidFile'["orcalab"]
               \/ Goes(s, "remove") /\ \A p \in Owned : Kind[p] # "orcalab"
        BY <1>1, <1>2, <2>4, KillKeeps DEF Starting, Cleaning, Services
      <3> QED BY <1>5, <2>3, <3>1, <3>2 DEF Stage, NoBackend
    <2>5. CASE /\ pc[s] = "wait orcalab"
               /\ WaitOwned(s, f, "orcalab", "remove", "remove")
      <3>1. NoBackend /\ target[f] = pidFile["orcalab"]
        BY <1>1, <2>5 DEF Stage
      <3>2. /\ Goes(s, "remove") /\ (Stage(s)' => Undisturbed') /\ Owned' \subseteq Owned
            /\ \A p \in Owned' : Kind[p] # "orcalab"
        BY <1>1, <1>2, <2>5, <3>1, WaitKeeps DEF Starting, Cleaning, Services
      <3>3. Owned' = {}
        BY <2>3, <3>1, <3>2 DEF NoBackend
      <3> QED BY <1>5, <3>2, <3>3 DEF Stage
    <2> QED BY <1>12, <2>1, <2>2, <2>4, <2>5 DEF CleanUp, AfterNavila
  <1> QED BY <1>6, <1>7, <1>8, <1>9, <1>10, <1>11, <1>12

\* The script exits only when nothing is owned any more.
LEMMA RemoveKeeps ==
  ASSUME StackType, Undisturbed, NEW s \in Supervisors, Remove(s)
  PROVE  Undisturbed'
  <1> USE StackAssumption
  <1>1. Works(s) /\ Owned = {} /\ resume[s] = "ended"
    BY DEF Remove, Undisturbed, Works, Stage, Cleaning
  <1>2. /\ Owned' = {} /\ Goes(s, "ended") /\ term' = {}
    BY <1>1 DEF Remove, Forgotten, serviceVars, history, Owned, Undisturbed
  <1>3. \A r \in Supervisors : pc'[r] = "ended"
    BY <1>1, <1>2 DEF Undisturbed, Goes, StackType, Actors
  <1>4. \A t \in Stops : pc'[t] = "idle"
    BY <1>2 DEF Undisturbed, Goes, StackType, Actors
  <1>5. \A r \in Supervisors : ~Works(r)' /\ Stage(r)'
    BY <1>3 DEF Works, Stage, Starting, Cleaning
  <1> QED BY <1>2, <1>3, <1>4, <1>5 DEF Undisturbed, Starting, Cleaning

\* Services come and go as they like.
LEMMA ServicesKeep ==
  ASSUME Undisturbed, UNCHANGED <<commandVars, fileVars>>, Owned' \subseteq Owned
  PROVE  Undisturbed'
  <1>1. ASSUME NEW s \in Supervisors PROVE Stage(s)'
    <2>1. Stage(s)
      BY DEF Undisturbed
    <2> QED BY <2>1 DEF Stage, NoBackend, Awaited, commandVars, fileVars
  <1> QED BY <1>1 DEF Undisturbed, Works, OnRecord, commandVars, fileVars

LEMMA StackStep == StackInv /\ [StackNext]_stackVars => StackInv'
  <1> SUFFICES ASSUME StackInv, [StackNext]_stackVars PROVE StackInv'
    OBVIOUS
  <1> USE StackAssumption
  <1> DEFINE Supervises(s) == \/ Begin(s) \/ SupervisorStep(s) \/ Terminate(s)
                              \/ Interrupt(s) \/ KillSupervisor(s)
             Serves == \/ \E p \in Pids : Answers(p) \/ LosesPort(p) \/ ServiceDies(p)
                       \/ OtherBackendGoes \/ UNCHANGED stackVars
  <1>1. \/ \E s \in Supervisors : Supervises(s)
        \/ \E t \in Stops : StopStep(t)
        \/ Serves
    BY DEF StackNext
  <1>2. StackType /\ TrapInv /\ KindInv
    BY DEF StackInv
  <1>3. StackType'
    BY <1>1, <1>2, SupervisorTypes, StopTypes, ServiceTypes
  <1>4. TrapInv'
    BY <1>1, <1>2, SupervisorTraps, OtherTraps
  <1>5. KindInv'
    BY <1>2, <1>3, KindsKept
  <1>6. ASSUME ~meddled' PROVE Undisturbed'
    <2>1. ASSUME NEW s \in Supervisors, Supervises(s), ~meddled PROVE Undisturbed'
      <3>1. Undisturbed
        BY <2>1 DEF StackInv
      <3>2. CASE Begin(s) \/ Claim(s) \/ Record(s) \/ Remove(s)
        BY <1>2, <1>6, <3>1, <3>2, BeginKeeps, ClaimKeeps, RecordKeeps, RemoveKeeps
      <3>3. CASE \/ StartOrcalab(s) \/ Await(s) \/ StartNavila(s) \/ Watch(s) \/ Replace(s)
                 \/ Replacing(s) \/ CleanUp(s)
        BY <1>2, <2>1, <3>1, <3>3, WorkerKeeps
      <3>4. CASE Terminate(s)
        BY <3>1, <3>4 DEF Terminate, Undisturbed
      <3>5. CASE Interrupt(s)
        <4>1. /\ s \in trapped /\ pc[s] # "record" /\ resume'[s] = "ended"
              /\ UNCHANGED <<fileVars, serviceVars, outlived>>
          BY <1>6, <3>5 DEF Interrupt
        <4>2. Goes(s, "kill navila") /\ term' = term
          BY <3>1, <3>5, <4>1 DEF Interrupt, Trap, Undisturbed
        <4> QED BY <1>2, <3>1, <4>1, <4>2, WorkerFails
      <3>6. CASE KillSupervisor(s)
        BY <1>6, <3>6 DEF KillSupervisor
      <3> QED BY <2>1, <3>2, <3>3, <3>4, <3>5, <3>6 DEF SupervisorStep
    <2>2. ASSUME NEW t \in Stops, StopStep(t), ~meddled PROVE FALSE
      <3>1. pc[t] = "idle"
        BY <2>2 DEF StackInv, Undisturbed
      <3> QED BY <1>6, <2>2, <3>1 DEF StopStep, BeginStop, AwaitSupervisor, StopServices, Report
    <2>3. CASE Serves /\ ~meddled
      <3>1. UNCHANGED <<commandVars, fileVars>> /\ Owned' \subseteq Owned
        <4>1. ASSUME NEW p \in Pids, Answers(p) \/ LosesPort(p) \/ ServiceDies(p)
              PROVE  <3>1
          BY <4>1 DEF Answers, LosesPort, ServiceDies, history, Owned
        <4>2. CASE OtherBackendGoes \/ UNCHANGED stackVars
          BY <4>2 DEF OtherBackendGoes, stackVars, serviceVars, history, Owned
        <4> QED BY <2>3, <4>1, <4>2
      <3>2. Undisturbed
        BY <2>3 DEF StackInv
      <3> QED BY <3>1, <3>2, ServicesKeep
    <2>4. ~meddled
      <3>1. ASSUME NEW s \in Supervisors, Supervises(s), meddled PROVE meddled'
        BY <3>1 DEF Begin, SupervisorStep, Claim, StartOrcalab, Fork, Record, Await, StartNavila,
                    Watch, Replace, Replacing, CleanUp, Remove, Terminate, Interrupt,
                    KillSupervisor, history
      <3>2. ASSUME NEW t \in Stops, StopStep(t), meddled PROVE meddled'
        BY <3>2 DEF StopStep, BeginStop, AwaitSupervisor, StopServices, Report, history
      <3>3. Serves /\ meddled => meddled'
        BY DEF Answers, LosesPort, ServiceDies, OtherBackendGoes, stackVars, history
      <3> QED BY <1>1, <1>6, <3>1, <3>2, <3>3
    <2> QED BY <1>1, <2>1, <2>2, <2>3, <2>4
  <1> QED BY <1>3, <1>4, <1>5, <1>6 DEF StackInv

\* Files, traps and the processes of both services agree about the stack, for
\* any number of terminals, calls of `stop` and processes.
THEOREM StackInvariance == StackSpec => []StackInv
  <1> QED BY StackStarts, StackStep, PTL DEF StackSpec

\* Every variable keeps its type; only live processes answer or outlive a
\* deadline.
THEOREM StackTypeCorrect == StackSpec => []StackType
  <1>1. StackInv => StackType
    BY DEF StackInv
  <1> QED BY <1>1, StackInvariance, PTL

\* One supervisor at a time, with its restarts, failures, interruptions and
\* successors, never loses a process that it started: what is alive is on
\* record, or about to be, or has outlived its deadline
\* (start_owned_process, stop_owned_process).
THEOREM NoProcessIsLost == StackSpec => []OwnedIsKnown
  <1>1. StackInv => OwnedIsKnown
    <2> SUFFICES ASSUME StackInv, ~meddled, NEW p \in alive, p \notin outlived
                 PROVE  p \in Recorded \cup {forking[s] : s \in Supervisors}
      BY DEF OwnedIsKnown
    <2>1. Kind[p] \in Services
      BY StackAssumption DEF StackInv, StackType
    <2>2. OnRecord(p)
      BY DEF StackInv, Undisturbed, Owned
    <2> QED BY <2>1, <2>2 DEF OnRecord, Recorded
  <1> QED BY <1>1, StackInvariance, PTL

\* A supervisor that ends by itself, or by Ctrl-C, leaves nothing running but
\* what has outlived its deadline (cleanup_supervisor).
THEOREM NothingIsLeftRunning == StackSpec => []ExitCleansUp
  <1>1. StackInv => ExitCleansUp
    BY DEF StackInv, Undisturbed, Stage, Owned, ExitCleansUp
  <1> QED BY <1>1, StackInvariance, PTL

=============================================================================
