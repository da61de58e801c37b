------------------------------ MODULE VlmLink ------------------------------
(***************************************************************************)
(* One inference per TCP connection: the clients of vlm_client.py and      *)
(* check_navvlm_endpoint.py, and the single thread of                      *)
(* scripts/navila_vlm_server.py that accepts, reads, infers and answers    *)
(* one connection at a time without a receive time-out of its own. The     *)
(* clients bound every connect, send and receive by a time-out.            *)
(*                                                                         *)
(* External: the kernel's queue of connections not yet accepted, hosts     *)
(* that vanish without closing, the model behind infer, and whoever starts *)
(* the server again after a crash.                                         *)
(***************************************************************************)
EXTENDS Naturals, Sequences, FiniteSets

CONSTANTS
    Clients,     \* callers of infer and of check_endpoint
    Checkers,    \* those of check_endpoint, who ask for the health object
    None,
    MaxCalls,    \* bound: calls made by all clients together
    Backlog,     \* connections the kernel queues for listen(1)
    MaxVanish,   \* bound: clients whose host vanishes
    MaxCrashes   \* bound: crashes of the server

ASSUME LinkAssumption ==
    /\ MaxCalls \in Nat /\ MaxVanish \in Nat /\ MaxCrashes \in Nat
    /\ Backlog \in Nat \ {0} /\ Checkers \subseteq Clients
    /\ None \notin Nat

VARIABLES
    calls,      \* calls made so far; call n is connection n
    conn,       \* the connections
    client,     \* for each client where it is and its connection
    server,     \* where the server's thread is
    cur,        \* the connection it serves
    backlog,    \* connections the kernel queued
    crashes     \* crashes so far

vars == <<calls, conn, client, server, cur, backlog, crashes>>

Ids == 1..MaxCalls

\* A connection: whether the health object was asked for, how much of the
\* request was sent (length, then body), whether the caller's and the server's
\* end are open, the request the answer was computed from, whether it is one
\* the caller accepts, whether it was sent, and what the caller made of it.
Connection == [health : BOOLEAN, sent : 0..2, near : BOOLEAN, far : BOOLEAN,
               computed : Ids \cup {None}, valid : BOOLEAN, replied : BOOLEAN,
               got : Ids \cup {None}]
NoConnection == [health |-> FALSE, sent |-> 0, near |-> FALSE, far |-> FALSE,
                 computed |-> None, valid |-> FALSE, replied |-> FALSE, got |-> None]

TypeOK ==
    /\ calls \in 0..MaxCalls
    /\ conn \in [Ids -> Connection]
    /\ client \in [Clients -> [at : {"idle", "connect", "send", "receive", "gone"},
                               on : Ids \cup {None}]]
    /\ server \in {"accept", "header", "body", "infer", "reply", "down"}
    /\ cur \in Ids \cup {None}
    /\ backlog \in Seq(Ids) /\ Len(backlog) <= Backlog
    /\ crashes \in 0..MaxCrashes

Init ==
    /\ calls = 0 /\ crashes = 0
    /\ conn = [n \in Ids |-> NoConnection]
    /\ client = [c \in Clients |-> [at |-> "idle", on |-> None]]
    /\ server = "accept" /\ cur = None /\ backlog = <<>>

-----------------------------------------------------------------------------
(* The client's side. *)

clientSide == <<server, cur, backlog, crashes>>
At(c, where) == client[c].at = where
Go(c, where) == client' = [client EXCEPT ![c].at = where]
Mine(c) == conn[client[c].on]

\* infer and check_endpoint: a connection of its own for every request.
Call(c) ==
    /\ At(c, "idle") /\ calls < MaxCalls
    /\ calls' = calls + 1
    /\ client' = [client EXCEPT ![c] = [at |-> "connect", on |-> calls + 1]]
    /\ conn' = [conn EXCEPT ![calls + 1] = [NoConnection EXCEPT !.health = c \in Checkers]]
    /\ UNCHANGED clientSide

\* The kernel completes a connection while its queue has room.
Connect(c) ==
    /\ At(c, "connect") /\ server # "down" /\ Len(backlog) < Backlog
    /\ backlog' = Append(backlog, client[c].on)
    /\ conn' = [conn EXCEPT ![client[c].on].near = TRUE, ![client[c].on].far = TRUE]
    /\ Go(c, "send")
    /\ UNCHANGED <<calls, server, cur, crashes>>

\* The two sendall calls, into the kernel's buffers.
Send(c) ==
    /\ At(c, "send") /\ Mine(c).far
    /\ conn' = [conn EXCEPT ![client[c].on].sent = @ + 1]
    /\ Go(c, IF Mine(c).sent = 1 THEN "receive" ELSE "send")
    /\ UNCHANGED <<calls, clientSide>>

\* The end of a call: the with block closes the socket.
Ended(c) == client' = [client EXCEPT ![c] = [at |-> "idle", on |-> None]]

\* An answer has to be a text that is not blank, or the health object with its
\* service, status and version.
Accepts(n) == conn[n].valid

\* The length and the answer.
Receive(c) ==
    /\ At(c, "receive") /\ Mine(c).replied
    /\ LET n == client[c].on IN
       conn' = [conn EXCEPT ![n].near = FALSE,
                            ![n].got = IF Accepts(n) THEN conn[n].computed ELSE None]
    /\ Ended(c)
    /\ UNCHANGED <<calls, clientSide>>

GiveUp(c) ==
    /\ conn' = [conn EXCEPT ![client[c].on].near = FALSE]
    /\ Ended(c)
    /\ UNCHANGED <<calls, clientSide>>

\* connect, send or a receive that has nothing to read.
Blocked(c) ==
    \/ At(c, "connect") \/ At(c, "send")
    \/ At(c, "receive") /\ ~Mine(c).replied

\* timeout_s bounds each of them.
TimesOut(c) == Blocked(c)
TimeOut(c) == TimesOut(c) /\ GiveUp(c)

\* Nobody listens, or the server closed the connection before it answered.
Refused(c) == At(c, "connect") /\ server = "down" /\ GiveUp(c)
ClosedByServer(c) ==
    Blocked(c) /\ ~At(c, "connect") /\ ~Mine(c).far /\ GiveUp(c)

\* The client's host vanishes: its end stays open and says nothing any more.
Vanish(c) ==
    /\ ~At(c, "gone")
    /\ Cardinality({d \in Clients : At(d, "gone")}) < MaxVanish
    /\ client' = [client EXCEPT ![c] = [at |-> "gone", on |-> None]]
    /\ UNCHANGED <<calls, conn, clientSide>>

-----------------------------------------------------------------------------
(* The server's side. *)

serverSide == <<calls, client, crashes>>

\* serve_forever: the next connection, also one whose caller gave up.
Accept ==
    /\ server = "accept" /\ backlog # <<>>
    /\ cur' = Head(backlog) /\ backlog' = Tail(backlog)
    /\ server' = "header"
    /\ UNCHANGED <<serverSide, conn>>

\* The end of _handle_request, normal or by an exception: the connection is
\* closed and the loop goes on.
BackToAccept == server' = "accept" /\ cur' = None
Dies == server' = "down" /\ cur' = None
AfterException == BackToAccept

CloseConnection(next) ==
    /\ conn' = [conn EXCEPT ![cur].far = FALSE]
    /\ next
    /\ UNCHANGED <<serverSide, backlog>>

ReadHeader ==
    /\ server = "header" /\ conn[cur].sent >= 1
    /\ server' = "body"
    /\ UNCHANGED <<serverSide, conn, cur, backlog>>

ReadBody ==
    /\ server = "body" /\ conn[cur].sent = 2
    /\ server' = "infer"
    /\ UNCHANGED <<serverSide, conn, cur, backlog>>

\* The caller closed its end before the request was complete.
EarlyEnd ==
    /\ \/ server = "header" /\ conn[cur].sent < 1
       \/ server = "body" /\ conn[cur].sent < 2
    /\ ~conn[cur].near
    /\ CloseConnection(BackToAccept)

\* An unreadable request, a wrong number of frames or a failing model.
RequestFails ==
    /\ server \in {"body", "infer"}
    /\ server = "infer" => ~conn[cur].health
    /\ CloseConnection(AfterException)

CachedAnswer(n) == 1
\* The answer is computed from the request of the connection at hand.
AnswerFor(n) == n

\* _handle_request: a health request is answered at once; the model may answer
\* with a blank text.
Infer ==
    /\ server = "infer"
    /\ \E valid \in BOOLEAN :
          /\ conn[cur].health => valid
          /\ conn' = [conn EXCEPT ![cur].computed = AnswerFor(cur), ![cur].valid = valid]
    /\ server' = "reply"
    /\ UNCHANGED <<serverSide, cur, backlog>>

\* The two sendall calls, and the end of the with block; towards a caller that
\* left they may raise.
Reply ==
    /\ server = "reply"
    /\ conn' = [conn EXCEPT ![cur].replied = TRUE, ![cur].far = FALSE]
    /\ BackToAccept
    /\ UNCHANGED <<serverSide, backlog>>

ReplyFails == server = "reply" /\ ~conn[cur].near /\ CloseConnection(AfterException)

\* The process dies: every connection is closed by the kernel.
Crash ==
    /\ server # "down" /\ crashes < MaxCrashes
    /\ server' = "down" /\ cur' = None /\ backlog' = <<>>
    /\ crashes' = crashes + 1
    /\ conn' = [n \in Ids |-> [conn[n] EXCEPT !.far = FALSE]]
    /\ UNCHANGED <<calls, client>>

Restart ==
    /\ server = "down"
    /\ server' = "accept"
    /\ UNCHANGED <<calls, conn, client, cur, backlog, crashes>>

-----------------------------------------------------------------------------
Clientside(c) ==
    \/ Connect(c) \/ Send(c) \/ Receive(c)
    \/ TimeOut(c) \/ Refused(c) \/ ClosedByServer(c)

Serverside ==
    \/ Accept \/ ReadHeader \/ ReadBody \/ EarlyEnd \/ RequestFails \/ Infer
    \/ Reply \/ ReplyFails

Next ==
    \/ \E c \in Clients : Call(c) \/ Clientside(c) \/ Vanish(c)
    \/ Serverside
    \/ Crash \/ Restart

\* Fairness: the clients' time-outs expire, the server's thread runs.
Spec ==
    /\ Init /\ [][Next]_vars
    /\ \A c \in Clients : WF_vars(Clientside(c))
    /\ WF_vars(Serverside)

-----------------------------------------------------------------------------
\* Every connection is answered with what was computed for it, at most once,
\* and a call ends once; a call the caller abandoned may still be computed.
Link == INSTANCE RemoteCall WITH
    Calls <- Ids,
    begun <- 1..calls,
    pending <- [c \in Clients |-> client[c].on],
    executed <- {n \in Ids : conn[n].computed # None},
    answers <- [n \in Ids |-> conn[n].got]

ImplementsRemoteCall == Link!Spec

\* A peer that holds its connection open without completing its request.
HeldBySilence == server \in {"header", "body"} /\ conn[cur].near /\ conn[cur].sent < 2

\* No failing, leaving or half-finished caller stops the server: it comes back
\* to accept unless a vanished caller holds it, or it crashed.
ServerComesBack == []<>(server = "accept" \/ HeldBySilence \/ (server = "down" /\ crashes > 0))
=============================================================================
