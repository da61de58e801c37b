---------------------------- MODULE SimulatorRun ----------------------------
(***************************************************************************)
(* A simulator session of the command line (_run of cli.py, called by      *)
(* main): it opens its parts one after another, runs the mission loop of   *)
(* NavigationRunner, writes three results, and closes in its finally block *)
(* what it knows of.  Each of these calls may raise, also in the finally   *)
(* block, and Ctrl-C may come during each of them.                         *)
(*                                                                         *)
(* The exit status is what collect_navila_dataset.py judges a job by.  The *)
(* exit of the process takes what is left open, which is still noted here; *)
(* a session that is killed outright is left to DecisionSamples.           *)
(***************************************************************************)
EXTENDS NavigationRunner

VARIABLES
    loopback,   \* --render-backend grpc-loopback
    cli,        \* where _run is ...
    call,       \* ... and the part or the result its call is about
    held,       \* the parts that are open
    known,      \* those that were assigned to what the finally block reads
    written,    \* the results that are complete on disk
    status      \* what main returns

\* History, read by the properties only.
VARIABLES refused,     \* the parts whose close raised
          cut          \* Ctrl-C came in the finally block

sessionVars == <<loopback, cli, call, held, known, written, status, refused, cut>>
allVars == <<vars, sessionVars>>

Parts == {"backend", "server", "bridge", "monitor"}
Results == {"frames", "alignment", "measurements"}

\* Every variable has its type.
SessionTypeOK ==
    /\ loopback \in BOOLEAN
    /\ cli \in {"open", "run", "write", "close", "over"}
    /\ call \in Parts \cup Results \cup {"runner", "print"}
    /\ held \subseteq Parts /\ known \subseteq Parts /\ refused \subseteq Parts
    /\ written \subseteq Results
    /\ status \in {0, 1, 130}
    /\ cut \in BOOLEAN

SessionInit ==
    /\ Init
    /\ loopback \in BOOLEAN
    /\ cli = "open" /\ call = "backend"
    /\ held = {} /\ known = {} /\ written = {} /\ status = 1
    /\ refused = {} /\ cut = FALSE

\* From the try block to the finally block, with what main will return.
Unwind(code) == cli' = "close" /\ call' = "monitor" /\ status' = code

-----------------------------------------------------------------------------
(* Opening: physics first, then _make_renderer's server and bridge, the    *)
(* monitor, the runner with its reset and its first frame.                 *)

OpenedAfter == [backend |-> "server", server |-> "bridge", bridge |-> "monitor",
                monitor |-> "runner"]

Uses(part) ==
    CASE part = "server"  -> loopback
      [] part = "monitor" -> MonitorTicks # 0
      [] OTHER            -> TRUE

\* _make_renderer returns its server together with the bridge.
AssignedWith(part) ==
    CASE part = "server" -> {}
      [] part = "bridge" -> {"server", "bridge"}
      [] OTHER           -> {part}

OpenPart ==
    /\ cli = "open" /\ call # "runner"
    /\ held' = IF Uses(call) THEN held \cup {call} ELSE held
    /\ known' = known \cup (AssignedWith(call) \cap held')
    /\ call' = OpenedAfter[call]
    /\ UNCHANGED <<vars, loopback, cli, written, status, refused, cut>>

\* A constructor or a start raises, or is interrupted before its result is
\* assigned.  MjlabGo2Backend.start closes what it has of an environment for
\* most exceptions; when the reset that ends it raises, close knows it.
OpenFails ==
    /\ cli = "open"
    /\ \E code \in {1, 130} :
          /\ Unwind(code)
          /\ \/ UNCHANGED <<held, known>>
             \/ /\ call = "backend"
                /\ held' = {call} /\ known' \in SUBSET held'
             \/ /\ call \in {"server", "bridge"} /\ Uses(call) /\ code = 130
                /\ held' = held \cup {call} /\ UNCHANGED known
    /\ UNCHANGED <<vars, loopback, written, refused, cut>>

-----------------------------------------------------------------------------
(* The run and its results.                                                *)

BeginRun ==
    /\ cli = "open" /\ call = "runner"
    /\ cli' = "run"
    /\ UNCHANGED <<vars, loopback, call, held, known, written, status, refused, cut>>

RunStep == cli = "run" /\ RunnerStep /\ UNCHANGED sessionVars

Inference == cli = "run" /\ VLMAnswers /\ UNCHANGED sessionVars

RunInterrupted ==
    /\ cli = "run" /\ pc # "done"
    /\ Unwind(130)
    /\ UNCHANGED <<vars, loopback, held, known, written, refused, cut>>

RunReturns ==
    /\ cli = "run" /\ pc = "done"
    /\ IF reason = "error" THEN Unwind(1)
       ELSE cli' = "write" /\ call' = "frames" /\ UNCHANGED status
    /\ UNCHANGED <<vars, loopback, held, known, written, refused, cut>>

WrittenAfter == [frames |-> "alignment", alignment |-> "measurements",
                 measurements |-> "print"]

WriteResult ==
    /\ cli = "write" /\ call \in Results
    /\ written' = written \cup {call}
    /\ call' = WrittenAfter[call]
    /\ UNCHANGED <<vars, loopback, cli, held, known, status, refused, cut>>

\* The measurements are printed, and it returns.
ReturnZero ==
    /\ cli = "write" /\ call = "print"
    /\ Unwind(0)
    /\ UNCHANGED <<vars, loopback, held, known, written, refused, cut>>

WriteFails ==
    /\ cli = "write"
    /\ \E code \in {1, 130} : Unwind(code)
    /\ UNCHANGED <<vars, loopback, held, known, written, refused, cut>>

-----------------------------------------------------------------------------
(* The finally block: monitor, bridge, server, backend.                    *)

ClosedAfter == [monitor |-> "bridge", bridge |-> "server", server |-> "backend"]

NextClose ==
    IF call = "backend" THEN cli' = "over" /\ UNCHANGED call
    ELSE call' = ClosedAfter[call] /\ UNCHANGED cli

\* It is closed if it is known, else passed over.
Closed == held \ ({call} \cap known)

ClosePart ==
    /\ cli = "close"
    /\ held' = Closed
    /\ NextClose
    /\ UNCHANGED <<vars, loopback, known, written, status, refused, cut>>

\* Mutant of Forgives: a bridge that fails to close ends the block.
ForgivesMonitor(part) == part = "monitor"

\* The monitor swallows what its window raises, a failing bridge is a warning.
Forgives(part) == part \in {"monitor", "bridge"}

CloseRaises ==
    /\ cli = "close" /\ call \in held \cap known
    /\ refused' = refused \cup {call}
    /\ IF Forgives(call) THEN NextClose /\ UNCHANGED status
       ELSE cli' = "over" /\ status' = 1 /\ UNCHANGED call
    /\ UNCHANGED <<vars, loopback, held, known, written, cut>>

\* Ctrl-C passes every handler of the block.
CloseInterrupted ==
    /\ cli = "close"
    /\ held' \in {held, Closed}
    /\ cli' = "over" /\ status' = 130 /\ cut' = TRUE
    /\ UNCHANGED <<vars, loopback, call, known, written, refused>>

Over == cli = "over" /\ UNCHANGED allVars

-----------------------------------------------------------------------------

SessionStep ==
    \/ OpenPart \/ OpenFails \/ BeginRun
    \/ RunStep \/ RunInterrupted \/ RunReturns
    \/ WriteResult \/ ReturnZero \/ WriteFails
    \/ ClosePart \/ CloseRaises \/ CloseInterrupted

SessionNext == SessionStep \/ Inference \/ Over

\* The session is one thread whose calls return, and the VLM client has a
\* timeout.
SessionSpec ==
    SessionInit /\ [][SessionNext]_allVars /\ WF_allVars(SessionStep) /\ WF_allVars(Inference)

-----------------------------------------------------------------------------
(* Properties.                                                             *)

(* What a session leaves open is accounted for, however far it came: of    *)
(* the parts its finally block knows, those whose close raised and, if the *)
(* loopback server is one of them, physics; of the others the one that was *)
(* being opened, and the server with its bridge.  Only Ctrl-C within the   *)
(* block may leave more, and then the status is not zero.  Status zero,    *)
(* for which a collected job counts, means that the mission was run to its *)
(* end and all results are there, even if the bridge stayed open (_run,    *)
(* main; collect_navila_dataset.py goes by the status).                    *)
SessionClosesAll ==
    cli = "over" =>
        /\ ~cut => held \cap known \subseteq
                      refused \cup (IF "server" \in refused THEN {"backend"} ELSE {})
        /\ held \ known \subseteq {"backend"} \/ held \ known \subseteq {"server", "bridge"}
        /\ status = 0 => /\ held \subseteq refused \cap {"bridge", "monitor"}
                         /\ written = Results
                         /\ pc = "done" /\ reason # "error"

(* With a decision limit every session comes to an end, however often      *)
(* NaVILA repeats a stop that is rejected (runner.py:464).                 *)
SessionEnds == <>(cli = "over")
=============================================================================
