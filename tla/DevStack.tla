------------------------------ MODULE DevStack ------------------------------
(***************************************************************************)
(* memory_guide_dev.sh: `start` stays in the foreground and supervises     *)
(* OrcaLab and the NaVILA backend, `stop` is another process that ends     *)
(* both.  They know each other, and the services, by files that hold the   *)
(* number of a process.  bash runs a trap between two commands and then    *)
(* goes on where it was, unless the interrupted command itself failed and  *)
(* `set -e` ends the script.                                               *)
(*                                                                         *)
(* External: the services, which may take as long as they like to answer,  *)
(* to lose their port, to die, and to obey a signal; and other backends    *)
(* that somebody else opens on NaVILA's port.                              *)
(***************************************************************************)
EXTENDS FiniteSets, Naturals

CONSTANTS
    Supervisors,   \* terminals in which `start` is called, again and again
    Stops,         \* bound: the calls of `stop`
    Pids,          \* bound: the process numbers that services get
    Kind,          \* the service that may get each of them
    NoProcess

Services == {"orcalab", "navila"}

ASSUME StackAssumption ==
    /\ Supervisors \cap (Stops \cup Pids) = {}
    /\ NoProcess \notin Pids \cup Supervisors
    /\ Kind \in [Pids -> Services]

Actors == Supervisors \cup Stops
\* A trap runs inside the command it interrupts, with locals of its own.
TrapOf(s) == <<"trap", s>>
Frames == Actors \cup {TrapOf(s) : s \in Supervisors}

VARIABLES
    pc,              \* where each command is
    target,          \* the process that a command, or its trap, waits to see die
    trapped,         \* supervisors whose traps are set
    resume,          \* where a supervisor goes on after its trap
    term,            \* supervisors with a TERM that bash has not acted on
    forking,         \* what a supervisor has started and not yet recorded
    supervisorFile,  \* supervisor.pid
    pidFile,         \* orcalab.pid and navila.pid
    alive,           \* the processes of the services
    serving,         \* those that answer on their port
    external,        \* somebody else's backend answers on NaVILA's port
    outlived,        \* history: live processes that outlived a deadline
                     \* before the following
    meddled          \* history: a `stop`, two supervisors at once, a kill,
                     \* a Ctrl-C that did not end the script or came
                     \* while a start was being recorded

commandVars == <<pc, target, trapped, resume, term, forking>>
fileVars == <<supervisorFile, pidFile>>
serviceVars == <<alive, serving, external>>
history == <<outlived, meddled>>
stackVars == <<commandVars, fileVars, serviceVars, history>>

Over == {"idle", "ended", "stopped"}
Places == Over \cup
    {"claim", "orcalab", "record", "await", "navila", "watch", "replace", "replacing",
     "kill navila", "wait navila", "kill orcalab", "wait orcalab", "remove",
     "await supervisor", "report"}

StackType ==
    /\ pc \in [Actors -> Places]
    /\ target \in [Frames -> Pids \cup Supervisors \cup {NoProcess}]
    /\ trapped \subseteq Supervisors /\ term \subseteq Supervisors
    /\ resume \in [Supervisors -> Places]
    /\ forking \in [Supervisors -> Pids \cup {NoProcess}]
    /\ supervisorFile \in Supervisors \cup {NoProcess}
    /\ pidFile \in [Services -> Pids \cup {NoProcess}]
    /\ serving \subseteq alive /\ outlived \subseteq alive /\ alive \subseteq Pids
    /\ external \in BOOLEAN /\ meddled \in BOOLEAN

StackInit ==
    /\ pc = [a \in Actors |-> IF a \in Stops THEN "idle" ELSE "ended"]
    /\ target = [f \in Frames |-> NoProcess]
    /\ trapped = {} /\ term = {}
    /\ resume = [s \in Supervisors |-> "watch"]
    /\ forking = [s \in Supervisors |-> NoProcess]
    /\ supervisorFile = NoProcess /\ pidFile = [x \in Services |-> NoProcess]
    /\ alive = {} /\ serving = {}
    /\ external \in BOOLEAN
    /\ outlived = {} /\ meddled = FALSE

Goes(a, to) == pc' = [pc EXCEPT ![a] = to]

\* port_open, and for OrcaLab mcp_ready.
Open(service) ==
    \/ \E p \in serving : Kind[p] = service
    \/ service = "navila" /\ external

Live == {s \in Supervisors : pc[s] \notin Over}

\* pid_is_running
SupervisorRuns == supervisorFile # NoProcess /\ pc[supervisorFile] \notin Over

\* What a supervisor knew is gone with it.
Forgotten(s) ==
    /\ target' = [target EXCEPT ![s] = NoProcess, ![TrapOf(s)] = NoProcess]
    /\ resume' = [resume EXCEPT ![s] = "watch"]
    /\ forking' = [forking EXCEPT ![s] = NoProcess]
    /\ term' = term \ {s}

\* return 1 under set -e: the EXIT trap, if it is still set.
Fail(s) ==
    IF s \in trapped
    THEN /\ Goes(s, "kill navila") /\ trapped' = trapped \ {s}
         /\ resume' = [resume EXCEPT ![s] = "ended"]
         /\ forking' = [forking EXCEPT ![s] = NoProcess]
         /\ UNCHANGED <<target, term>>
    ELSE Goes(s, "ended") /\ Forgotten(s) /\ UNCHANGED trapped

-----------------------------------------------------------------------------
(* stop_owned_process, for whoever calls it.                               *)

\* Nothing runs: the file goes.  Otherwise its group is told to end.
KillOwned(a, frame, service, waiting, next) ==
    /\ IF pidFile[service] \in alive
       THEN Goes(a, waiting) /\ target' = [target EXCEPT ![frame] = pidFile[service]]
            /\ UNCHANGED pidFile
       ELSE Goes(a, next) /\ pidFile' = [pidFile EXCEPT ![service] = NoProcess]
            /\ UNCHANGED target
    /\ UNCHANGED <<trapped, resume, term, forking, supervisorFile, serviceVars, outlived>>

\* It is gone and so is the file, or twenty seconds are over.
WaitOwned(a, frame, service, next, failure) ==
    /\ \/ /\ target[frame] \notin alive
          /\ pidFile' = [pidFile EXCEPT ![service] = NoProcess]
          /\ Goes(a, next) /\ UNCHANGED outlived
       \/ /\ target[frame] \in alive
          /\ outlived' = IF meddled THEN outlived ELSE outlived \cup {target[frame]}
          /\ Goes(a, failure) /\ UNCHANGED pidFile
    /\ target' = [target EXCEPT ![frame] = NoProcess]
    /\ UNCHANGED <<trapped, resume, term, forking, supervisorFile, serviceVars>>

-----------------------------------------------------------------------------
(* start_stack                                                             *)

\* A new process, whose number is not the one that a file or a `stop` may
\* still have of the last one in this terminal.
Begin(s) ==
    /\ pc[s] \in Over
    /\ Goes(s, IF SupervisorRuns THEN "ended" ELSE "claim")
    /\ supervisorFile' = (IF supervisorFile = s THEN NoProcess ELSE supervisorFile)
    /\ target' = [f \in Frames |-> IF target[f] = s THEN NoProcess ELSE target[f]]
    /\ UNCHANGED <<trapped, resume, term, forking, pidFile, serviceVars, outlived, meddled>>

\* The number is written and the traps are set.  Another supervisor may have
\* done so since it was looked for.
Claim(s) ==
    /\ pc[s] = "claim" /\ Goes(s, "orcalab")
    /\ meddled' = (meddled \/ Live # {s})
    /\ supervisorFile' = s /\ trapped' = trapped \cup {s}
    /\ UNCHANGED <<target, resume, term, forking, pidFile, serviceVars, outlived>>

\* Numbers that nobody refers to.  Which of them is next does not matter.
FreePids(service) ==
    {p \in Pids \ alive :
        /\ Kind[p] = service
        /\ \A x \in Services : pidFile[x] # p
        /\ \A f \in Frames : target[f] # p
        /\ \A s \in Supervisors : forking[s] # p}

\* start_owned_process: first the process, ...
Fork(s, service) ==
    /\ FreePids(service) # {}
    /\ LET p == CHOOSE q \in FreePids(service) : TRUE
       IN alive' = alive \cup {p} /\ forking' = [forking EXCEPT ![s] = p]
    /\ Goes(s, "record")
    /\ UNCHANGED <<target, trapped, resume, term, fileVars, serving, external, history>>

\* ... then the file.
Record(s) ==
    /\ pc[s] = "record" /\ Goes(s, "await")
    /\ pidFile' = [pidFile EXCEPT ![Kind[forking[s]]] = forking[s]]
    /\ UNCHANGED <<target, trapped, resume, term, forking, supervisorFile, serviceVars, history>>

StartOrcalab(s) ==
    /\ pc[s] = "orcalab"
    /\ \/ ~Open("orcalab") /\ Fork(s, "orcalab")
       \/ /\ Open("orcalab") /\ Goes(s, "await")
          /\ UNCHANGED <<target, trapped, resume, term, forking, fileVars, serviceVars, history>>

\* The service that is waited for: OrcaLab's before NaVILA's.
Awaited(s) == IF forking[s] = NoProcess THEN "orcalab" ELSE Kind[forking[s]]

\* The waiting loops: the service answers, or its time is over; NaVILA's loop
\* also ends when its process does.
Await(s) ==
    /\ pc[s] = "await"
    /\ \/ /\ Open(Awaited(s))
          /\ Goes(s, IF Awaited(s) = "orcalab" THEN "navila" ELSE "watch")
          /\ forking' = [forking EXCEPT ![s] = NoProcess]
          /\ UNCHANGED <<target, trapped, resume, term>>
       \/ Fail(s)
    /\ UNCHANGED <<fileVars, serviceVars, history>>

\* start_navila_backend: a port that is open is enough, whoever opened it.
StartNavila(s) ==
    /\ pc[s] = "navila"
    /\ \/ ~Open("navila") /\ Fork(s, "navila")
       \/ /\ Open("navila") /\ Goes(s, "watch")
          /\ UNCHANGED <<target, trapped, resume, term, forking, fileVars, serviceVars, history>>
       \/ /\ ~Open("navila") /\ Fail(s)
          /\ UNCHANGED <<fileVars, serviceVars, history>>

Exited(service) == pidFile[service] # NoProcess /\ pidFile[service] \notin alive

\* Mutant of Lost: only the process is watched.
LostWithProcess == FALSE

\* NaVILA's process is there, or nobody's, and the endpoint is not.
Lost == ~Exited("navila") /\ ~Open("navila")

\* Mutant of BeforeRestart: the process that lost its port is left alone.
LeftAlone == "navila"

\* What comes before the restart of a backend that lost its port.
BeforeRestart == "replace"

\* A turn of the loop that finds something to do.
Watch(s) ==
    /\ pc[s] = "watch"
    /\ IF Exited("orcalab")
       THEN Fail(s) /\ UNCHANGED pidFile
       ELSE /\ UNCHANGED <<target, trapped, resume, term, forking>>
            /\ \/ /\ Exited("navila") /\ Goes(s, "navila")
                  /\ pidFile' = [pidFile EXCEPT !["navila"] = NoProcess]
               \/ Lost /\ Goes(s, BeforeRestart) /\ UNCHANGED pidFile
    /\ UNCHANGED <<supervisorFile, serviceVars, history>>

Replace(s) ==
    /\ pc[s] = "replace" /\ KillOwned(s, s, "navila", "replacing", "navila")
    /\ UNCHANGED meddled

Replacing(s) ==
    /\ pc[s] = "replacing" /\ WaitOwned(s, s, "navila", "navila", "navila")
    /\ UNCHANGED meddled

-----------------------------------------------------------------------------
(* cleanup_supervisor                                                      *)

\* Mutant of AfterNavila: OrcaLab is left running.
OnlyNavila == "remove"

\* What is cleaned up after NaVILA, whether it has obeyed or not.
AfterNavila == "kill orcalab"

CleanUp(s) ==
    LET f == TrapOf(s) IN
    /\ \/ pc[s] = "kill navila" /\ KillOwned(s, f, "navila", "wait navila", AfterNavila)
       \/ pc[s] = "wait navila" /\ WaitOwned(s, f, "navila", AfterNavila, AfterNavila)
       \/ pc[s] = "kill orcalab" /\ KillOwned(s, f, "orcalab", "wait orcalab", "remove")
       \/ pc[s] = "wait orcalab" /\ WaitOwned(s, f, "orcalab", "remove", "remove")
    /\ UNCHANGED meddled

\* The trap returns to where it was entered, or the script exits.
Remove(s) ==
    /\ pc[s] = "remove" /\ Goes(s, resume[s])
    /\ supervisorFile' = NoProcess
    /\ IF resume[s] = "ended" THEN Forgotten(s) ELSE UNCHANGED <<target, resume, term, forking>>
    /\ UNCHANGED <<trapped, pidFile, serviceVars, history>>

SupervisorStep(s) ==
    \/ Claim(s) \/ StartOrcalab(s) \/ Record(s) \/ Await(s) \/ StartNavila(s)
    \/ Watch(s) \/ Replace(s) \/ Replacing(s) \/ CleanUp(s) \/ Remove(s)

\* The trap runs, and only then does the script go on, or end because the
\* signal has ended its command, too.  Without a trap, in the middle of one
\* for instance, it dies at once.
Trap(s, places) ==
    IF s \in trapped
    THEN /\ Goes(s, "kill navila") /\ trapped' = trapped \ {s} /\ term' = term \ {s}
         /\ \E to \in places : resume' = [resume EXCEPT ![s] = to]
         /\ UNCHANGED <<target, forking>>
    ELSE Goes(s, "ended") /\ Forgotten(s) /\ UNCHANGED trapped

\* The TERM of a `stop`.
Terminate(s) ==
    /\ s \in term \cap Live /\ Trap(s, {pc[s]})
    /\ UNCHANGED <<fileVars, serviceVars, history>>

\* Ctrl-C.
Interrupt(s) ==
    /\ pc[s] \notin Over
    /\ Trap(s, {pc[s], "ended"})
    /\ meddled' = (meddled \/ s \notin trapped \/ pc[s] = "record" \/ resume'[s] # "ended")
    /\ UNCHANGED <<fileVars, serviceVars, outlived>>

\* kill -9.
KillSupervisor(s) ==
    /\ pc[s] \notin Over
    /\ Goes(s, "ended") /\ Forgotten(s) /\ trapped' = trapped \ {s}
    /\ meddled' = TRUE
    /\ UNCHANGED <<fileVars, serviceVars, outlived>>

-----------------------------------------------------------------------------
(* stop_stack                                                              *)

\* A supervisor that runs is told to end; without one the services are.
BeginStop(t) ==
    /\ pc[t] = "idle"
    /\ IF SupervisorRuns
       THEN /\ Goes(t, "await supervisor") /\ term' = term \cup {supervisorFile}
            /\ target' = [target EXCEPT ![t] = supervisorFile]
       ELSE Goes(t, "kill navila") /\ UNCHANGED <<target, term>>
    /\ meddled' = TRUE
    /\ UNCHANGED <<trapped, resume, forking, fileVars, serviceVars, outlived>>

\* It has ended, or thirty seconds are over.
AwaitSupervisor(t) ==
    /\ pc[t] = "await supervisor"
    /\ Goes(t, IF target[t] \in Live THEN "ended" ELSE "report")
    /\ target' = [target EXCEPT ![t] = NoProcess]
    /\ UNCHANGED <<trapped, resume, term, forking, fileVars, serviceVars, history>>

\* A service that does not obey fails the command.
StopServices(t) ==
    /\ \/ pc[t] = "kill navila" /\ KillOwned(t, t, "navila", "wait navila", "kill orcalab")
       \/ pc[t] = "wait navila" /\ WaitOwned(t, t, "navila", "kill orcalab", "ended")
       \/ pc[t] = "kill orcalab" /\ KillOwned(t, t, "orcalab", "wait orcalab", "report")
       \/ pc[t] = "wait orcalab" /\ WaitOwned(t, t, "orcalab", "report", "ended")
    /\ UNCHANGED meddled

\* "Memory Guide stack stopped."
Report(t) ==
    /\ pc[t] = "report" /\ Goes(t, "stopped")
    /\ supervisorFile' = NoProcess
    /\ UNCHANGED <<target, trapped, resume, term, forking, pidFile, serviceVars, history>>

StopStep(t) == BeginStop(t) \/ AwaitSupervisor(t) \/ StopServices(t) \/ Report(t)

-----------------------------------------------------------------------------
(* The services.                                                           *)

\* Only one process can listen on a port.
Answers(p) ==
    /\ p \in alive \ serving /\ ~Open(Kind[p])
    /\ serving' = serving \cup {p}
    /\ UNCHANGED <<commandVars, fileVars, alive, external, history>>

\* The process lives on without its port: a tunnel that broke.
LosesPort(p) ==
    /\ p \in serving /\ serving' = serving \ {p}
    /\ UNCHANGED <<commandVars, fileVars, alive, external, history>>

ServiceDies(p) ==
    /\ p \in alive
    /\ alive' = alive \ {p} /\ serving' = serving \ {p} /\ outlived' = outlived \ {p}
    /\ UNCHANGED <<commandVars, fileVars, external, meddled>>

\* Bound: somebody else's backend that was there goes, and none comes.
OtherBackendGoes ==
    /\ external /\ external' = FALSE
    /\ UNCHANGED <<commandVars, fileVars, alive, serving, history>>

StackNext ==
    \/ \E s \in Supervisors :
          Begin(s) \/ SupervisorStep(s) \/ Terminate(s) \/ Interrupt(s) \/ KillSupervisor(s)
    \/ \E t \in Stops : StopStep(t)
    \/ \E p \in Pids : Answers(p) \/ LosesPort(p) \/ ServiceDies(p)
    \/ OtherBackendGoes

\* Every loop of the supervisor has a deadline, and bash goes on.
StackSpec ==
    /\ StackInit /\ [][StackNext]_stackVars
    /\ \A s \in Supervisors : WF_stackVars(SupervisorStep(s))

-----------------------------------------------------------------------------
Recorded == {pidFile[x] : x \in Services}

(* A process that was started and is not on record can never be stopped    *)
(* again.  One supervisor at a time, with its restarts, its failures, its  *)
(* interruptions and its successors, leaves none behind: what is           *)
(* alive is on record, or being recorded, or has outlived the twenty       *)
(* seconds (start_owned_process, stop_owned_process).                      *)
OwnedIsKnown ==
    ~meddled => alive \subseteq Recorded \cup outlived \cup {forking[s] : s \in Supervisors}

(* A supervisor that gives up by itself, or by Ctrl-C, takes both services *)
(* with it: what is alive afterwards has outlived its deadline             *)
(* (cleanup_supervisor).                                                   *)
ExitCleansUp ==
    ~meddled => \A s \in Supervisors :
                   (pc[s] = "remove" /\ resume[s] = "ended") => alive \subseteq outlived

(* When NaVILA's endpoint is gone the supervisor brings it back, or ends   *)
(* with an error: it never watches for ever over a backend that does not   *)
(* answer (the loop of start_stack).                                       *)
NavilaComesBack ==
    \A s \in Supervisors :
        pc[s] = "watch" ~> (Open("navila") \/ pc[s] \in Over)
=============================================================================
