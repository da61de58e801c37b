-------------------------- MODULE DecisionSamples --------------------------
(***************************************************************************)
(* The decision samples of the training tools: a simulator session         *)
(* (cli.py _run) records eight pictures and a manifest line per decision   *)
(* (decision_dataset.py), and label_decision_samples.py reads a manifest,  *)
(* changes lines and replaces the file.  Sessions run one at a time, by    *)
(* hand or from the job list of collect_navila_dataset.py (where a name,   *)
(* and so a directory, may occur twice); labellers run whenever they like. *)
(*                                                                         *)
(* A set of eight pictures is one value of Pictures.  The metadata.json    *)
(* of a sample, a copy of its line that no program reads, is left out.     *)
(***************************************************************************)
EXTENDS Naturals, Sequences, FiniteSets, SequencesExt

CONSTANTS
    Samples,       \* the sample directories
    Pictures,      \* what eight frames may show
    Targets,       \* the actions that parse_velocity_command accepts
    BaselineOf,    \* what the VLM answers to them: recorded only if it parses
    NoTarget,      \* target_action is null
    Partial,       \* some files of one history, some of another, or missing
    TornLine,      \* a line that is not complete
    Absent,        \* no such file
    Torn,          \* a file that is not complete
    Labellers,
    MaxSessions, MaxRecords, MaxCommands, MaxKills   \* bounds

Decisions == 1..MaxRecords

\* What a manifest keeps of a decision.
Record == [decision : Decisions, own : Pictures, target : Targets \cup {NoTarget},
           reviewed : BOOLEAN]

ASSUME SamplesAssumption ==
    /\ BaselineOf \in [Pictures -> Targets]
    /\ NoTarget \notin Targets
    /\ Partial \notin Pictures
    /\ TornLine \notin Record
    /\ Absent # Torn
    /\ {MaxSessions, MaxRecords, MaxCommands, MaxKills} \subseteq Nat

VARIABLES
    images,        \* what the eight files of each decision show
    manifest,      \* the lines of each manifest.jsonl
    temporary,     \* its manifest.jsonl.tmp, the same name for everybody
    session,       \* the simulator process
    labeller,      \* the labelling processes
    commands,      \* the labelling, exporting and packaging commands so far
    kills,         \* the processes killed so far
    sessions,      \* history: how many sessions wrote into a directory
    recorded,      \* history: the samples recorded, in order
    reviewed,      \* history: the verdict on the latest sample of a decision
    given,         \* history: every target a reviewer gave a sample
    overlapped     \* history: a labeller replaced what it had not read

history == <<sessions, recorded, reviewed, given, overlapped>>
sampleVars == <<images, manifest, temporary, session, labeller, commands, kills, history>>

NoSession == [stage |-> "idle", samples |-> Absent, decision |-> 0,
              shows |-> Absent]
NoLabeller == [stage |-> "idle", samples |-> Absent, read |-> <<>>, verdict |-> <<>>]

SamplesInit ==
    /\ images = [d \in Samples |-> [n \in Decisions |-> Absent]]
    /\ manifest = [d \in Samples |-> <<>>]
    /\ temporary = [d \in Samples |-> Absent]
    /\ session = NoSession
    /\ labeller = [l \in Labellers |-> NoLabeller]
    /\ commands = 0
    /\ kills = 0
    /\ sessions = [d \in Samples |-> 0]
    /\ recorded = [d \in Samples |-> <<>>]
    /\ reviewed = [d \in Samples |-> [n \in Decisions |-> NoTarget]]
    /\ given = {}
    /\ overlapped = {}

Readable(lines) == TornLine \notin ToSet(lines)

\* by_decision keeps the last line of a decision.
LatestLines(lines) ==
    {i \in DOMAIN lines : \A j \in DOMAIN lines : j > i =>
        lines[j].decision # lines[i].decision}

-----------------------------------------------------------------------------
(* The simulator session.                                                  *)

\* _run: the output directory may exist, and so may samples in it.  What the
\* session opens and closes besides is the matter of SimulatorRun.
StartSession(d) ==
    /\ session.stage = "idle"
    /\ SumFunction(sessions) < MaxSessions
    /\ session' = [NoSession EXCEPT !.stage = "running", !.samples = d]
    /\ UNCHANGED <<images, manifest, temporary, labeller, commands, kills, history>>

\* record: decision_0001, decision_0002, ...
SampleOf(n) == n

Recorded == SumFunction([d \in Samples |-> Len(recorded[d])])

\* The eight files of the session's next decision are written.
WriteImages(shows) ==
    LET d == session.samples
        first == session.decision = 0
    IN /\ session.stage = "running"
       /\ Recorded < MaxRecords /\ session.decision < MaxRecords
       /\ images' = [images EXCEPT ![d][SampleOf(session.decision + 1)] = shows]
       /\ sessions' = [sessions EXCEPT ![d] = @ + IF first THEN 1 ELSE 0]

\* A decision was taken: its eight pictures are saved ...
SaveImages(shows) ==
    /\ WriteImages(shows)
    /\ session' = [session EXCEPT !.decision = @ + 1, !.shows = shows, !.stage = "saved"]
    /\ UNCHANGED <<manifest, temporary, labeller, commands, kills,
                   recorded, reviewed, given, overlapped>>

\* ... and its line is appended, to the end of a torn one if there is one.
AppendRecord ==
    /\ session.stage = "saved"
    /\ LET d == session.samples
           n == session.decision
           line == [decision |-> n, own |-> session.shows,
                    target |-> NoTarget, reviewed |-> FALSE]
       IN /\ manifest' = IF manifest[d] # <<>> /\ Last(manifest[d]) = TornLine
                         THEN manifest ELSE [manifest EXCEPT ![d] = Append(@, line)]
          /\ recorded' = [recorded EXCEPT ![d] = Append(@, <<n, session.shows>>)]
          /\ reviewed' = [reviewed EXCEPT ![d][n] = NoTarget]
    /\ session' = [session EXCEPT !.stage = "running", !.shows = Absent]
    /\ UNCHANGED <<images, temporary, labeller, commands, kills, sessions, given, overlapped>>

\* Stopped while the eight files are written, if that is where it was.
MayLeavePartial ==
    \/ UNCHANGED <<images, sessions>>
    \/ WriteImages(Partial)

\* The run returned and its measurements are written, or something raised.
EndRun ==
    /\ session.stage \in {"running", "saved"}
    /\ MayLeavePartial
    /\ session' = NoSession
    /\ UNCHANGED <<manifest, temporary, labeller, commands, kills,
                   recorded, reviewed, given, overlapped>>

\* The process dies with all it holds; a line may be half written.
KillSession ==
    /\ session.stage \in {"running", "saved"}
    /\ kills < MaxKills
    /\ MayLeavePartial
    /\ \/ UNCHANGED manifest
       \/ /\ session.stage = "saved"
          /\ LET d == session.samples
             IN manifest' = [manifest EXCEPT ![d] =
                    IF Readable(@) THEN Append(@, TornLine) ELSE @]
    /\ session' = NoSession
    /\ kills' = kills + 1
    /\ UNCHANGED <<temporary, labeller, commands,
                   recorded, reviewed, given, overlapped>>

SessionNext ==
    \/ \E d \in Samples : StartSession(d)
    \/ AppendRecord \/ EndRun \/ KillSession
    \/ \E shows \in Pictures : SaveImages(shows)

-----------------------------------------------------------------------------
(* The labelling command.  A verdict maps the lines it is about to the     *)
(* target they get, NoTarget to take a target back.                        *)

\* --label and --unreview: one decision.
OneVerdict(lines) ==
    UNION {[{i} -> Targets \cup {NoTarget}] : i \in LatestLines(lines)}

\* --accept-baseline: every line without a target.
BaselineVerdict(lines) ==
    [i \in {j \in DOMAIN lines : lines[j].target = NoTarget} |->
        BaselineOf[lines[i].own]]

\* --interactive: lines that are not reviewed, each may be skipped.
InteractiveVerdicts(lines) ==
    UNION {[some -> Targets] :
              some \in SUBSET {j \in DOMAIN lines : ~lines[j].reviewed}}

Verdicts(lines) ==
    {v \in OneVerdict(lines) \cup {BaselineVerdict(lines)} \cup InteractiveVerdicts(lines) :
        DOMAIN v # {}}

\* Mutant of Edited: only the lines that changed are written.
EditedOnly(lines, verdict) ==
    LET changed == SetToSortSeq(DOMAIN verdict, <)
    IN [k \in DOMAIN changed |->
           [lines[changed[k]] EXCEPT !.target = verdict[changed[k]], !.reviewed = TRUE]]

\* _apply_label and _clear_label on what was read.
Edited(lines, verdict) ==
    [i \in DOMAIN lines |->
        IF i \notin DOMAIN verdict THEN lines[i]
        ELSE [lines[i] EXCEPT !.target = verdict[i], !.reviewed = verdict[i] # NoTarget]]

\* A manifest with a line that does not parse is refused.
LoadRecords(l, d) ==
    /\ labeller[l].stage = "idle"
    /\ commands < MaxCommands
    /\ manifest[d] # <<>>
    /\ Readable(manifest[d])
    /\ labeller' = [labeller EXCEPT ![l] = [NoLabeller EXCEPT
                       !.stage = "loaded", !.samples = d, !.read = manifest[d]]]
    /\ commands' = commands + 1
    /\ UNCHANGED <<images, manifest, temporary, session, kills, history>>

\* Nothing was changed: all is reviewed, or everything is skipped.
LeaveUnchanged(l) ==
    /\ labeller[l].stage = "loaded"
    /\ labeller' = [labeller EXCEPT ![l] = NoLabeller]
    /\ UNCHANGED <<images, manifest, temporary, session, commands, kills, history>>

\* The verdict, typed at the prompts or given on the command line, and then
\* write_text; that two labellers have the file open at once is left out.
WriteTemporary(l) ==
    /\ labeller[l].stage = "loaded"
    /\ LET d == labeller[l].samples
           read == labeller[l].read
       IN \E verdict \in Verdicts(read) :
             /\ labeller' = [labeller EXCEPT ![l].stage = "written", ![l].verdict = verdict]
             /\ temporary' = [temporary EXCEPT ![d] = Edited(read, verdict)]
             /\ given' = given \cup
                   {[samples |-> d, decision |-> read[i].decision, own |-> read[i].own,
                     target |-> verdict[i]] :
                        i \in {j \in DOMAIN verdict : verdict[j] # NoTarget}}
    /\ UNCHANGED <<images, manifest, session, commands, kills,
                   sessions, recorded, reviewed, overlapped>>

\* temporary.replace(manifest): another labeller may have moved it away, or
\* put its own lines into it.
ReplaceManifest(l) ==
    /\ labeller[l].stage = "written"
    /\ LET d == labeller[l].samples
           read == labeller[l].read
           verdict == labeller[l].verdict
           mine == Edited(read, verdict)
       IN IF temporary[d] = Absent
          THEN UNCHANGED <<manifest, temporary, history>>
          ELSE /\ manifest' = [manifest EXCEPT ![d] =
                                  IF temporary[d] = Torn THEN <<TornLine>> ELSE temporary[d]]
               /\ temporary' = [temporary EXCEPT ![d] = Absent]
               /\ reviewed' = [reviewed EXCEPT ![d] = [n \in Decisions |->
                     LET judged == {i \in DOMAIN verdict \cap LatestLines(read) :
                                       read[i].decision = n}
                     IN IF judged = {} THEN @[n] ELSE verdict[CHOOSE i \in judged : TRUE]]]
               /\ overlapped' = IF manifest[d] = read /\ temporary[d] = mine
                                THEN overlapped ELSE overlapped \cup {d}
               /\ UNCHANGED <<sessions, recorded, given>>
    /\ labeller' = [labeller EXCEPT ![l] = NoLabeller]
    /\ UNCHANGED <<images, session, commands, kills>>

\* Ctrl-C at a prompt, or killed; the temporary file may be left half written.
KillLabeller(l) ==
    /\ labeller[l].stage # "idle"
    /\ kills < MaxKills
    /\ \/ UNCHANGED temporary
       \/ /\ labeller[l].stage = "loaded"
          /\ temporary' = [temporary EXCEPT ![labeller[l].samples] = Torn]
    /\ labeller' = [labeller EXCEPT ![l] = NoLabeller]
    /\ kills' = kills + 1
    /\ UNCHANGED <<images, manifest, session, commands, history>>

LabellerNext ==
    \E l \in Labellers :
        \/ \E d \in Samples : LoadRecords(l, d)
        \/ LeaveUnchanged(l) \/ WriteTemporary(l) \/ ReplaceManifest(l) \/ KillLabeller(l)

-----------------------------------------------------------------------------
(* A sample that was recorded is listed, and a decision has the target the *)
(* last review gave it, whatever is stopped half way, unless a labeller    *)
(* replaced a manifest that was not what it had read (a session or another *)
(* labeller wrote meanwhile), or a line is torn and the file is refused    *)
(* by every reader (record, _load_records, _write_records).                *)
NothingReviewedIsLost ==
    \A d \in Samples \ overlapped :
        Readable(manifest[d]) =>
            /\ [i \in DOMAIN manifest[d] |-> <<manifest[d][i].decision, manifest[d][i].own>>]
                 = recorded[d]
            /\ \A i \in LatestLines(manifest[d]) :
                  manifest[d][i].target = reviewed[d][manifest[d][i].decision]
=============================================================================
