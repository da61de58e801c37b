--------------------------- MODULE TrainingBundle ---------------------------
(***************************************************************************)
(* From decision samples to a training bundle: export_vln_sft_records.py   *)
(* appends records to a file, export_navila_lora_dataset.py packages       *)
(* records, build_navila_training.py checks and packages all manifests,    *)
(* and train_navila_lora.sh decides whether a bundle is fit to train on.   *)
(* One packager works on the output directory, while sessions and          *)
(* labellers go on; it may raise, or be killed, at every file.             *)
(***************************************************************************)
EXTENDS DecisionSamples

CONSTANTS
    Canonical,     \* the actions that _canonical_action accepts
    EpisodeOf,     \* the episode each sample directory was recorded in
    MinRecords     \* the launcher's least number of records

\* What one record of train.jsonl or validation.jsonl says.
Entries == [samples : Samples, decision : Decisions, own : Pictures, target : Targets,
            shows : Pictures \cup {Partial, Absent}]

ASSUME BundleAssumption == Canonical \subseteq Targets /\ MinRecords \in Nat

VARIABLES
    exported,      \* what each run of export_vln_sft_records.py appended
    bundle,        \* the files of the output directory
    packager       \* the process that builds it

bundleVars == <<exported, bundle, packager>>
vars == <<sampleVars, bundleVars>>

\* files, torn: which of images/, train.jsonl, validation.jsonl,
\* dataset_info.json and collection_report.json there are, and are not
\* complete; source, baseline, cleared: what it was built from, whether with
\* --accept-baseline, and whether its last clearing came to its end.
NoBundle == [files |-> {}, torn |-> {}, train |-> {}, validation |-> {}, info |-> 0,
             report |-> 0, source |-> Absent, baseline |-> FALSE, cleared |-> TRUE]
NoPackager == [source |-> Absent, records |-> <<>>, baseline |-> FALSE]

BundleInit ==
    /\ exported = <<>>
    /\ bundle = NoBundle
    /\ packager = NoPackager

Init == SamplesInit /\ BundleInit

\* A line, with the directory that holds its pictures.
Item(d, line) == [samples |-> d, line |-> line]
ItemsOf(d) == [i \in DOMAIN manifest[d] |-> Item(d, manifest[d][i])]

Listed == {d \in Samples : manifest[d] # <<>>}
AllReadable == \A d \in Listed : Readable(manifest[d])

\* The manifests in one order or another: of their names, or as they are given.
Orders(some) == {o \in [1..Cardinality(some) -> some] : IsInjective(o)}

\* Inputs are a sequence of files, a file is a function from some numbers, in
\* the order of its lines, to items.  A line has the position <<file, number>>.
Lines(inputs) == UNION {{k} \X DOMAIN inputs[k] : k \in DOMAIN inputs}
Before(p, q) == p[1] < q[1] \/ (p[1] = q[1] /\ p[2] < q[2])

\* What the eight files of an item show when somebody reads them.
Shown(item) == images[item.samples][SampleOf(item.line.decision)]

-----------------------------------------------------------------------------
(* export_decision_records: reviewed lines, or all, are appended.          *)
Export(d) ==
    /\ commands < MaxCommands
    /\ manifest[d] # <<>>
    /\ Readable(manifest[d])
    /\ \E all \in BOOLEAN :
          LET lines == {i \in DOMAIN manifest[d] : all \/ manifest[d][i].reviewed}
          IN exported' = Append(exported, [i \in lines |-> Item(d, manifest[d][i])])
    /\ commands' = commands + 1
    /\ UNCHANGED <<images, manifest, temporary, session, labeller, kills, history,
                   bundle, packager>>

-----------------------------------------------------------------------------
(* build_navila_training.py.                                               *)

\* Mutant of TargetOf: a baseline stands in for a missing target.
TargetOrBaseline(line, acceptBaseline) ==
    IF line.target # NoTarget THEN line.target ELSE BaselineOf[line.own]

\* The target of a line, or none: it is skipped, as is a baseline that is not
\* canonical.
TargetOf(line, acceptBaseline) ==
    IF line.reviewed /\ line.target # NoTarget THEN line.target
    ELSE IF acceptBaseline /\ BaselineOf[line.own] \in Canonical THEN BaselineOf[line.own]
    ELSE NoTarget

\* Mutant of Digest: the names of the files, not what is in them.
DigestOfNames(item) == <<item.samples, item.line.decision>>

\* _sample_digest: the bytes of the eight files.
Digest(item) == Shown(item)

\* _decision_key: scene, episode, decision and the paths of the pictures.
DecisionKey(item) == <<item.samples, item.line.decision>>

\* A reviewed item with its target, as the packager gets it.
Judged(item, target) == [samples |-> item.samples, decision |-> item.line.decision,
                         own |-> item.line.own, target |-> target, digest |-> Digest(item),
                         key |-> DecisionKey(item)]

\* The records at the positions that have a target.
Usable(inputs, acceptBaseline) ==
    LET Target(p) == TargetOf(inputs[p[1]][p[2]].line, acceptBaseline)
    IN [p \in {q \in Lines(inputs) : Target(q) # NoTarget} |->
           Judged(inputs[p[1]][p[2]], Target(p))]

DigestsOf(records) == [p \in DOMAIN records |-> records[p].digest]
KeysOf(records) == [p \in DOMAIN records |-> records[p].key]

\* A label that the labeller takes and the packager does not: 30 cm, say.
OffCanon(records) == \E p \in DOMAIN records : records[p].target \notin Canonical

\* Two targets for one digest, or one key.
Conflict(records, marks) ==
    \E p, q \in DOMAIN records :
        marks[p] = marks[q] /\ records[p].target # records[q].target

\* The first record of every digest, or key.
Deduplicated(records, marks) ==
    LET firsts == {p \in DOMAIN records :
                      ~\E q \in DOMAIN records : Before(q, p) /\ marks[q] = marks[p]}
    IN [p \in firsts |-> records[p]]

Episodes(entries) == {EpisodeOf[e.samples] : e \in entries}

\* _report_and_records and the checks of build; what it refuses, it refuses
\* before it touches the output.  A line that is unreadable, a label that is
\* not canonical, or two targets for the same pictures refuse the whole build.
Build ==
    /\ packager = NoPackager
    /\ commands < MaxCommands
    /\ Listed # {}
    /\ AllReadable
    /\ \E acceptBaseline \in BOOLEAN, order \in Orders(Listed) :
          LET usable == Usable([k \in DOMAIN order |-> ItemsOf(order[k])], acceptBaseline)
          IN /\ ~OffCanon(usable) /\ ~Conflict(usable, DigestsOf(usable))
             /\ packager' = [source |-> "build", baseline |-> acceptBaseline,
                             records |-> Deduplicated(usable, DigestsOf(usable))]
    /\ commands' = commands + 1
    /\ UNCHANGED <<images, manifest, temporary, session, labeller, kills, history,
                   exported, bundle>>

-----------------------------------------------------------------------------
(* package_dataset: called by build with its records in a temporary file,  *)
(* or on its own with manifests or exported records.  A job is what it is  *)
(* called with.                                                            *)

Entry(record) == [samples |-> record.samples, decision |-> record.decision,
                  own |-> record.own, target |-> record.target,
                  shows |-> images[record.samples][SampleOf(record.decision)]]

\* What is written of a job: nothing, if a label is not canonical, two targets
\* of one decision differ or there is no record at all.
Converted(job) ==
    LET kept == Deduplicated(job.records, KeysOf(job.records))
    IN IF OffCanon(job.records) \/ Conflict(job.records, KeysOf(job.records)) THEN {}
       ELSE {Entry(kept[p]) : p \in DOMAIN kept}

\* _split_records, with --validation-fraction: at least one episode is held
\* out, perhaps all, if there are two; build insists on two, alone it does not.
Splits(entries) ==
    {{}} \cup (IF Cardinality(Episodes(entries)) >= 2
              THEN SUBSET Episodes(entries) ELSE {})

\* Mutant of FilesOf: the report is written before the provenance.
FilesReportFirst(source) ==
    IF source = "build"
    THEN <<"images", "train", "validation", "info", "report", "provenance">>
    ELSE <<"images", "train", "validation", "info">>

\* The files in the order they are written; provenance rewrites train.jsonl
\* and validation.jsonl.
FilesOf(source) ==
    IF source = "build"
    THEN <<"images", "train", "validation", "info", "provenance", "report">>
    ELSE <<"images", "train", "validation", "info">>

\* The output once the first n files are written, and some are half written.
Output(job, heldOut, n, torn) ==
    LET all == Converted(job)
        held == {e \in all : EpisodeOf[e.samples] \in heldOut}
        never == {"provenance"} \cup IF held = {} THEN {"validation"} ELSE {}
        files == (torn \cup {FilesOf(job.source)[k] : k \in 1..n}) \ never
        whole == files \ torn
    IN [files |-> files, torn |-> torn \ never,
        train |-> IF "train" \in whole THEN all \ held ELSE {},
        validation |-> IF "validation" \in whole THEN held ELSE {},
        info |-> IF "info" \in whole THEN Cardinality(all) ELSE 0,
        report |-> IF "report" \in whole THEN Cardinality(Episodes(all)) ELSE 0,
        source |-> job.source, baseline |-> job.baseline, cleared |-> TRUE]

\* Without --overwrite a directory that is not empty is refused; else all of
\* it goes, before the inputs are read, and what is refused then leaves
\* pictures at most.
Packaged(job) ==
    (IF bundle = NoBundle THEN {} ELSE {bundle})
    \cup (IF Converted(job) = {} THEN {NoBundle}
          ELSE {Output(job, heldOut, Len(FilesOf(job.source)), {}) :
                   heldOut \in Splits(Converted(job))})

\* What a packager that is killed leaves: some files of the old bundle ...
HalfCleared ==
    {[files |-> left, torn |-> bundle.torn \cap left,
      train |-> IF "train" \in left THEN bundle.train ELSE {},
      validation |-> IF "validation" \in left THEN bundle.validation ELSE {},
      info |-> IF "info" \in left THEN bundle.info ELSE 0,
      report |-> IF "report" \in left THEN bundle.report ELSE 0,
      source |-> bundle.source, baseline |-> bundle.baseline, cleared |-> FALSE] :
        left \in SUBSET (bundle.files \ {"images"})}

\* The names of what a step writes.
Rewritten(file) == IF file = "provenance" THEN {"train", "validation"} ELSE {file}

\* The file after the first n may be written halfway.
MayBeTorn(source, n) == {{}} \cup {{file} : file \in Rewritten(FilesOf(source)[n + 1])}

\* ... or the new files up to one of them.
HalfWritten(job) ==
    UNION {{Output(job, heldOut, n, torn) : torn \in MayBeTorn(job.source, n)} :
              n \in 0..(Len(FilesOf(job.source)) - 1), heldOut \in Splits(Converted(job))}

HalfPackaged(job) ==
    HalfCleared \cup (IF Converted(job) = {} THEN {} ELSE HalfWritten(job))

PackageDataset(job) ==
    /\ \/ bundle' \in Packaged(job) /\ UNCHANGED kills
       \/ kills < MaxKills /\ kills' = kills + 1 /\ bundle' \in HalfPackaged(job)
    /\ UNCHANGED <<images, manifest, temporary, session, labeller, history, exported>>

\* build goes on to package what it has checked; pictures may have changed.
PackageBuild ==
    /\ packager # NoPackager
    /\ PackageDataset(packager)
    /\ packager' = NoPackager
    /\ UNCHANGED commands

\* The packager alone; it refuses an input with a line that does not parse.
Package(inputs) ==
    /\ packager = NoPackager
    /\ commands < MaxCommands
    /\ PackageDataset([source |-> "package", baseline |-> FALSE, records |->
           IF \E p \in Lines(inputs) : inputs[p[1]][p[2]].line = TornLine THEN <<>>
           ELSE Usable(inputs, FALSE)])
    /\ commands' = commands + 1
    /\ UNCHANGED packager

BundleNext ==
    \/ Build \/ PackageBuild
    \/ \E d \in Listed : Export(d) \/ Package(<<ItemsOf(d)>>)
    \/ exported # <<>> /\ Package(exported)

\* A bound: a session goes on while there is a command that can see it.
Observed ==
    \/ commands < MaxCommands
    \/ packager # NoPackager
    \/ \E l \in Labellers : labeller[l] # NoLabeller

Next ==
    \/ Observed /\ SessionNext /\ UNCHANGED bundleVars
    \/ LabellerNext /\ UNCHANGED bundleVars
    \/ BundleNext

Spec == Init /\ [][Next]_vars

-----------------------------------------------------------------------------
Trained == bundle.train \cup bundle.validation

\* train_navila_lora.sh: an info that counts enough records, and a report of
\* two episodes.
LargeEnough ==
    /\ {"info", "report"} \subseteq bundle.files \ bundle.torn
    /\ bundle.info >= MinRecords /\ bundle.report >= 2

\* NAVILA_ALLOW_SMALL_DATASET=1 leaves that test out: then a train.jsonl is all
\* it asks for.
LauncherAccepts(allowSmall) ==
    "train" \in bundle.files /\ (allowSmall \/ LargeEnough)

(* What trains is what was reviewed: each target in a bundle is one that a *)
(* reviewer gave to that very sample, or the VLM's own answer in a bundle  *)
(* built with --accept-baseline, and it comes with the pictures it was     *)
(* given for.  Only a second session that recorded into the same directory *)
(* may have overwritten the pictures: it leaves the lines (TargetOf, _run, *)
(* _copy_sample_images; "It never treats a baseline action as ground truth *)
(* unless --accept-baseline is explicitly supplied", VLN_FINE_TUNING.md).  *)
ReviewedPairsTrain ==
    \A e \in Trained :
        /\ \/ [samples |-> e.samples, decision |-> e.decision, own |-> e.own,
               target |-> e.target] \in given
           \/ bundle.baseline /\ e.target = BaselineOf[e.own]
        /\ e.shows = e.own \/ sessions[e.samples] > 1

(* What build_navila_training holds out was not trained on: no eight       *)
(* pictures are in both files, whatever was recorded twice, as long as     *)
(* each directory belongs to one session (_sample_digest, _split_records). *)
HeldOutIsUnseen ==
    bundle.source = "build" =>
        \A e \in bundle.train, f \in bundle.validation :
            e.shows # f.shows \/ sessions[e.samples] > 1 \/ sessions[f.samples] > 1

(* What the launcher takes as it is launched by default is complete: it    *)
(* needs the report, which build writes last.  With NAVILA_ALLOW_SMALL_    *)
(* DATASET=1 it also takes what a killed packager left, a train.jsonl that *)
(* is cut off or lacks its provenance; but whatever it takes, the pictures *)
(* are all there, since they are written first.  Neither is true of a      *)
(* bundle whose packager was killed while it removed the old one (build,   *)
(* package_dataset, train_navila_lora.sh).                                 *)
LaunchedIsComplete ==
    \A allowSmall \in BOOLEAN :
        LauncherAccepts(allowSmall) /\ bundle.cleared =>
            /\ "images" \in bundle.files \ bundle.torn
            /\ \/ allowSmall
               \/ /\ {"train", "validation"} \cap bundle.torn = {}
                  /\ bundle.info = Cardinality(Trained)
=============================================================================
