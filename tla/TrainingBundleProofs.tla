------------------------ MODULE TrainingBundleProofs ------------------------
(***************************************************************************)
(* What a session, labellers, exporters and a packager do to one training  *)
(* set, for any number of directories, labellers, commands and kills.      *)
(* Every copy of a manifest line, wherever it is on its way, is sound: the *)
(* target is backed by a reviewer and the pictures are those it was        *)
(* recorded with, unless a second session wrote into the directory.        *)
(***************************************************************************)
EXTENDS TrainingBundle, SequenceTheorems, TLAPS

Stages == {"idle", "running", "saved"}
VerdictOn(lines) == UNION {[some -> Targets \cup {NoTarget}] : some \in SUBSET DOMAIN lines}
Verdict == UNION {[some -> Targets \cup {NoTarget}] : some \in SUBSET Nat}
Chunk == UNION {[some -> [samples : Samples, line : Record]] : some \in SUBSET Nat}

Session == [stage : Stages, samples : Samples \cup {Absent}, decision : 0..MaxRecords,
            shows : Pictures \cup {Absent}]
Labelling == [stage : {"idle", "loaded", "written"}, samples : Samples \cup {Absent},
              read : Seq(Record), verdict : Verdict]

SampleType ==
    /\ images \in [Samples -> [Decisions -> Pictures \cup {Partial, Absent}]]
    /\ manifest \in [Samples -> Seq(Record \cup {TornLine})]
    /\ temporary \in [Samples -> Seq(Record) \cup {Absent, Torn}]
    /\ session \in Session
    /\ session.stage # "idle" => session.samples \in Samples
    /\ session.stage = "saved" => session.decision \in Decisions /\ session.shows \in Pictures
    /\ labeller \in [Labellers -> Labelling]
    /\ \A l \in Labellers :
          /\ labeller[l].stage # "idle" => labeller[l].samples \in Samples
          /\ labeller[l].stage = "written" =>
                labeller[l].verdict \in VerdictOn(labeller[l].read)
    /\ sessions \in [Samples -> Nat]
    /\ recorded \in [Samples -> Seq(Decisions \X Pictures)]
    /\ reviewed \in [Samples -> [Decisions -> Targets \cup {NoTarget}]]

\* While one session only has written into a directory, the eight files of
\* its decisions show what was recorded; it goes on behind them.
Pictured(d, n, own) ==
    /\ sessions[d] >= 1
    /\ sessions[d] = 1 =>
          /\ images[d][n] = own
          /\ session.stage # "idle" /\ session.samples = d /\ session.decision > 0 =>
                n <= session.decision

Backed(d, n, own, target) ==
    [samples |-> d, decision |-> n, own |-> own, target |-> target] \in given

LineSound(d, line) ==
    /\ line \in Record
    /\ Pictured(d, line.decision, line.own)
    /\ line.reviewed /\ line.target # NoTarget => Backed(d, line.decision, line.own, line.target)

SessionSound ==
    /\ session.stage # "idle" /\ session.decision > 0 => sessions[session.samples] >= 1
    /\ session.stage = "saved" => images[session.samples][session.decision] = session.shows

ManifestSound ==
    \A d \in Samples : \A i \in DOMAIN manifest[d] :
        manifest[d][i] # TornLine => LineSound(d, manifest[d][i])

TemporarySound ==
    \A d \in Samples : temporary[d] \notin {Absent, Torn} =>
        \A i \in DOMAIN temporary[d] : LineSound(d, temporary[d][i])

ReadSound ==
    \A l \in Labellers : labeller[l].stage # "idle" =>
        \A i \in DOMAIN labeller[l].read : LineSound(labeller[l].samples, labeller[l].read[i])

SamplesInv ==
    /\ SampleType /\ SessionSound /\ ManifestSound /\ TemporarySound /\ ReadSound
    /\ NothingReviewedIsLost

-----------------------------------------------------------------------------

\* An item of the packager's input.
ItemSound(item) == item.samples \in Samples /\ LineSound(item.samples, item.line)

\* A record with a target.
RecordSound(record, baseline) ==
    /\ record.samples \in Samples /\ record.decision \in Decisions
    /\ record.own \in Pictures /\ record.target \in Targets
    /\ Pictured(record.samples, record.decision, record.own)
    /\ \/ Backed(record.samples, record.decision, record.own, record.target)
       \/ baseline /\ record.target = BaselineOf[record.own]

\* What build has checked: no two records of the same pictures.
JobSound(job) ==
    /\ \A p \in DOMAIN job.records : RecordSound(job.records[p], job.baseline)
    /\ job.source = "build" =>
          /\ \A p \in DOMAIN job.records :
                LET record == job.records[p]
                IN record.digest = record.own \/ sessions[record.samples] > 1
          /\ \A p, q \in DOMAIN job.records :
                p # q => job.records[p].digest # job.records[q].digest

BundleInv ==
    /\ exported \in Seq(Chunk)
    /\ \A p \in Lines(exported) : ItemSound(exported[p[1]][p[2]])
    /\ JobSound(packager)
    /\ bundle.train \subseteq Entries /\ bundle.validation \subseteq Entries
    /\ ReviewedPairsTrain /\ HeldOutIsUnseen /\ LaunchedIsComplete

-----------------------------------------------------------------------------
(* The beginning.                                                          *)

LEMMA NobodyLabels == NoLabeller \in Labelling
  <1>1. <<>> \in [1..0 -> Targets \cup {NoTarget}] /\ 1..0 \in SUBSET Nat
    OBVIOUS
  <1>2. <<>> \in Verdict
    BY <1>1 DEF Verdict
  <1> QED BY <1>2 DEF NoLabeller, Labelling

LEMMA SamplesStart == Init => SamplesInv
  <1> SUFFICES ASSUME Init PROVE SamplesInv
    OBVIOUS
  <1> USE SamplesAssumption DEF Init, SamplesInit
  <1>1. session \in Session
    BY DEF NoSession, Session, Stages
  <1>2. labeller \in [Labellers -> Labelling]
    BY NobodyLabels
  <1>3. session.stage = "idle" /\ \A l \in Labellers : labeller[l].stage = "idle"
    BY DEF NoSession, NoLabeller
  <1>4. SampleType
    BY <1>1, <1>2, <1>3 DEF SampleType
  <1>5. SessionSound /\ ManifestSound /\ ReadSound
    BY <1>3 DEF SessionSound, ManifestSound, ReadSound
  <1>6. TemporarySound
    BY DEF TemporarySound
  <1>7. NothingReviewedIsLost
    BY DEF NothingReviewedIsLost, LatestLines
  <1> QED BY <1>4, <1>5, <1>6, <1>7 DEF SamplesInv

LEMMA BundleStarts == Init => BundleInv
  <1> SUFFICES ASSUME Init PROVE BundleInv
    OBVIOUS
  <1> USE DEF Init, BundleInit
  <1>1. exported \in Seq(Chunk) /\ Lines(exported) = {}
    BY DEF Lines
  <1>2. JobSound(packager)
    BY DEF NoPackager, JobSound
  <1>3. bundle.train = {} /\ bundle.validation = {} /\ "train" \notin bundle.files
    BY DEF NoBundle
  <1> QED BY <1>1, <1>2, <1>3 DEF BundleInv, ReviewedPairsTrain, HeldOutIsUnseen,
          LaunchedIsComplete, LauncherAccepts, LargeEnough, Trained

-----------------------------------------------------------------------------
(* The session.  Whatever it writes, the lines there are stay sound.       *)

\* record() writes the eight files of the next decision.
LEMMA PicturesKept ==
  ASSUME SamplesInv, NEW shows, WriteImages(shows),
         session'.stage = "idle" \/ (session'.samples = session.samples
                                       /\ session'.decision = session.decision + 1),
         NEW d \in Samples, NEW n \in Decisions, NEW own, Pictured(d, n, own)
  PROVE  Pictured(d, n, own)'
  <1> USE SamplesAssumption DEF SampleOf
  <1> DEFINE k == session.decision + 1
  <1>1. /\ session \in Session /\ session.samples \in Samples /\ session.stage # "idle"
        /\ images \in [Samples -> [Decisions -> Pictures \cup {Partial, Absent}]]
        /\ sessions \in [Samples -> Nat]
    BY DEF SamplesInv, SampleType, WriteImages
  <1>2. session.decision \in 0..MaxRecords /\ session.decision < MaxRecords
    BY <1>1 DEF Session, WriteImages
  <1>3. k \in Decisions
    BY <1>2 DEF Decisions
  <1>4. CASE d # session.samples
    <2>1. images'[d] = images[d] /\ sessions'[d] = sessions[d]
      BY <1>1, <1>4 DEF WriteImages
    <2> QED BY <1>4, <2>1 DEF Pictured
  <1>5. CASE d = session.samples /\ session.decision = 0
    <2>1. sessions'[d] = sessions[d] + 1 /\ sessions[d] \in Nat /\ sessions[d] >= 1
      BY <1>1, <1>5 DEF WriteImages, Pictured
    <2> QED BY <2>1 DEF Pictured
  <1>6. CASE d = session.samples /\ session.decision > 0
    <2>1. sessions'[d] = sessions[d]
      BY <1>1, <1>6 DEF WriteImages
    <2>2. (n <= session.decision /\ images[d][n] = own) \/ sessions[d] > 1
      BY <1>1, <1>6 DEF Pictured
    <2>3. n # k => images'[d][n] = images[d][n]
      BY <1>1, <1>3 DEF WriteImages
    <2>4. sessions[d] >= 1 /\ n \in Nat
      BY DEF Pictured, Decisions
    <2> QED BY <1>1, <1>2, <1>6, <2>1, <2>2, <2>3, <2>4 DEF Pictured
  <1> QED BY <1>2, <1>4, <1>5, <1>6

\* Nothing was written to the pictures, and the session did not go back.
LEMMA PicturesLeft ==
  ASSUME UNCHANGED <<images, sessions>>,
         \/ session'.stage = "idle" \/ session'.decision = 0
         \/ session.stage # "idle" /\ session'.samples = session.samples
               /\ session'.decision = session.decision,
         NEW d, NEW n, NEW own, Pictured(d, n, own)
  PROVE  Pictured(d, n, own)'
  BY DEF Pictured

LEMMA WritingKeepsTypes ==
  ASSUME SamplesInv, NEW shows \in Pictures \cup {Partial}, WriteImages(shows)
  PROVE  /\ images' \in [Samples -> [Decisions -> Pictures \cup {Partial, Absent}]]
         /\ sessions' \in [Samples -> Nat]
         /\ session.decision + 1 \in Decisions
         /\ session.samples \in Samples
         /\ sessions'[session.samples] >= 1
         /\ images'[session.samples][session.decision + 1] = shows
  <1> USE SamplesAssumption DEF SampleOf
  <1>1. /\ session \in Session /\ session.samples \in Samples /\ session.stage # "idle"
        /\ images \in [Samples -> [Decisions -> Pictures \cup {Partial, Absent}]]
        /\ sessions \in [Samples -> Nat]
        /\ session.decision > 0 => sessions[session.samples] >= 1
    BY DEF SamplesInv, SampleType, SessionSound, WriteImages
  <1>2. session.decision \in 0..MaxRecords /\ session.decision < MaxRecords
    BY <1>1 DEF Session, WriteImages
  <1>3. session.decision + 1 \in Decisions
    BY <1>2 DEF Decisions
  <1> QED BY <1>1, <1>2, <1>3 DEF WriteImages

\* Lines that were sound are sound after a step that keeps the pictures.
LEMMA SoundStays ==
  ASSUME SampleType, given \subseteq given', ManifestSound, TemporarySound, ReadSound,
         \A own : \A d \in Samples, n \in Decisions : Pictured(d, n, own) => Pictured(d, n, own)'
  PROVE  /\ \A line : \A d \in Samples : LineSound(d, line) => LineSound(d, line)'
         /\ manifest' = manifest => ManifestSound'
         /\ temporary' = temporary => TemporarySound'
         /\ labeller' = labeller => ReadSound'
  <1>1. \A line : \A d \in Samples : LineSound(d, line) => LineSound(d, line)'
    BY DEF LineSound, Backed, Record
  <1>2. manifest' = manifest => ManifestSound'
    BY <1>1 DEF ManifestSound
  <1>3. temporary' = temporary => TemporarySound'
    BY <1>1 DEF TemporarySound
  <1>4. labeller' = labeller => ReadSound'
    BY <1>1 DEF ReadSound, SampleType
  <1> QED BY <1>1, <1>2, <1>3, <1>4

\* A session starts.
LEMMA BeginKeepsSamples ==
  ASSUME SamplesInv, NEW where \in Samples, StartSession(where)
  PROVE  SamplesInv'
  <1> USE SamplesAssumption
  <1>1. /\ UNCHANGED <<images, manifest, temporary, labeller, history>>
        /\ session.stage = "idle"
    BY DEF StartSession
  <1>2. /\ session' \in Session /\ session'.decision = 0
        /\ session'.stage = "running" /\ session'.samples \in Samples
    <2>1. session' = [stage |-> "running", samples |-> where, decision |-> 0, shows |-> Absent]
      BY DEF StartSession, NoSession
    <2> QED BY <2>1 DEF Session, Stages
  <1>3. SampleType'
    BY <1>1, <1>2 DEF SamplesInv, SampleType, history
  <1>4. SessionSound'
    BY <1>2 DEF SessionSound
  <1>5. \A own : \A d \in Samples, n \in Decisions : Pictured(d, n, own) => Pictured(d, n, own)'
    BY <1>1, <1>2, PicturesLeft DEF history
  <1>6. ManifestSound' /\ TemporarySound' /\ ReadSound'
    BY <1>1, <1>5, SoundStays DEF SamplesInv, history
  <1>7. NothingReviewedIsLost'
    BY <1>1 DEF SamplesInv, NothingReviewedIsLost, LatestLines, history
  <1> QED BY <1>3, <1>4, <1>6, <1>7 DEF SamplesInv

\* Eight pictures are saved.
LEMMA SaveKeepsSamples ==
  ASSUME SamplesInv, NEW shows \in Pictures, SaveImages(shows)
  PROVE  SamplesInv'
  <1> USE SamplesAssumption
  <1>1. /\ WriteImages(shows) /\ session \in Session
        /\ UNCHANGED <<manifest, temporary, labeller, recorded, reviewed, given, overlapped>>
    BY DEF SaveImages, SamplesInv, SampleType
  <1>2. /\ session'.decision = session.decision + 1 /\ session'.stage = "saved"
        /\ session'.shows = shows /\ session'.samples = session.samples
    BY <1>1 DEF SaveImages, Session
  <1>3. session' \in Session
    <2>1. session.decision + 1 \in 0..MaxRecords
      BY <1>1, WritingKeepsTypes DEF Decisions
    <2>2. session' = [session EXCEPT !.decision = session.decision + 1, !.shows = shows,
                                     !.stage = "saved"]
      BY DEF SaveImages
    <2> QED BY <1>1, <2>1, <2>2 DEF Session, Stages
  <1>4. SampleType'
    BY <1>1, <1>2, <1>3, WritingKeepsTypes DEF SamplesInv, SampleType
  <1>5. SessionSound'
    BY <1>1, <1>2, WritingKeepsTypes DEF SessionSound
  <1>6. \A own : \A d \in Samples, n \in Decisions : Pictured(d, n, own) => Pictured(d, n, own)'
    BY <1>1, <1>2, PicturesKept
  <1>7. ManifestSound' /\ TemporarySound' /\ ReadSound'
    BY <1>1, <1>6, SoundStays DEF SamplesInv
  <1>8. NothingReviewedIsLost'
    BY <1>1 DEF SamplesInv, NothingReviewedIsLost, LatestLines
  <1> QED BY <1>4, <1>5, <1>7, <1>8 DEF SamplesInv

\* What is left of a manifest when only the decisions and their pictures count.
Pairs(lines) == [i \in DOMAIN lines |-> <<lines[i].decision, lines[i].own>>]

\* NothingReviewedIsLost, of one directory.
Kept(d) ==
    Readable(manifest[d]) =>
        /\ Pairs(manifest[d]) = recorded[d]
        /\ \A i \in LatestLines(manifest[d]) :
              manifest[d][i].target = reviewed[d][manifest[d][i].decision]

LEMMA KeptEverywhere == NothingReviewedIsLost <=> \A d \in Samples \ overlapped : Kept(d)
  BY DEF NothingReviewedIsLost, Kept, Pairs

LEMMA ReadableLines ==
  ASSUME NEW lines \in Seq(Record \cup {TornLine}), Readable(lines)
  PROVE  lines \in Seq(Record) /\ \A i \in DOMAIN lines : lines[i] # TornLine
  <1>1. \A i \in 1..Len(lines) : lines[i] # TornLine /\ lines[i] \in Record
    BY DEF Readable, ToSet
  <1> QED BY <1>1

LEMMA UnreadableAppended ==
  ASSUME NEW lines \in Seq(Record \cup {TornLine}), NEW line, ~Readable(lines) \/ line = TornLine
  PROVE  ~Readable(Append(lines, line))
  <1>1. /\ DOMAIN Append(lines, line) = 1..(Len(lines) + 1)
        /\ DOMAIN lines = 1..Len(lines)
        /\ Append(lines, line)[Len(lines) + 1] = line
        /\ \A i \in 1..Len(lines) : Append(lines, line)[i] = lines[i]
    OBVIOUS
  <1>2. CASE ~Readable(lines)
    <2>1. PICK i \in 1..Len(lines) : lines[i] = TornLine
      BY <1>1, <1>2 DEF Readable, ToSet
    <2> QED BY <1>1, <2>1 DEF Readable, ToSet
  <1>3. CASE line = TornLine
    BY <1>1, <1>3 DEF Readable, ToSet
  <1> QED BY <1>2, <1>3

LEMMA PairsAppended ==
  ASSUME NEW lines \in Seq(Record), NEW line \in Record
  PROVE  /\ Pairs(Append(lines, line)) = Append(Pairs(lines), <<line.decision, line.own>>)
         /\ \A i \in LatestLines(Append(lines, line)) :
               \/ i = Len(lines) + 1
               \/ i \in LatestLines(lines) /\ lines[i].decision # line.decision
  <1> DEFINE longer == Append(lines, line)
  <1>1. /\ DOMAIN longer = 1..(Len(lines) + 1) /\ DOMAIN lines = 1..Len(lines)
        /\ longer[Len(lines) + 1] = line /\ \A i \in 1..Len(lines) : longer[i] = lines[i]
        /\ Len(lines) \in Nat
    OBVIOUS
  <1>2. Pairs(lines) \in Seq(Decisions \X Pictures) /\ Len(Pairs(lines)) = Len(lines)
    <2>1. ASSUME NEW i \in 1..Len(lines)
          PROVE  <<lines[i].decision, lines[i].own>> \in Decisions \X Pictures
      <3>1. lines[i] \in Record
        OBVIOUS
      <3> QED BY <3>1 DEF Record
    <2>2. Pairs(lines) \in [1..Len(lines) -> Decisions \X Pictures]
      BY <1>1, <2>1 DEF Pairs
    <2> QED BY <1>1, <2>2
  <1> HIDE DEF longer
  <1>3. Pairs(longer) = Append(Pairs(lines), <<line.decision, line.own>>)
    <2>1. /\ DOMAIN Append(Pairs(lines), <<line.decision, line.own>>) = 1..(Len(lines) + 1)
          /\ Append(Pairs(lines), <<line.decision, line.own>>)[Len(lines) + 1]
                = <<line.decision, line.own>>
          /\ \A i \in 1..Len(lines) :
                Append(Pairs(lines), <<line.decision, line.own>>)[i] = Pairs(lines)[i]
          /\ Append(Pairs(lines), <<line.decision, line.own>>) \in
                Seq((Decisions \X Pictures) \cup {<<line.decision, line.own>>})
      BY <1>2
    <2>2. /\ DOMAIN Pairs(longer) = 1..(Len(lines) + 1)
          /\ Pairs(longer)[Len(lines) + 1] = <<line.decision, line.own>>
          /\ \A i \in 1..Len(lines) : Pairs(longer)[i] = Pairs(lines)[i]
      BY <1>1 DEF Pairs
    <2>3. Pairs(longer) = [i \in 1..(Len(lines) + 1) |-> Pairs(longer)[i]]
      BY <2>2 DEF Pairs
    <2>4. Append(Pairs(lines), <<line.decision, line.own>>) =
             [i \in 1..(Len(lines) + 1) |-> Append(Pairs(lines), <<line.decision, line.own>>)[i]]
      BY <2>1
    <2>5. \A i \in 1..(Len(lines) + 1) : i = Len(lines) + 1 \/ i \in 1..Len(lines)
      BY <1>1
    <2> QED BY <2>1, <2>2, <2>3, <2>4, <2>5
  <1>4. \A i \in LatestLines(longer) :
           i = Len(lines) + 1 \/ (i \in LatestLines(lines) /\ lines[i].decision # line.decision)
    BY <1>1 DEF LatestLines
  <1> QED BY <1>3, <1>4 DEF longer

\* The line of the decision is appended, or is lost behind a torn one.
LEMMA AppendKeepsSamples ==
  ASSUME SamplesInv, AppendRecord
  PROVE  SamplesInv'
  <1> USE SamplesAssumption
  <1> DEFINE d == session.samples
             n == session.decision
             line == [decision |-> n, own |-> session.shows, target |-> NoTarget,
                      reviewed |-> FALSE]
             torn == manifest[d] # <<>> /\ Last(manifest[d]) = TornLine
  <1>1. /\ session.stage = "saved" /\ session \in Session /\ d \in Samples
        /\ n \in Decisions /\ session.shows \in Pictures /\ SampleType
        /\ UNCHANGED <<images, temporary, labeller, sessions, given, overlapped>>
    BY DEF AppendRecord, SamplesInv, SampleType
  <1>2. /\ manifest' = IF torn THEN manifest
                       ELSE [manifest EXCEPT ![d] = Append(manifest[d], line)]
        /\ recorded' = [recorded EXCEPT ![d] = Append(recorded[d], <<n, session.shows>>)]
        /\ reviewed' = [reviewed EXCEPT ![d][n] = NoTarget]
        /\ session' = [session EXCEPT !.stage = "running", !.shows = Absent]
    BY DEF AppendRecord
  <1>3. line \in Record
    BY <1>1 DEF Record
  <1>4. /\ session' \in Session /\ session'.stage = "running"
        /\ session'.samples = d /\ session'.decision = n
    BY <1>1, <1>2 DEF Session, Stages
  <1> HIDE DEF line
  <1>5. SampleType'
    <2>1. manifest' \in [Samples -> Seq(Record \cup {TornLine})]
      <3>1. Append(manifest[d], line) \in Seq(Record \cup {TornLine})
        BY <1>1, <1>3 DEF SampleType
      <3>2. manifest \in [Samples -> Seq(Record \cup {TornLine})]
        BY <1>1 DEF SampleType
      <3> QED BY <1>2, <3>1, <3>2
    <2>2. recorded' \in [Samples -> Seq(Decisions \X Pictures)]
      BY <1>1, <1>2 DEF SampleType
    <2>3. reviewed' \in [Samples -> [Decisions -> Targets \cup {NoTarget}]]
      BY <1>1, <1>2 DEF SampleType
    <2> QED BY <1>1, <1>4, <2>1, <2>2, <2>3 DEF SampleType
  <1>6. SessionSound'
    BY <1>1, <1>4 DEF SamplesInv, SessionSound
  <1>7. \A own : \A e \in Samples, m \in Decisions : Pictured(e, m, own) => Pictured(e, m, own)'
    BY <1>1, <1>4, PicturesLeft
  <1>8. /\ \A other : \A e \in Samples : LineSound(e, other) => LineSound(e, other)'
        /\ TemporarySound' /\ ReadSound' /\ (manifest' = manifest => ManifestSound')
    BY <1>1, <1>7, SoundStays DEF SamplesInv
  <1>9. LineSound(d, line)
    <2>1. line.decision = n /\ line.own = session.shows /\ line.reviewed = FALSE
      BY DEF line
    <2>2. Pictured(d, n, session.shows)
      BY <1>1 DEF SamplesInv, SessionSound, Pictured, Decisions, SampleType
    <2> QED BY <1>3, <2>1, <2>2 DEF LineSound
  <1>10. ManifestSound'
    <2>1. CASE torn
      BY <1>2, <1>8, <2>1
    <2>2. CASE ~torn
      <3>1. manifest' = [manifest EXCEPT ![d] = Append(manifest[d], line)]
        BY <1>2, <2>2
      <3>2. ASSUME NEW e \in Samples, NEW i \in DOMAIN manifest'[e], manifest'[e][i] # TornLine
            PROVE  LineSound(e, manifest'[e][i])
        <4>1. CASE e # d
          BY <1>1, <3>1, <3>2, <4>1 DEF SamplesInv, ManifestSound, SampleType
        <4>2. CASE e = d
          <5>1. /\ manifest[d] \in Seq(Record \cup {TornLine})
                /\ manifest'[d] = Append(manifest[d], line)
            BY <1>1, <3>1 DEF SampleType
          <5>2. CASE i \in DOMAIN manifest[d]
            BY <3>2, <4>2, <5>1, <5>2 DEF SamplesInv, ManifestSound
          <5>3. CASE i \notin DOMAIN manifest[d]
            <6>1. manifest'[d][i] = line
              BY <4>2, <5>1, <5>3
            <6> QED BY <1>9, <4>2, <6>1
          <5> QED BY <5>2, <5>3
        <4> QED BY <4>1, <4>2
      <3> QED BY <1>8, <3>2 DEF ManifestSound
    <2> QED BY <2>1, <2>2
  <1>11. ASSUME NEW e \in Samples \ overlapped' PROVE Kept(e)'
    <2>1. Kept(e)
      BY <1>1, <1>11, KeptEverywhere DEF SamplesInv
    <2>2. manifest[d] \in Seq(Record \cup {TornLine}) /\ manifest[e] \in Seq(Record \cup {TornLine})
      BY <1>1 DEF SampleType
    <2>3. CASE e # d
      <3>1. manifest'[e] = manifest[e] /\ recorded'[e] = recorded[e] /\ reviewed'[e] = reviewed[e]
        BY <1>1, <1>2, <2>3 DEF SampleType
      <3> QED BY <2>1, <3>1 DEF Kept
    <2>4. CASE e = d /\ torn
      <3>1. manifest'[d] = manifest[d] /\ TornLine \in ToSet(manifest[d])
        BY <1>2, <2>2, <2>4 DEF Last, ToSet
      <3> QED BY <2>4, <3>1 DEF Kept, Readable
    <2>5. CASE e = d /\ ~torn /\ ~Readable(manifest[d])
      BY <1>1, <1>2, <2>2, <2>5, UnreadableAppended DEF Kept, SampleType
    <2>6. CASE e = d /\ ~torn /\ Readable(manifest[d])
      <3> DEFINE lines == manifest[d]
      <3>1. /\ lines \in Seq(Record)
            /\ \A i \in DOMAIN lines : lines[i] \in Record
            /\ manifest'[d] = Append(lines, line)
            /\ reviewed'[d] = [reviewed[d] EXCEPT ![n] = NoTarget]
            /\ recorded'[d] = Append(recorded[d], <<n, session.shows>>)
            /\ reviewed[d] \in [Decisions -> Targets \cup {NoTarget}]
        <4>1. lines \in Seq(Record) /\ \A i \in DOMAIN lines : lines[i] \in Record
          BY <2>2, <2>6, ReadableLines
        <4>2. manifest'[d] = Append(manifest[d], line)
          BY <1>1, <1>2, <2>6 DEF SampleType
        <4>3. recorded'[d] = Append(recorded[d], <<n, session.shows>>)
          BY <1>1, <1>2 DEF SampleType
        <4>4. /\ reviewed[d] \in [Decisions -> Targets \cup {NoTarget}]
              /\ reviewed'[d] = [reviewed[d] EXCEPT ![n] = NoTarget]
          BY <1>1, <1>2 DEF SampleType
        <4> QED BY <4>1, <4>2, <4>3, <4>4
      <3>2. /\ Pairs(lines) = recorded[d]
            /\ \A i \in LatestLines(lines) : lines[i].target = reviewed[d][lines[i].decision]
        BY <2>1, <2>6 DEF Kept
      <3>3. line.decision = n /\ line.own = session.shows /\ line.target = NoTarget
        BY DEF line
      <3>4. Pairs(manifest'[d]) = recorded'[d]
        <4>1. <<line.decision, line.own>> = <<n, session.shows>>
          BY <3>3
        <4>2. Pairs(Append(lines, line)) = Append(Pairs(lines), <<n, session.shows>>)
          BY <1>3, <3>1, <4>1, PairsAppended
        <4> QED BY <3>1, <3>2, <4>2
      <3>5. ASSUME NEW i \in LatestLines(manifest'[d])
            PROVE  manifest'[d][i].target = reviewed'[d][manifest'[d][i].decision]
        <4>1. \/ i = Len(lines) + 1
              \/ i \in LatestLines(lines) /\ lines[i].decision # n
          BY <1>3, <3>1, <3>3, <3>5, PairsAppended
        <4>2. CASE i = Len(lines) + 1
          <5>1. manifest'[d][i] = line
            BY <3>1, <4>2
          <5> QED BY <1>1, <3>1, <3>3, <5>1
        <4>3. CASE i \in LatestLines(lines) /\ lines[i].decision # n
          <5>1. i \in DOMAIN lines /\ manifest'[d][i] = lines[i]
            BY <3>1, <4>3 DEF LatestLines
          <5>2. lines[i].decision \in Decisions
            BY <3>1, <5>1 DEF Record
          <5> QED BY <3>1, <3>2, <4>3, <5>1, <5>2
        <4> QED BY <4>1, <4>2, <4>3
      <3> QED BY <2>6, <3>4, <3>5 DEF Kept
    <2> QED BY <2>3, <2>4, <2>5, <2>6
  <1>12. NothingReviewedIsLost'
    BY <1>11 DEF NothingReviewedIsLost, Kept, Pairs
  <1> QED BY <1>5, <1>6, <1>8, <1>10, <1>12 DEF SamplesInv

\* A session ends, or is killed: some of the eight files may have been
\* written, and a line may be torn.
LEMMA EndKeepsSamples ==
  ASSUME SamplesInv, EndRun \/ KillSession
  PROVE  SamplesInv'
  <1> USE SamplesAssumption
  <1>1. /\ SampleType /\ session.stage # "idle" /\ session.samples \in Samples
        /\ MayLeavePartial
        /\ UNCHANGED <<temporary, labeller, recorded, reviewed, given, overlapped>>
    BY DEF EndRun, KillSession, SamplesInv, SampleType
  <1>2. session' \in Session /\ session'.stage = "idle"
    BY DEF EndRun, KillSession, NoSession, Session, Stages
  <1>3. /\ images' \in [Samples -> [Decisions -> Pictures \cup {Partial, Absent}]]
        /\ sessions' \in [Samples -> Nat]
    BY <1>1, WritingKeepsTypes DEF MayLeavePartial, SampleType
  <1>4. /\ manifest' \in [Samples -> Seq(Record \cup {TornLine})]
        /\ \A d \in Samples :
              \/ manifest'[d] = manifest[d]
              \/ manifest'[d] = Append(manifest[d], TornLine)
    <2> DEFINE d == session.samples
    <2>1. manifest \in [Samples -> Seq(Record \cup {TornLine})]
      BY <1>1 DEF SampleType
    <2>2. \/ manifest' = manifest
          \/ manifest' = [manifest EXCEPT ![d] = Append(manifest[d], TornLine)]
      <3>1. \/ manifest' = manifest
            \/ manifest' = [manifest EXCEPT ![d] = IF Readable(manifest[d])
                                                  THEN Append(manifest[d], TornLine)
                                                  ELSE manifest[d]]
        BY DEF EndRun, KillSession
      <3>2. [manifest EXCEPT ![d] = manifest[d]] = manifest
        BY <1>1, <2>1
      <3> QED BY <3>1, <3>2
    <2>3. Append(manifest[d], TornLine) \in Seq(Record \cup {TornLine})
      BY <1>1, <2>1
    <2> QED BY <1>1, <2>2, <2>1, <2>3
  <1>5. SampleType'
    BY <1>1, <1>2, <1>3, <1>4 DEF SampleType
  <1>6. SessionSound'
    BY <1>2 DEF SessionSound
  <1>7. ASSUME NEW d \in Samples, NEW n \in Decisions, NEW own, Pictured(d, n, own)
        PROVE  Pictured(d, n, own)'
    <2>1. CASE UNCHANGED <<images, sessions>>
      BY <1>2, <1>7, <2>1, PicturesLeft
    <2>2. CASE WriteImages(Partial)
      BY <1>2, <1>7, <2>2, PicturesKept
    <2> QED BY <1>1, <2>1, <2>2 DEF MayLeavePartial
  <1>8. /\ \A line : \A d \in Samples : LineSound(d, line) => LineSound(d, line)'
        /\ TemporarySound' /\ ReadSound'
    BY <1>1, <1>7, SoundStays DEF SamplesInv
  <1>9. ManifestSound'
    <2>1. ASSUME NEW d \in Samples, NEW i \in DOMAIN manifest'[d], manifest'[d][i] # TornLine
          PROVE  LineSound(d, manifest'[d][i])
      <3>1. manifest[d] \in Seq(Record \cup {TornLine})
        BY <1>1 DEF SampleType
      <3>2. i \in DOMAIN manifest[d] /\ manifest'[d][i] = manifest[d][i]
        <4>1. CASE manifest'[d] = manifest[d]
          BY <2>1, <4>1
        <4>2. CASE manifest'[d] = Append(manifest[d], TornLine)
          <5>1. /\ DOMAIN Append(manifest[d], TornLine) = 1..(Len(manifest[d]) + 1)
                /\ DOMAIN manifest[d] = 1..Len(manifest[d]) /\ Len(manifest[d]) \in Nat
                /\ Append(manifest[d], TornLine)[Len(manifest[d]) + 1] = TornLine
                /\ \A k \in 1..Len(manifest[d]) :
                      Append(manifest[d], TornLine)[k] = manifest[d][k]
            BY <3>1
          <5>2. i # Len(manifest[d]) + 1
            BY <2>1, <4>2, <5>1
          <5> QED BY <2>1, <4>2, <5>1, <5>2
        <4> QED BY <1>4, <4>1, <4>2
      <3> QED BY <2>1, <3>2 DEF SamplesInv, ManifestSound
    <2> QED BY <1>8, <2>1 DEF ManifestSound
  <1>10. ASSUME NEW d \in Samples \ overlapped' PROVE Kept(d)'
    <2>1. Kept(d) /\ manifest[d] \in Seq(Record \cup {TornLine})
      BY <1>1, <1>10, KeptEverywhere DEF SamplesInv, SampleType
    <2>2. CASE manifest'[d] = manifest[d]
      BY <1>1, <2>1, <2>2 DEF Kept
    <2>3. CASE manifest'[d] = Append(manifest[d], TornLine)
      BY <2>1, <2>3, UnreadableAppended DEF Kept
    <2> QED BY <1>4, <2>2, <2>3
  <1>11. NothingReviewedIsLost'
    BY <1>10 DEF NothingReviewedIsLost, Kept, Pairs
  <1> QED BY <1>5, <1>6, <1>8, <1>9, <1>11 DEF SamplesInv

-----------------------------------------------------------------------------
(* The labelling command.                                                  *)

LEMMA VerdictsAreTyped ==
  ASSUME NEW lines \in Seq(Record), NEW verdict \in Verdicts(lines)
  PROVE  verdict \in VerdictOn(lines)
  <1> USE SamplesAssumption
  <1>1. CASE verdict \in OneVerdict(lines)
    <2>1. PICK i \in LatestLines(lines) : verdict \in [{i} -> Targets \cup {NoTarget}]
      BY <1>1 DEF OneVerdict
    <2>2. {i} \in SUBSET DOMAIN lines
      BY DEF LatestLines
    <2> QED BY <2>1, <2>2 DEF VerdictOn
  <1>2. CASE verdict = BaselineVerdict(lines)
    <2> DEFINE some == {j \in DOMAIN lines : lines[j].target = NoTarget}
    <2>1. \A i \in DOMAIN lines : lines[i] \in Record
      OBVIOUS
    <2>2. \A i \in some : BaselineOf[lines[i].own] \in Targets
      BY <2>1 DEF Record
    <2>3. verdict \in [some -> Targets \cup {NoTarget}]
      BY <1>2, <2>2 DEF BaselineVerdict
    <2>4. some \in SUBSET DOMAIN lines
      OBVIOUS
    <2> QED BY <2>3, <2>4 DEF VerdictOn
  <1>3. CASE verdict \in InteractiveVerdicts(lines)
    <2>1. PICK some \in SUBSET {j \in DOMAIN lines : ~lines[j].reviewed} :
             verdict \in [some -> Targets]
      BY <1>3 DEF InteractiveVerdicts
    <2>2. some \in SUBSET DOMAIN lines /\ verdict \in [some -> Targets \cup {NoTarget}]
      BY <2>1
    <2> QED BY <2>2 DEF VerdictOn
  <1> QED BY <1>1, <1>2, <1>3 DEF Verdicts

\* _apply_label and _clear_label leave all but the targets.
LEMMA EditedLines ==
  ASSUME NEW lines \in Seq(Record), NEW verdict \in VerdictOn(lines)
  PROVE  LET edited == Edited(lines, verdict) IN
         /\ edited \in Seq(Record) /\ DOMAIN edited = DOMAIN lines
         /\ \A i \in DOMAIN lines :
               /\ lines[i] \in Record /\ edited[i] \in Record
               /\ edited[i].decision = lines[i].decision /\ edited[i].own = lines[i].own
               /\ i \notin DOMAIN verdict => edited[i] = lines[i]
               /\ i \in DOMAIN verdict =>
                     /\ edited[i].target = verdict[i]
                     /\ edited[i].reviewed = (verdict[i] # NoTarget)
         /\ Pairs(edited) = Pairs(lines) /\ LatestLines(edited) = LatestLines(lines)
         /\ Readable(lines) /\ Readable(edited)
  <1> DEFINE edited == Edited(lines, verdict)
  <1>1. PICK some \in SUBSET DOMAIN lines : verdict \in [some -> Targets \cup {NoTarget}]
    BY DEF VerdictOn
  <1>2. DOMAIN edited = DOMAIN lines /\ DOMAIN lines = 1..Len(lines) /\ Len(lines) \in Nat
    BY DEF Edited
  <1>3. ASSUME NEW i \in DOMAIN lines
        PROVE  /\ lines[i] \in Record /\ edited[i] \in Record
               /\ edited[i].decision = lines[i].decision /\ edited[i].own = lines[i].own
               /\ i \notin DOMAIN verdict => edited[i] = lines[i]
               /\ i \in DOMAIN verdict =>
                     /\ edited[i].target = verdict[i]
                     /\ edited[i].reviewed = (verdict[i] # NoTarget)
    <2>1. lines[i] \in Record
      OBVIOUS
    <2>2. CASE i \notin DOMAIN verdict
      BY <2>1, <2>2 DEF Edited
    <2>3. CASE i \in DOMAIN verdict
      <3>1. verdict[i] \in Targets \cup {NoTarget} /\ (verdict[i] # NoTarget) \in BOOLEAN
        BY <1>1, <2>3
      <3>2. edited[i] = [lines[i] EXCEPT !.target = verdict[i],
                                         !.reviewed = (verdict[i] # NoTarget)]
        BY <2>3 DEF Edited
      <3>4. PICK b \in BOOLEAN : b = (verdict[i] # NoTarget)
        BY <3>1
      <3>5. edited[i] = [lines[i] EXCEPT !.target = verdict[i], !.reviewed = b]
        BY <3>2, <3>4
      <3>6. /\ edited[i] \in Record /\ edited[i].decision = lines[i].decision
            /\ edited[i].own = lines[i].own /\ edited[i].target = verdict[i]
            /\ edited[i].reviewed = b
        BY <2>1, <3>1, <3>5 DEF Record
      <3> QED BY <2>1, <2>3, <3>4, <3>6
    <2> QED BY <2>2, <2>3
  <1> HIDE DEF edited
  <1>4. edited \in Seq(Record)
    <2>1. edited = [i \in 1..Len(lines) |-> edited[i]]
      BY <1>2 DEF edited, Edited
    <2>2. edited \in [1..Len(lines) -> Record]
      BY <1>2, <1>3, <2>1
    <2> QED BY <1>2, <2>2
  <1>5. Pairs(edited) = Pairs(lines)
    BY <1>2, <1>3 DEF Pairs
  <1>6. LatestLines(edited) = LatestLines(lines)
    BY <1>2, <1>3 DEF LatestLines
  <1>7. Readable(lines) /\ Readable(edited)
    BY <1>2, <1>3, SamplesAssumption DEF Readable, ToSet
  <1> QED BY <1>2, <1>3, <1>4, <1>5, <1>6, <1>7 DEF edited

\* Nobody else's work is touched before the manifest is replaced.
LEMMA LoadKeepsSamples ==
  ASSUME SamplesInv, NEW l \in Labellers, NEW d \in Samples, LoadRecords(l, d)
  PROVE  SamplesInv'
  <1>1. /\ UNCHANGED <<images, manifest, temporary, session, history>>
        /\ SampleType /\ Readable(manifest[d])
        /\ labeller' = [labeller EXCEPT ![l] = [NoLabeller EXCEPT
                           !.stage = "loaded", !.samples = d, !.read = manifest[d]]]
    BY DEF LoadRecords, SamplesInv
  <1>2. PICK read \in Seq(Record) :
          read = manifest[d] /\ \A i \in DOMAIN read : LineSound(d, read[i])
    BY <1>1, ReadableLines DEF SampleType, SamplesInv, ManifestSound
  <1> DEFINE loaded == [NoLabeller EXCEPT !.stage = "loaded", !.samples = d, !.read = read]
  <1>3. /\ loaded \in Labelling /\ loaded.stage = "loaded" /\ loaded.samples = d
        /\ loaded.read = read
    BY <1>2, NobodyLabels DEF Labelling
  <1>4. /\ labeller' \in [Labellers -> Labelling] /\ labeller'[l] = loaded
        /\ \A k \in Labellers : k # l => labeller'[k] = labeller[k]
    BY <1>1, <1>2, <1>3 DEF SampleType
  <1> HIDE DEF loaded
  <1>5. SampleType'
    BY <1>1, <1>3, <1>4 DEF SampleType, history
  <1>6. \A own : \A e \in Samples, n \in Decisions : Pictured(e, n, own) => Pictured(e, n, own)'
    BY <1>1 DEF Pictured, history
  <1>7. /\ \A line : \A e \in Samples : LineSound(e, line) => LineSound(e, line)'
        /\ ManifestSound' /\ TemporarySound'
    BY <1>1, <1>6, SoundStays DEF SamplesInv, history
  <1>8. ReadSound'
    <2>1. \A i \in DOMAIN read : LineSound(d, read[i])'
      BY <1>2, <1>7
    <2> QED BY <1>1, <1>3, <1>4, <1>7, <2>1 DEF ReadSound, SamplesInv, SampleType
  <1>9. SessionSound' /\ NothingReviewedIsLost'
    BY <1>1 DEF SamplesInv, SessionSound, NothingReviewedIsLost, LatestLines, history
  <1> QED BY <1>5, <1>7, <1>8, <1>9 DEF SamplesInv

\* A labeller leaves, perhaps with a temporary file that is torn.
LEMMA LeaveKeepsSamples ==
  ASSUME SamplesInv, NEW l \in Labellers, LeaveUnchanged(l) \/ KillLabeller(l)
  PROVE  SamplesInv'
  <1>1. /\ UNCHANGED <<images, manifest, session, history>> /\ SampleType
        /\ labeller' = [labeller EXCEPT ![l] = NoLabeller]
        /\ \A d \in Samples : temporary'[d] \in {temporary[d], Torn}
        /\ temporary' \in [Samples -> Seq(Record) \cup {Absent, Torn}]
    BY DEF LeaveUnchanged, KillLabeller, SamplesInv, SampleType
  <1>2. /\ labeller' \in [Labellers -> Labelling] /\ labeller'[l].stage = "idle"
        /\ \A k \in Labellers : k # l => labeller'[k] = labeller[k]
    BY <1>1, NobodyLabels DEF SampleType, NoLabeller
  <1>3. SampleType'
    BY <1>1, <1>2 DEF SampleType, history
  <1>4. \A own : \A e \in Samples, n \in Decisions : Pictured(e, n, own) => Pictured(e, n, own)'
    BY <1>1 DEF Pictured, history
  <1>5. /\ \A line : \A e \in Samples : LineSound(e, line) => LineSound(e, line)'
        /\ ManifestSound'
    BY <1>1, <1>4, SoundStays DEF SamplesInv, history
  <1>6. TemporarySound'
    BY <1>1, <1>5 DEF SamplesInv, TemporarySound
  <1>7. ReadSound'
    BY <1>1, <1>2, <1>5 DEF SamplesInv, ReadSound, SampleType
  <1>8. SessionSound' /\ NothingReviewedIsLost'
    BY <1>1 DEF SamplesInv, SessionSound, NothingReviewedIsLost, LatestLines, history
  <1> QED BY <1>3, <1>5, <1>6, <1>7, <1>8 DEF SamplesInv

\* What a labeller writes is what it read, with targets a reviewer gave.
LEMMA WriteKeepsSamples ==
  ASSUME SamplesInv, NEW l \in Labellers, WriteTemporary(l)
  PROVE  SamplesInv'
  <1>0. /\ labeller[l].stage = "loaded" /\ labeller[l].samples \in Samples
        /\ labeller[l].read \in Seq(Record) /\ labeller[l] \in Labelling
    BY DEF WriteTemporary, SamplesInv, SampleType, Labelling
  <1> PICK d \in Samples, read \in Seq(Record) :
          d = labeller[l].samples /\ read = labeller[l].read
    BY <1>0
  <1>1. /\ UNCHANGED <<images, manifest, session, sessions, recorded, reviewed, overlapped>>
        /\ SampleType /\ \A i \in DOMAIN read : LineSound(d, read[i])
    BY <1>0 DEF WriteTemporary, SamplesInv, ReadSound
  <1>1a. \E verdict \in Verdicts(labeller[l].read) :
          /\ labeller' = [labeller EXCEPT ![l].stage = "written", ![l].verdict = verdict]
          /\ temporary' = [temporary EXCEPT ![labeller[l].samples] =
                              Edited(labeller[l].read, verdict)]
          /\ given \subseteq given'
          /\ \A i \in DOMAIN verdict : verdict[i] # NoTarget =>
                [samples |-> labeller[l].samples, decision |-> labeller[l].read[i].decision,
                 own |-> labeller[l].read[i].own, target |-> verdict[i]] \in given'
    BY DEF WriteTemporary
  <1>2. PICK verdict \in Verdicts(read) :
          /\ labeller' = [labeller EXCEPT ![l].stage = "written", ![l].verdict = verdict]
          /\ temporary' = [temporary EXCEPT ![d] = Edited(read, verdict)]
          /\ given \subseteq given'
          /\ \A i \in DOMAIN verdict : verdict[i] # NoTarget =>
                [samples |-> d, decision |-> read[i].decision, own |-> read[i].own,
                 target |-> verdict[i]] \in given'
    BY <1>1a
  <1> DEFINE mine == Edited(read, verdict)
  <1>3. verdict \in VerdictOn(read) /\ verdict \in Verdict
    <2>1. verdict \in VerdictOn(read)
      BY <1>1, VerdictsAreTyped
    <2>2. DOMAIN read \subseteq Nat
      BY <1>1
    <2> QED BY <2>1, <2>2 DEF VerdictOn, Verdict
  <1>4. /\ mine \in Seq(Record) /\ DOMAIN mine = DOMAIN read
        /\ \A i \in DOMAIN read :
              /\ mine[i] \in Record
              /\ mine[i].decision = read[i].decision /\ mine[i].own = read[i].own
              /\ i \notin DOMAIN verdict => mine[i] = read[i]
              /\ i \in DOMAIN verdict =>
                    mine[i].target = verdict[i] /\ mine[i].reviewed = (verdict[i] # NoTarget)
    BY <1>1, <1>3, EditedLines
  <1>5. /\ labeller'[l] = [labeller[l] EXCEPT !.stage = "written", !.verdict = verdict]
        /\ \A k \in Labellers : k # l => labeller'[k] = labeller[k]
        /\ labeller' \in [Labellers -> Labelling]
    BY <1>0, <1>1, <1>2, <1>3 DEF SampleType, Labelling
  <1>6. /\ labeller'[l].stage = "written" /\ labeller'[l].samples = d
        /\ labeller'[l].read = read /\ labeller'[l].verdict = verdict
    BY <1>0, <1>1, <1>5 DEF Labelling
  <1> HIDE DEF mine
  <1>7. temporary' \in [Samples -> Seq(Record) \cup {Absent, Torn}]
    BY <1>1, <1>2, <1>4 DEF SampleType, mine
  <1>8. SampleType'
    <2>1. \A k \in Labellers :
             /\ labeller'[k].stage # "idle" => labeller'[k].samples \in Samples
             /\ labeller'[k].stage = "written" =>
                   labeller'[k].verdict \in VerdictOn(labeller'[k].read)
      BY <1>1, <1>3, <1>5, <1>6 DEF SampleType
    <2> QED BY <1>1, <1>5, <1>7, <2>1 DEF SampleType
  <1>9. \A own : \A e \in Samples, n \in Decisions : Pictured(e, n, own) => Pictured(e, n, own)'
    BY <1>1 DEF Pictured
  <1>10. /\ \A line : \A e \in Samples : LineSound(e, line) => LineSound(e, line)'
         /\ ManifestSound'
    BY <1>1, <1>2, <1>9, SoundStays DEF SamplesInv
  <1>11. ASSUME NEW i \in DOMAIN mine PROVE LineSound(d, mine[i])'
    <2>1. LineSound(d, read[i]) /\ LineSound(d, read[i])'
      BY <1>1, <1>4, <1>10, <1>11
    <2>2. CASE i \notin DOMAIN verdict
      BY <1>4, <1>11, <2>1, <2>2
    <2>3. CASE i \in DOMAIN verdict
      <3>1. mine[i].target # NoTarget =>
               [samples |-> d, decision |-> read[i].decision, own |-> read[i].own,
                target |-> verdict[i]] \in given'
        BY <1>2, <1>4, <1>11, <2>3
      <3> QED BY <1>4, <1>11, <2>1, <2>3, <3>1 DEF LineSound, Backed
    <2> QED BY <2>2, <2>3
  <1>12. TemporarySound'
    <2>1. temporary'[d] = mine /\ \A e \in Samples : e # d => temporary'[e] = temporary[e]
      BY <1>1, <1>2 DEF SampleType, mine
    <2> QED BY <1>10, <1>11, <2>1 DEF SamplesInv, TemporarySound
  <1>13. ReadSound'
    <2> SUFFICES ASSUME NEW k \in Labellers, (labeller[k].stage # "idle")',
                        NEW i \in DOMAIN labeller'[k].read
                 PROVE  LineSound(labeller[k].samples, labeller[k].read[i])'
      BY DEF ReadSound
    <2>1. CASE k = l
      BY <1>1, <1>6, <1>10, <2>1
    <2>2. CASE k # l
      BY <1>1, <1>5, <1>10, <2>2 DEF SamplesInv, ReadSound, SampleType
    <2> QED BY <2>1, <2>2
  <1>14. SessionSound' /\ NothingReviewedIsLost'
    BY <1>1 DEF SamplesInv, SessionSound, NothingReviewedIsLost, LatestLines
  <1> QED BY <1>8, <1>10, <1>12, <1>13, <1>14 DEF SamplesInv

\* The manifest becomes what somebody wrote to the temporary file.
LEMMA ReplaceKeepsSamples ==
  ASSUME SamplesInv, NEW l \in Labellers, ReplaceManifest(l)
  PROVE  SamplesInv'
  <1>1. /\ labeller[l].stage = "written" /\ labeller[l].samples \in Samples
        /\ labeller[l].read \in Seq(Record) /\ labeller[l].verdict \in VerdictOn(labeller[l].read)
        /\ SampleType
    BY DEF ReplaceManifest, SamplesInv, SampleType, Labelling
  <1> PICK d \in Samples, read \in Seq(Record) :
          d = labeller[l].samples /\ read = labeller[l].read
    BY <1>1
  <1> PICK verdict \in VerdictOn(read) : verdict = labeller[l].verdict
    BY <1>1
  <1>2. /\ UNCHANGED <<images, session, sessions, recorded, given>>
        /\ labeller' = [labeller EXCEPT ![l] = NoLabeller]
    BY DEF ReplaceManifest, history
  <1>3. /\ labeller' \in [Labellers -> Labelling] /\ labeller'[l].stage = "idle"
        /\ \A k \in Labellers : k # l => labeller'[k] = labeller[k]
    BY <1>1, <1>2, NobodyLabels DEF SampleType, NoLabeller
  <1>4. \A own : \A e \in Samples, n \in Decisions : Pictured(e, n, own) => Pictured(e, n, own)'
    BY <1>2 DEF Pictured
  <1>5. \A line : \A e \in Samples : LineSound(e, line) => LineSound(e, line)'
    BY <1>1, <1>2, <1>4, SoundStays DEF SamplesInv
  <1>6. ReadSound' /\ SessionSound'
    BY <1>1, <1>2, <1>3, <1>5 DEF SamplesInv, ReadSound, SampleType, SessionSound
  <1>7. CASE UNCHANGED <<manifest, temporary, reviewed, overlapped>>
    <2>1. SampleType' /\ ManifestSound' /\ TemporarySound'
      BY <1>1, <1>2, <1>3, <1>5, <1>7 DEF SamplesInv, SampleType, ManifestSound, TemporarySound
    <2>2. NothingReviewedIsLost'
      BY <1>2, <1>7 DEF SamplesInv, NothingReviewedIsLost, LatestLines
    <2> QED BY <1>6, <2>1, <2>2 DEF SamplesInv
  <1>8. CASE temporary[d] # Absent
    <2> DEFINE new == IF temporary[d] = Torn THEN <<TornLine>> ELSE temporary[d]
               judged(n) == {i \in DOMAIN verdict \cap LatestLines(read) : read[i].decision = n}
               now(n) == IF judged(n) = {} THEN reviewed[d][n]
                         ELSE verdict[CHOOSE i \in judged(n) : TRUE]
    <2>1. /\ manifest' = [manifest EXCEPT ![d] = new]
          /\ temporary' = [temporary EXCEPT ![d] = Absent]
          /\ reviewed' = [reviewed EXCEPT ![d] = [n \in Decisions |-> now(n)]]
          /\ overlapped' = IF manifest[d] = read /\ temporary[d] = Edited(read, verdict)
                           THEN overlapped ELSE overlapped \cup {d}
      BY <1>8 DEF ReplaceManifest
    <2>2. /\ new \in Seq(Record \cup {TornLine})
          /\ \A i \in DOMAIN new : new[i] # TornLine => LineSound(d, new[i])
      <3>1. CASE temporary[d] = Torn
        BY <3>1
      <3>2. CASE temporary[d] # Torn
        BY <1>1, <1>8, <3>2 DEF SamplesInv, SampleType, TemporarySound
      <3> QED BY <3>1, <3>2
    <2> HIDE DEF new
    <2>3. manifest' \in [Samples -> Seq(Record \cup {TornLine})]
      BY <1>1, <2>1, <2>2 DEF SampleType
    <2>4. \A n : judged(n) # {} => (CHOOSE i \in judged(n) : TRUE) \in judged(n)
      OBVIOUS
    <2>5. \A n \in Decisions : now(n) \in Targets \cup {NoTarget}
      <3>1. \A i \in DOMAIN verdict : verdict[i] \in Targets \cup {NoTarget}
        BY DEF VerdictOn
      <3> QED BY <1>1, <2>4, <3>1 DEF SampleType
    <2> HIDE DEF now
    <2>6. reviewed' \in [Samples -> [Decisions -> Targets \cup {NoTarget}]]
      BY <1>1, <2>1, <2>5 DEF SampleType
    <2>7. temporary' \in [Samples -> Seq(Record) \cup {Absent, Torn}]
      BY <1>1, <2>1 DEF SampleType
    <2>8. SampleType'
      BY <1>1, <1>2, <1>3, <2>3, <2>6, <2>7 DEF SampleType
    <2>9. ManifestSound'
      <3>1. manifest'[d] = new /\ \A e \in Samples : e # d => manifest'[e] = manifest[e]
        BY <1>1, <2>1 DEF SampleType
      <3> SUFFICES ASSUME NEW e \in Samples, NEW i \in DOMAIN manifest'[e],
                          manifest'[e][i] # TornLine
                   PROVE  LineSound(e, manifest[e][i])'
        BY DEF ManifestSound
      <3>2. LineSound(e, manifest'[e][i])
        BY <2>2, <3>1 DEF SamplesInv, ManifestSound
      <3> QED BY <1>5, <3>2
    <2>10. TemporarySound'
      BY <1>1, <1>5, <2>1 DEF SamplesInv, TemporarySound, SampleType
    <2>11. ASSUME NEW e \in Samples \ overlapped' PROVE Kept(e)'
      <3>1. e \notin overlapped /\ Kept(e)
        BY <2>1, <2>11, KeptEverywhere DEF SamplesInv
      <3>2. CASE e # d
        <4>1. manifest'[e] = manifest[e] /\ recorded'[e] = recorded[e]
                /\ reviewed'[e] = reviewed[e]
          BY <1>1, <1>2, <2>1, <3>2 DEF SampleType
        <4> QED BY <3>1, <4>1 DEF Kept
      <3>3. CASE e = d
        <4> DEFINE mine == Edited(read, verdict)
        <4>1. manifest[d] = read /\ temporary[d] = mine
          BY <2>1, <2>11, <3>3
        <4>2. /\ DOMAIN mine = DOMAIN read /\ Readable(read)
              /\ Pairs(mine) = Pairs(read) /\ LatestLines(mine) = LatestLines(read)
              /\ \A i \in DOMAIN read :
                    /\ read[i] \in Record
                    /\ mine[i].decision = read[i].decision
                    /\ i \notin DOMAIN verdict => mine[i] = read[i]
                    /\ i \in DOMAIN verdict => mine[i].target = verdict[i]
          BY EditedLines
        <4> HIDE DEF mine
        <4>3. /\ Pairs(read) = recorded[d]
              /\ \A i \in LatestLines(read) : read[i].target = reviewed[d][read[i].decision]
          BY <3>1, <3>3, <4>1, <4>2 DEF Kept
        <4>4. CASE temporary[d] = Torn
          <5>1. manifest'[d] = <<TornLine>>
            BY <1>1, <2>1, <4>4 DEF SampleType, new
          <5>2. TornLine \in ToSet(manifest'[d])
            BY <5>1 DEF ToSet
          <5> QED BY <3>3, <5>2 DEF Kept, Readable
        <4>5. CASE temporary[d] # Torn
          <5>1. manifest'[d] = mine /\ \A n \in Decisions : reviewed'[d][n] = now(n)
            BY <1>1, <2>1, <4>1, <4>5 DEF SampleType, new
          <5>2. ASSUME NEW i \in LatestLines(mine)
                PROVE  mine[i].target = reviewed'[d][mine[i].decision]
            <6>1. /\ i \in DOMAIN read /\ i \in LatestLines(read)
                  /\ mine[i].decision = read[i].decision /\ read[i].decision \in Decisions
              BY <4>2, <5>2 DEF LatestLines, Record
            <6>2. \A j \in LatestLines(read) : read[j].decision = read[i].decision => j = i
              BY <6>1 DEF LatestLines
            <6>3. CASE i \in DOMAIN verdict
              <7>1. judged(read[i].decision) = {i}
                BY <6>1, <6>2, <6>3
              <7>2. now(read[i].decision) = verdict[i]
                BY <2>4, <7>1 DEF now
              <7> QED BY <4>2, <5>1, <6>1, <6>3, <7>2
            <6>4. CASE i \notin DOMAIN verdict
              <7>1. judged(read[i].decision) = {}
                BY <6>1, <6>2, <6>4
              <7>2. now(read[i].decision) = reviewed[d][read[i].decision]
                BY <7>1 DEF now
              <7> QED BY <4>2, <4>3, <5>1, <6>1, <6>4, <7>2
            <6> QED BY <6>3, <6>4
          <5> QED BY <1>2, <3>3, <4>2, <4>3, <5>1, <5>2 DEF Kept
        <4> QED BY <4>4, <4>5
      <3> QED BY <3>2, <3>3
    <2>12. NothingReviewedIsLost'
      BY <2>11 DEF NothingReviewedIsLost, Kept, Pairs
    <2> QED BY <1>6, <2>8, <2>9, <2>10, <2>12 DEF SamplesInv
  <1> QED BY <1>7, <1>8 DEF ReplaceManifest, history

-----------------------------------------------------------------------------
(* The invariant of the samples, together.                                 *)

LEMMA SamplesStep ==
  ASSUME SamplesInv, SessionNext \/ LabellerNext
  PROVE  SamplesInv'
  BY BeginKeepsSamples, SaveKeepsSamples, AppendKeepsSamples, EndKeepsSamples,
     LoadKeepsSamples, LeaveKeepsSamples, WriteKeepsSamples, ReplaceKeepsSamples
     DEF SessionNext, LabellerNext

\* The other programs do not write where sessions and labellers do.
LEMMA SamplesLeft ==
  ASSUME SamplesInv, UNCHANGED <<images, manifest, temporary, session, labeller, history>>
  PROVE  SamplesInv'
  <1>1. SampleType' /\ SessionSound'
    BY DEF SamplesInv, SampleType, SessionSound, history
  <1>2. \A line : \A d \in Samples : LineSound(d, line) => LineSound(d, line)'
    BY DEF LineSound, Pictured, Backed, history
  <1>3. ManifestSound' /\ TemporarySound' /\ ReadSound'
    BY <1>2 DEF SamplesInv, ManifestSound, TemporarySound, ReadSound, SampleType
  <1>4. NothingReviewedIsLost'
    BY DEF SamplesInv, NothingReviewedIsLost, LatestLines, history
  <1> QED BY <1>1, <1>3, <1>4 DEF SamplesInv

\* What was sound for a record stays so, whatever sessions and labellers do.
LEMMA SamplesGrow ==
  ASSUME SamplesInv, SessionNext \/ LabellerNext
  PROVE  /\ given \subseteq given'
         /\ \A d \in Samples : sessions[d] > 1 => sessions'[d] > 1
         /\ \A own : \A d \in Samples, n \in Decisions : Pictured(d, n, own) => Pictured(d, n, own)'
  <1>1. SampleType
    BY DEF SamplesInv
  <1>2. CASE \/ AppendRecord \/ \E d \in Samples : StartSession(d)
             \/ (EndRun \/ KillSession) /\ UNCHANGED <<images, sessions>>
    <2>1. UNCHANGED <<images, sessions, given>>
      BY <1>2 DEF AppendRecord, StartSession, EndRun, KillSession, history
    <2>2. \/ session'.stage = "idle" \/ session'.decision = 0
          \/ session.stage # "idle" /\ session'.samples = session.samples
                /\ session'.decision = session.decision
      <3>1. EndRun \/ KillSession => session'.stage = "idle"
        BY DEF EndRun, KillSession, NoSession
      <3>2. \A d \in Samples : StartSession(d) => session'.decision = 0
        BY DEF StartSession, NoSession
      <3>3. AppendRecord => /\ session.stage # "idle" /\ session'.samples = session.samples
                            /\ session'.decision = session.decision
        <4> HAVE AppendRecord
        <4>1. session \in Session /\ session.stage = "saved"
              /\ session' = [session EXCEPT !.stage = "running", !.shows = Absent]
          BY <1>1 DEF AppendRecord, SampleType
        <4> QED BY <4>1 DEF Session
      <3> QED BY <1>2, <3>1, <3>2, <3>3
    <2> QED BY <2>1, <2>2, PicturesLeft
  <1>3. ASSUME NEW shows, WriteImages(shows), given' = given,
               session'.stage = "idle" \/ (session'.samples = session.samples
                                              /\ session'.decision = session.decision + 1)
        PROVE  /\ \A d \in Samples : sessions[d] > 1 => sessions'[d] > 1
               /\ \A own : \A d \in Samples, n \in Decisions :
                     Pictured(d, n, own) => Pictured(d, n, own)'
    <2>1. \A d \in Samples : sessions[d] > 1 => sessions'[d] > 1
      BY <1>1, <1>3 DEF WriteImages, SampleType
    <2> QED BY <1>3, <2>1, PicturesKept
  <1>4. ASSUME NEW shows \in Pictures, SaveImages(shows)
        PROVE  /\ WriteImages(shows) /\ given' = given /\ session'.samples = session.samples
               /\ session'.decision = session.decision + 1
    BY <1>1, <1>4 DEF SaveImages, SampleType, Session
  <1>5. CASE (EndRun \/ KillSession) /\ WriteImages(Partial)
    <2>1. given' = given /\ session'.stage = "idle"
      BY <1>5 DEF EndRun, KillSession, NoSession
    <2> QED BY <1>3, <1>5, <2>1
  <1>6. CASE LabellerNext
    <2>1. UNCHANGED <<images, session, sessions>> /\ given \subseteq given'
      BY <1>6 DEF LabellerNext, LoadRecords, LeaveUnchanged, WriteTemporary, ReplaceManifest,
                  KillLabeller, history
    <2> QED BY <2>1 DEF Pictured
  <1> QED BY <1>2, <1>3, <1>4, <1>5, <1>6 DEF SessionNext, EndRun, KillSession, MayLeavePartial

-----------------------------------------------------------------------------
(* The files of the packager, while sessions and labellers go on.          *)

LEMMA BundleStays ==
  ASSUME BundleInv, UNCHANGED bundleVars, given \subseteq given',
         \A d \in Samples : sessions[d] > 1 => sessions'[d] > 1,
         \A own : \A d \in Samples, n \in Decisions : Pictured(d, n, own) => Pictured(d, n, own)'
  PROVE  BundleInv'
  <1>1. \A item : ItemSound(item) => ItemSound(item)'
    BY DEF ItemSound, LineSound, Backed, Record
  <1>2. \A record, baseline : RecordSound(record, baseline) => RecordSound(record, baseline)'
    BY DEF RecordSound, Backed
  <1>3. exported' = exported /\ packager' = packager /\ bundle' = bundle
    BY DEF bundleVars
  <1>4. exported' \in Seq(Chunk) /\ (\A p \in Lines(exported) : ItemSound(exported[p[1]][p[2]]))'
    BY <1>1, <1>3 DEF BundleInv, Lines
  <1>5. JobSound(packager)'
    <2>1. \A p \in DOMAIN packager.records :
             /\ RecordSound(packager.records[p], packager.baseline)
             /\ packager.records[p].samples \in Samples
      BY DEF BundleInv, JobSound, RecordSound
    <2> QED BY <1>2, <1>3, <2>1 DEF BundleInv, JobSound
  <1>6. \A e \in Trained : e.samples \in Samples
    BY DEF BundleInv, Trained, Entries
  <1>7. ReviewedPairsTrain' /\ HeldOutIsUnseen' /\ LaunchedIsComplete'
    <2>1. ReviewedPairsTrain'
      BY <1>3, <1>6 DEF BundleInv, ReviewedPairsTrain, Trained
    <2>2. HeldOutIsUnseen'
      BY <1>3, <1>6 DEF BundleInv, HeldOutIsUnseen, Trained
    <2>3. LaunchedIsComplete'
      BY <1>3 DEF BundleInv, LaunchedIsComplete, LauncherAccepts, LargeEnough, Trained
    <2> QED BY <2>1, <2>2, <2>3
  <1> QED BY <1>3, <1>4, <1>5, <1>7 DEF BundleInv

-----------------------------------------------------------------------------
(* The records of an input, and of those the first of each mark.           *)

LEMMA LinesAre ==
  ASSUME NEW inputs, NEW p
  PROVE  p \in Lines(inputs) <=> /\ p = <<p[1], p[2]>> /\ p[1] \in DOMAIN inputs
                                 /\ p[2] \in DOMAIN inputs[p[1]]
  BY DEF Lines

LEMMA UsableRecords ==
  ASSUME SampleType, NEW inputs, NEW baseline \in BOOLEAN,
         \A p \in Lines(inputs) : ItemSound(inputs[p[1]][p[2]]),
         NEW p \in DOMAIN Usable(inputs, baseline)
  PROVE  LET record == Usable(inputs, baseline)[p]
         IN /\ p \in Lines(inputs)
            /\ RecordSound(record, baseline)
            /\ record.digest = record.own \/ sessions[record.samples] > 1
  <1> DEFINE item == inputs[p[1]][p[2]]
             target == TargetOf(item.line, baseline)
  <1>1. /\ p \in Lines(inputs) /\ target # NoTarget
        /\ Usable(inputs, baseline)[p] = Judged(item, target)
    BY DEF Usable
  <1>2. item.samples \in Samples /\ LineSound(item.samples, item.line)
    BY <1>1 DEF ItemSound
  <1>3. item.line \in Record /\ item.line.decision \in Decisions /\ item.line.own \in Pictures
        /\ item.line.target \in Targets \cup {NoTarget}
    BY <1>2 DEF LineSound, Record
  <1>4. /\ target \in Targets
        /\ \/ Backed(item.samples, item.line.decision, item.line.own, target)
           \/ baseline /\ target = BaselineOf[item.line.own]
    BY <1>1, <1>2, <1>3, SamplesAssumption DEF TargetOf, LineSound
  <1>5. Pictured(item.samples, item.line.decision, item.line.own)
        /\ sessions[item.samples] \in Nat
    BY <1>2 DEF LineSound, SampleType
  <1>6. Digest(item) = item.line.own \/ sessions[item.samples] > 1
    BY <1>5 DEF Digest, Shown, SampleOf, Pictured
  <1> DEFINE record == Usable(inputs, baseline)[p]
  <1>7. /\ record.samples = item.samples /\ record.decision = item.line.decision
        /\ record.own = item.line.own /\ record.target = target
        /\ record.digest = Digest(item)
    BY <1>1 DEF Judged
  <1> HIDE DEF record, target, item
  <1>8. RecordSound(record, baseline)
    BY <1>2, <1>3, <1>4, <1>5, <1>7 DEF RecordSound
  <1>9. record.digest = record.own \/ sessions[record.samples] > 1
    BY <1>6, <1>7
  <1> QED BY <1>1, <1>8, <1>9 DEF record

LEMMA DeduplicatedRecords ==
  ASSUME NEW records, NEW marks, NEW p \in DOMAIN Deduplicated(records, marks)
  PROVE  p \in DOMAIN records /\ Deduplicated(records, marks)[p] = records[p]
  BY DEF Deduplicated

LEMMA FirstsDiffer ==
  ASSUME NEW records, DOMAIN records \subseteq Nat \X Nat, NEW marks,
         NEW p \in DOMAIN Deduplicated(records, marks),
         NEW q \in DOMAIN Deduplicated(records, marks), p # q
  PROVE  marks[p] # marks[q]
  <1>1. p \in Nat \X Nat /\ q \in Nat \X Nat /\ p \in DOMAIN records /\ q \in DOMAIN records
    BY DeduplicatedRecords
  <1>2. Before(p, q) \/ Before(q, p)
    BY <1>1 DEF Before
  <1> QED BY <1>1, <1>2 DEF Deduplicated

-----------------------------------------------------------------------------
(* What package_dataset makes of a job.                                    *)

EntrySound(e, baseline) ==
    /\ e \in Entries
    /\ Backed(e.samples, e.decision, e.own, e.target)
          \/ (baseline /\ e.target = BaselineOf[e.own])
    /\ e.shows = e.own \/ sessions[e.samples] > 1

LEMMA ConvertedSound ==
  ASSUME SampleType, NEW job, JobSound(job)
  PROVE  /\ \A e \in Converted(job) : EntrySound(e, job.baseline)
         /\ job.source = "build" =>
               \A e, f \in Converted(job) : e # f =>
                   e.shows # f.shows \/ sessions[e.samples] > 1 \/ sessions[f.samples] > 1
  <1>1. ASSUME NEW e \in Converted(job)
        PROVE  \E p \in DOMAIN job.records : e = Entry(job.records[p])
    BY <1>1, DeduplicatedRecords DEF Converted
  <1>2. ASSUME NEW p \in DOMAIN job.records
        PROVE  EntrySound(Entry(job.records[p]), job.baseline)
    <2> DEFINE record == job.records[p]
               e == Entry(record)
    <2>1. RecordSound(record, job.baseline)
      BY DEF JobSound
    <2>2. /\ record.samples \in Samples /\ record.decision \in Decisions
          /\ record.own \in Pictures /\ record.target \in Targets
          /\ images[record.samples][record.decision] \in Pictures \cup {Partial, Absent}
          /\ sessions[record.samples] \in Nat
      BY <2>1 DEF RecordSound, SampleType
    <2>3. /\ e \in Entries /\ e.samples = record.samples /\ e.decision = record.decision
          /\ e.own = record.own /\ e.target = record.target
          /\ e.shows = images[record.samples][record.decision]
      BY <2>2 DEF Entry, Entries, SampleOf
    <2> HIDE DEF e, record
    <2>4. e.shows = e.own \/ sessions[e.samples] > 1
      BY <2>1, <2>2, <2>3 DEF RecordSound, Pictured
    <2> QED BY <2>1, <2>3, <2>4 DEF EntrySound, RecordSound, e, record
  <1>3. ASSUME job.source = "build", NEW e \in Converted(job), NEW f \in Converted(job), e # f
        PROVE  e.shows # f.shows \/ sessions[e.samples] > 1 \/ sessions[f.samples] > 1
    <2>1. PICK p \in DOMAIN job.records, q \in DOMAIN job.records :
             e = Entry(job.records[p]) /\ f = Entry(job.records[q])
      BY <1>1
    <2>2. job.records[p].digest # job.records[q].digest
      BY <1>3, <2>1 DEF JobSound
    <2>3. /\ job.records[p].digest = e.own \/ sessions[e.samples] > 1
          /\ job.records[q].digest = f.own \/ sessions[f.samples] > 1
      BY <1>3, <2>1 DEF JobSound, Entry
    <2>4. EntrySound(e, job.baseline) /\ EntrySound(f, job.baseline)
      BY <1>2, <2>1
    <2> QED BY <2>2, <2>3, <2>4 DEF EntrySound
  <1> QED BY <1>1, <1>2, <1>3

LEMMA FilesAre ==
  ASSUME NEW source
  PROVE  /\ source = "build" => Len(FilesOf(source)) = 6
         /\ source # "build" => Len(FilesOf(source)) = 4
         /\ \A k \in 1..Len(FilesOf(source)) :
               /\ FilesOf(source)[k] = "report" => source = "build" /\ k = 6
               /\ FilesOf(source)[k] = "images" => k = 1
         /\ FilesOf(source)[1] = "images" /\ FilesOf(source)[2] = "train"
         /\ FilesOf(source)[3] = "validation" /\ FilesOf(source)[4] = "info"
  <1>1. CASE source = "build"
    <2>1. FilesOf(source) = <<"images", "train", "validation", "info", "provenance", "report">>
      BY <1>1 DEF FilesOf
    <2>2. /\ FilesOf(source)[1] = "images" /\ FilesOf(source)[2] = "train"
          /\ FilesOf(source)[3] = "validation" /\ FilesOf(source)[4] = "info"
          /\ FilesOf(source)[5] = "provenance" /\ Len(FilesOf(source)) = 6
      BY <2>1
    <2>3. \A k \in 1..6 : k = 1 \/ k = 2 \/ k = 3 \/ k = 4 \/ k = 5 \/ k = 6
      OBVIOUS
    <2>4. FilesOf(source)[6] = "report"
      BY <2>1
    <2>5. \A k \in 1..6 : FilesOf(source)[k] = "report" => k = 6
      BY <2>2, <2>3
    <2>6. \A k \in 1..6 : FilesOf(source)[k] = "images" => k = 1
      BY <2>2, <2>3, <2>4
    <2> QED BY <1>1, <2>2, <2>5, <2>6
  <1>2. CASE source # "build"
    <2>1. FilesOf(source) = <<"images", "train", "validation", "info">>
      BY <1>2 DEF FilesOf
    <2>2. /\ FilesOf(source)[1] = "images" /\ FilesOf(source)[2] = "train"
          /\ FilesOf(source)[3] = "validation" /\ FilesOf(source)[4] = "info"
          /\ Len(FilesOf(source)) = 4
      BY <2>1
    <2>3. \A k \in 1..4 : k = 1 \/ k = 2 \/ k = 3 \/ k = 4
      OBVIOUS
    <2>4. \A k \in 1..Len(FilesOf(source)) : /\ FilesOf(source)[k] # "report"
                                             /\ FilesOf(source)[k] = "images" => k = 1
      BY <2>2, <2>3
    <2> QED BY <1>2, <2>2, <2>4
  <1> QED BY <1>1, <1>2

\* A bundle that the launcher accepts, or will accept, or never.
BundleSound ==
    /\ bundle.train \subseteq Entries /\ bundle.validation \subseteq Entries
    /\ ReviewedPairsTrain /\ HeldOutIsUnseen /\ LaunchedIsComplete

\* A new output, whole or with its latest file half written.
LEMMA OutputSound ==
  ASSUME SampleType, UNCHANGED <<given, sessions>>, NEW job, JobSound(job), NEW heldOut,
         NEW n \in 0..Len(FilesOf(job.source)), NEW torn,
         torn = {} \/ n < Len(FilesOf(job.source)),
         IF n = 0 THEN torn \subseteq {"images"} ELSE "images" \notin torn,
         bundle' = Output(job, heldOut, n, torn)
  PROVE  BundleSound'
  <1> DEFINE all == Converted(job)
             held == {e \in all : EpisodeOf[e.samples] \in heldOut}
             never == {"provenance"} \cup IF held = {} THEN {"validation"} ELSE {}
             written == {FilesOf(job.source)[k] : k \in 1..n}
             files == (torn \cup written) \ never
             whole == files \ torn
  <1>1. /\ bundle'.files = files /\ bundle'.torn = torn \ never
        /\ bundle'.train = IF "train" \in whole THEN all \ held ELSE {}
        /\ bundle'.validation = IF "validation" \in whole THEN held ELSE {}
        /\ bundle'.info = IF "info" \in whole THEN Cardinality(all) ELSE 0
        /\ bundle'.source = job.source /\ bundle'.baseline = job.baseline
    BY DEF Output
  <1>2. held \subseteq all
    OBVIOUS
  <1>3. \A e \in all : EntrySound(e, job.baseline)
    BY ConvertedSound
  <1>4. job.source = "build" => \A e, f \in all : e # f =>
                   e.shows # f.shows \/ sessions[e.samples] > 1 \/ sessions[f.samples] > 1
    BY ConvertedSound
  <1>5. /\ bundle'.train \subseteq all \ held /\ bundle'.validation \subseteq held
    BY <1>1
  <1>6. "report" \in written => job.source = "build" /\ n = Len(FilesOf(job.source))
    BY FilesAre
  <1>7. n = Len(FilesOf(job.source)) => {"images", "train", "validation", "info"} \subseteq written
    <2> HAVE n = Len(FilesOf(job.source))
    <2>1. 1 \in 1..n /\ 2 \in 1..n /\ 3 \in 1..n /\ 4 \in 1..n
      BY FilesAre
    <2> QED BY <2>1, FilesAre
  <1>8. IF n = 0 THEN written = {} ELSE "images" \in written
    <2>1. n # 0 => 1 \in 1..n
      OBVIOUS
    <2>2. n = 0 => 1..n = {}
      OBVIOUS
    <2> QED BY <2>1, <2>2, FilesAre
  <1> HIDE DEF all, held, written
  <1>9. LargeEnough' => n = Len(FilesOf(job.source)) /\ torn = {}
    BY <1>1, <1>6 DEF LargeEnough
  <1>10. LargeEnough' => /\ {"train", "validation"} \cap bundle'.torn = {}
                        /\ bundle'.info = Cardinality(Trained')
    <2> HAVE LargeEnough'
    <2>1. torn = {} /\ {"images", "train", "validation", "info"} \subseteq written
      BY <1>7, <1>9
    <2>2. "images" \in files /\ "train" \in whole /\ "info" \in whole
          /\ (held # {} => "validation" \in whole)
      BY <2>1
    <2>3. bundle'.train = all \ held /\ bundle'.validation = held
      BY <1>1, <1>5, <2>2
    <2>4. Trained' = all
      BY <1>2, <2>3 DEF Trained
    <2> QED BY <1>1, <2>1, <2>2, <2>4
  <1>11. "train" \in bundle'.files => "images" \in bundle'.files \ bundle'.torn
    <2> HAVE "train" \in bundle'.files
    <2>1. n # 0
      BY <1>1, <1>8
    <2>2. "images" \in written
      BY <1>8, <2>1
    <2> QED BY <1>1, <2>1, <2>2
  <1>12. LaunchedIsComplete'
    BY <1>10, <1>11 DEF LaunchedIsComplete, LauncherAccepts
  <1>13. ReviewedPairsTrain'
    <2>1. Trained' \subseteq all
      BY <1>2, <1>5 DEF Trained
    <2> QED BY <1>1, <1>3, <2>1 DEF ReviewedPairsTrain, EntrySound, Backed
  <1>14. HeldOutIsUnseen'
    <2> SUFFICES ASSUME job.source = "build", NEW e \in bundle'.train,
                        NEW f \in bundle'.validation
                 PROVE  e.shows # f.shows \/ sessions[e.samples] > 1 \/ sessions[f.samples] > 1
      BY <1>1 DEF HeldOutIsUnseen
    <2> QED BY <1>2, <1>4, <1>5
  <1>15. bundle'.train \subseteq Entries /\ bundle'.validation \subseteq Entries
    BY <1>2, <1>3, <1>5 DEF EntrySound
  <1> QED BY <1>12, <1>13, <1>14, <1>15 DEF BundleSound

LEMMA PackageKeepsBundle ==
  ASSUME SamplesInv, BundleSound, NEW job, JobSound(job), PackageDataset(job)
  PROVE  BundleSound' /\ UNCHANGED <<images, manifest, temporary, session, labeller, history,
                                     exported>>
  <1>1. /\ UNCHANGED <<images, manifest, temporary, session, labeller, history, exported>>
        /\ UNCHANGED <<given, sessions>>
        /\ bundle' \in Packaged(job) \cup HalfPackaged(job)
    BY DEF PackageDataset, history
  <1> SUFFICES BundleSound'
    BY <1>1
  <1>2. SampleType
    BY DEF SamplesInv
  <1>3. CASE bundle' = bundle
    BY <1>1, <1>3 DEF BundleSound, ReviewedPairsTrain, HeldOutIsUnseen, LaunchedIsComplete,
                      LauncherAccepts, LargeEnough, Trained
  <1>4. CASE bundle' = NoBundle
    <2>1. bundle'.train = {} /\ bundle'.validation = {} /\ "train" \notin bundle'.files
      BY <1>4 DEF NoBundle
    <2> QED BY <2>1 DEF BundleSound, ReviewedPairsTrain, HeldOutIsUnseen, LaunchedIsComplete,
                        LauncherAccepts, LargeEnough, Trained
  <1>5. CASE bundle' \in HalfCleared
    <2>1. /\ bundle'.train \subseteq bundle.train /\ bundle'.validation \subseteq bundle.validation
          /\ bundle'.source = bundle.source /\ bundle'.baseline = bundle.baseline
          /\ bundle'.cleared = FALSE
      BY <1>5 DEF HalfCleared
    <2>2. Trained' \subseteq Trained
      BY <2>1 DEF Trained
    <2>3. ReviewedPairsTrain'
      BY <1>1, <2>1, <2>2 DEF BundleSound, ReviewedPairsTrain
    <2>4. HeldOutIsUnseen' /\ LaunchedIsComplete'
      BY <1>1, <2>1 DEF BundleSound, HeldOutIsUnseen, LaunchedIsComplete
    <2> QED BY <2>1, <2>3, <2>4 DEF BundleSound
  <1>6. ASSUME NEW heldOut, bundle' = Output(job, heldOut, Len(FilesOf(job.source)), {})
        PROVE  BundleSound'
    <2>1. Len(FilesOf(job.source)) \in 0..Len(FilesOf(job.source))
      BY FilesAre
    <2> QED BY <1>1, <1>2, <1>6, <2>1, OutputSound
  <1>7. CASE bundle' \in HalfWritten(job)
    <2>1. PICK n, heldOut, torn : /\ n \in 0..(Len(FilesOf(job.source)) - 1)
                                  /\ torn \in MayBeTorn(job.source, n)
                                  /\ bundle' = Output(job, heldOut, n, torn)
      BY <1>7 DEF HalfWritten
    <2>2. n < Len(FilesOf(job.source)) /\ n \in 0..Len(FilesOf(job.source))
      BY <2>1, FilesAre
    <2>3. IF n = 0 THEN torn \subseteq {"images"} ELSE "images" \notin torn
      BY <2>1, <2>2, FilesAre DEF MayBeTorn, Rewritten
    <2> QED BY <1>1, <1>2, <2>1, <2>2, <2>3, OutputSound
  <1> QED BY <1>1, <1>3, <1>4, <1>5, <1>6, <1>7 DEF Packaged, HalfPackaged

-----------------------------------------------------------------------------
(* The steps of the exporter and the packager.                             *)

\* The lines of readable manifests, in whatever order they are given.
LEMMA ManifestItems ==
  ASSUME SamplesInv, NEW some, some \subseteq Samples, NEW order,
         \A k \in DOMAIN order : order[k] \in some
  PROVE  LET inputs == [k \in DOMAIN order |-> ItemsOf(order[k])]
         IN /\ DOMAIN order \subseteq Nat => Lines(inputs) \subseteq Nat \X Nat
            /\ \A p \in Lines(inputs) : inputs[p[1]][p[2]].line # TornLine =>
                  ItemSound(inputs[p[1]][p[2]])
  <1> DEFINE inputs == [k \in DOMAIN order |-> ItemsOf(order[k])]
  <1>1. manifest \in [Samples -> Seq(Record \cup {TornLine})]
    BY DEF SamplesInv, SampleType
  <1>2. ASSUME NEW p \in Lines(inputs)
        PROVE  /\ p = <<p[1], p[2]>> /\ p[1] \in DOMAIN order /\ p[2] \in Nat
               /\ order[p[1]] \in Samples /\ p[2] \in DOMAIN manifest[order[p[1]]]
               /\ inputs[p[1]][p[2]] = Item(order[p[1]], manifest[order[p[1]]][p[2]])
    <2>1. p = <<p[1], p[2]>> /\ p[1] \in DOMAIN order /\ p[2] \in DOMAIN inputs[p[1]]
      BY LinesAre
    <2>2. order[p[1]] \in Samples /\ inputs[p[1]] = ItemsOf(order[p[1]])
      BY <2>1
    <2>3. DOMAIN manifest[order[p[1]]] \subseteq Nat
      BY <1>1, <2>2
    <2> QED BY <2>1, <2>2, <2>3 DEF ItemsOf
  <1> HIDE DEF inputs
  <1>3. ASSUME NEW p \in Lines(inputs), inputs[p[1]][p[2]].line # TornLine
        PROVE  ItemSound(inputs[p[1]][p[2]])
    <2> DEFINE d == order[p[1]]
    <2>1. /\ d \in Samples /\ p[2] \in DOMAIN manifest[d]
          /\ inputs[p[1]][p[2]] = Item(d, manifest[d][p[2]])
      BY <1>2
    <2> HIDE DEF d
    <2>2. manifest[d][p[2]] # TornLine
      BY <1>3, <2>1 DEF Item
    <2>3. LineSound(d, manifest[d][p[2]])
      BY <2>1, <2>2 DEF SamplesInv, ManifestSound
    <2> QED BY <2>1, <2>3 DEF ItemSound, Item
  <1>4. DOMAIN order \subseteq Nat => Lines(inputs) \subseteq Nat \X Nat
    BY <1>2
  <1> QED BY <1>3, <1>4 DEF inputs

LEMMA ExportKeepsBundle ==
  ASSUME SamplesInv, BundleInv, NEW d \in Listed, Export(d)
  PROVE  BundleInv'
  <1>1. /\ UNCHANGED <<images, session, history, bundle, packager>>
        /\ UNCHANGED <<given, sessions>>
    BY DEF Export, history
  <1>2. d \in Samples /\ manifest[d] \in Seq(Record \cup {TornLine}) /\ Readable(manifest[d])
    BY DEF Listed, SamplesInv, SampleType, Export
  <1>3. manifest[d] \in Seq(Record) /\ \A i \in DOMAIN manifest[d] : manifest[d][i] # TornLine
    BY <1>2, ReadableLines
  <1>4. PICK lines : /\ lines \subseteq DOMAIN manifest[d]
                     /\ exported' = Append(exported, [i \in lines |-> Item(d, manifest[d][i])])
    BY DEF Export
  <1> DEFINE chunk == [i \in lines |-> Item(d, manifest[d][i])]
  <1>5. \A i \in lines : /\ chunk[i] \in [samples : Samples, line : Record]
                         /\ ItemSound(chunk[i])
    <2> TAKE i \in lines
    <2>1. LineSound(d, manifest[d][i]) /\ manifest[d][i] \in Record
      BY <1>2, <1>3, <1>4 DEF SamplesInv, ManifestSound
    <2> QED BY <1>2, <2>1 DEF Item, ItemSound
  <1>6. chunk \in Chunk
    <2>1. lines \in SUBSET Nat
      BY <1>3, <1>4
    <2>2. chunk \in [lines -> [samples : Samples, line : Record]]
      BY <1>5
    <2> QED BY <2>1, <2>2 DEF Chunk
  <1>7. DOMAIN chunk = lines
    OBVIOUS
  <1> HIDE DEF chunk
  <1>8. /\ exported \in Seq(Chunk) /\ exported' = Append(exported, chunk)
        /\ exported' \in Seq(Chunk)
    BY <1>4, <1>6 DEF BundleInv, chunk
  <1>9. ASSUME NEW p \in Lines(exported') PROVE ItemSound(exported'[p[1]][p[2]])
    <2>1. p = <<p[1], p[2]>> /\ p[1] \in DOMAIN exported' /\ p[2] \in DOMAIN exported'[p[1]]
      BY LinesAre
    <2>2. CASE p[1] \in DOMAIN exported
      <3>1. exported'[p[1]] = exported[p[1]]
        BY <1>8, <2>2
      <3>2. p \in Lines(exported)
        BY <2>1, <2>2, <3>1, LinesAre
      <3> QED BY <3>1, <3>2 DEF BundleInv
    <2>3. CASE p[1] \notin DOMAIN exported
      <3>1. exported'[p[1]] = chunk
        BY <1>8, <2>1, <2>3
      <3> QED BY <1>5, <1>7, <2>1, <3>1
    <2> QED BY <2>2, <2>3
  <1>10. ASSUME NEW item, ItemSound(item) PROVE ItemSound(item)'
    BY <1>1, <1>10 DEF ItemSound, LineSound, Pictured, Backed
  <1>11. (\A p \in Lines(exported) : ItemSound(exported[p[1]][p[2]]))'
    BY <1>9, <1>10
  <1>12. JobSound(packager)'
    BY <1>1 DEF BundleInv, JobSound, RecordSound, Pictured, Backed
  <1>13. (/\ bundle.train \subseteq Entries /\ bundle.validation \subseteq Entries
          /\ ReviewedPairsTrain /\ HeldOutIsUnseen /\ LaunchedIsComplete)'
    BY <1>1 DEF BundleInv, ReviewedPairsTrain, HeldOutIsUnseen, LaunchedIsComplete,
                LauncherAccepts, LargeEnough, Trained
  <1> QED BY <1>8, <1>11, <1>12, <1>13 DEF BundleInv

LEMMA BuildKeepsBundle ==
  ASSUME SamplesInv, BundleInv, Build
  PROVE  BundleInv'
  <1>1. /\ UNCHANGED <<images, session, history, exported, bundle>>
        /\ UNCHANGED <<given, sessions>> /\ AllReadable
    BY DEF Build, history
  <1>2. PICK acceptBaseline \in BOOLEAN, order \in Orders(Listed) :
          LET usable == Usable([k \in DOMAIN order |-> ItemsOf(order[k])], acceptBaseline)
          IN packager' = [source |-> "build", baseline |-> acceptBaseline,
                          records |-> Deduplicated(usable, DigestsOf(usable))]
    BY DEF Build
  <1> DEFINE inputs == [k \in DOMAIN order |-> ItemsOf(order[k])]
             usable == Usable(inputs, acceptBaseline)
             kept == Deduplicated(usable, DigestsOf(usable))
  <1>3. order \in [1..Cardinality(Listed) -> Listed] /\ Listed \subseteq Samples
    BY DEF Orders, Listed
  <1>4. DOMAIN order \subseteq Nat /\ \A k \in DOMAIN order : order[k] \in Listed
    BY <1>3
  <1>5. /\ Lines(inputs) \subseteq Nat \X Nat
        /\ \A p \in Lines(inputs) : inputs[p[1]][p[2]].line # TornLine =>
              ItemSound(inputs[p[1]][p[2]])
    BY <1>3, <1>4, ManifestItems
  <1>6. ASSUME NEW p \in Lines(inputs) PROVE inputs[p[1]][p[2]].line # TornLine
    <2>1. p[1] \in DOMAIN inputs /\ p[2] \in DOMAIN inputs[p[1]]
      BY LinesAre
    <2>2. order[p[1]] \in Listed /\ inputs[p[1]] = ItemsOf(order[p[1]])
      BY <1>4, <2>1
    <2>3. /\ p[2] \in DOMAIN manifest[order[p[1]]]
          /\ inputs[p[1]][p[2]].line = manifest[order[p[1]]][p[2]]
      BY <2>1, <2>2 DEF ItemsOf, Item
    <2>4. manifest[order[p[1]]] \in Seq(Record \cup {TornLine}) /\ Readable(manifest[order[p[1]]])
      BY <1>1, <1>3, <2>2 DEF AllReadable, SamplesInv, SampleType
    <2> QED BY <2>3, <2>4, ReadableLines
  <1> HIDE DEF inputs
  <1>7. \A p \in DOMAIN usable :
           /\ p \in Lines(inputs) /\ RecordSound(usable[p], acceptBaseline)
           /\ usable[p].digest = usable[p].own \/ sessions[usable[p].samples] > 1
    BY <1>5, <1>6, UsableRecords DEF SamplesInv
  <1> HIDE DEF usable
  <1>8. \A p \in DOMAIN kept : /\ p \in DOMAIN usable /\ kept[p] = usable[p]
    BY DeduplicatedRecords
  <1>9. ASSUME NEW p \in DOMAIN kept, NEW q \in DOMAIN kept, p # q
        PROVE  kept[p].digest # kept[q].digest
    <2>1. DOMAIN usable \subseteq Nat \X Nat
      BY <1>5, <1>7
    <2>2. DigestsOf(usable)[p] # DigestsOf(usable)[q]
      BY <1>9, <2>1, FirstsDiffer
    <2> QED BY <1>8, <2>2 DEF DigestsOf
  <1> HIDE DEF kept
  <1>10. PICK records :
            /\ packager' = [source |-> "build", baseline |-> acceptBaseline, records |-> records]
            /\ records = kept
    BY <1>2 DEF inputs, usable, kept
  <1>11. ASSUME NEW record, NEW baseline, RecordSound(record, baseline)
         PROVE  RecordSound(record, baseline)'
    BY <1>1, <1>11 DEF RecordSound, Pictured, Backed
  <1>12. /\ \A p \in DOMAIN records :
               /\ RecordSound(records[p], acceptBaseline)'
               /\ records[p].digest = records[p].own \/ sessions'[records[p].samples] > 1
         /\ \A p, q \in DOMAIN records : p # q => records[p].digest # records[q].digest
    BY <1>1, <1>7, <1>8, <1>9, <1>10, <1>11
  <1>13. packager'.source = "build" /\ packager'.baseline = acceptBaseline
         /\ packager'.records = records
    BY <1>10
  <1>14. JobSound(packager)'
    BY <1>12, <1>13 DEF JobSound
  <1>15. exported' \in Seq(Chunk) /\ (\A p \in Lines(exported) : ItemSound(exported[p[1]][p[2]]))'
    <2>1. \A item : ItemSound(item) => ItemSound(item)'
      BY <1>1 DEF ItemSound, LineSound, Pictured, Backed
    <2>2. exported' = exported /\ exported \in Seq(Chunk)
          /\ \A p \in Lines(exported) : ItemSound(exported[p[1]][p[2]])
      BY <1>1 DEF BundleInv
    <2> QED BY <2>1, <2>2
  <1>16. (/\ bundle.train \subseteq Entries /\ bundle.validation \subseteq Entries
          /\ ReviewedPairsTrain /\ HeldOutIsUnseen /\ LaunchedIsComplete)'
    BY <1>1 DEF BundleInv, ReviewedPairsTrain, HeldOutIsUnseen, LaunchedIsComplete,
                LauncherAccepts, LargeEnough, Trained
  <1> QED BY <1>14, <1>15, <1>16 DEF BundleInv

LEMMA PackageBuildKeepsBundle ==
  ASSUME SamplesInv, BundleInv, PackageBuild
  PROVE  BundleInv' /\ UNCHANGED <<images, manifest, temporary, session, labeller, history>>
  <1>1. BundleSound /\ JobSound(packager) /\ PackageDataset(packager) /\ packager' = NoPackager
    BY DEF BundleInv, BundleSound, PackageBuild
  <1>2. BundleSound' /\ UNCHANGED <<images, manifest, temporary, session, labeller, history,
                                    exported>>
    BY <1>1, PackageKeepsBundle
  <1>3. UNCHANGED <<images, session, given, sessions>>
    BY <1>2 DEF history
  <1>4. JobSound(packager)'
    BY <1>1 DEF JobSound, NoPackager
  <1>5. exported' \in Seq(Chunk) /\ (\A p \in Lines(exported) : ItemSound(exported[p[1]][p[2]]))'
    <2>1. \A item : ItemSound(item) => ItemSound(item)'
      BY <1>3 DEF ItemSound, LineSound, Pictured, Backed
    <2>2. exported' = exported /\ exported \in Seq(Chunk)
          /\ \A p \in Lines(exported) : ItemSound(exported[p[1]][p[2]])
      BY <1>2 DEF BundleInv
    <2> QED BY <2>1, <2>2
  <1> QED BY <1>2, <1>4, <1>5 DEF BundleInv, BundleSound

LEMMA PackageKeepsInv ==
  ASSUME SamplesInv, BundleInv, NEW inputs, Package(inputs),
         \A p \in Lines(inputs) : inputs[p[1]][p[2]].line # TornLine =>
             ItemSound(inputs[p[1]][p[2]])
  PROVE  BundleInv' /\ UNCHANGED <<images, manifest, temporary, session, labeller, history>>
  <1> DEFINE records == IF \E p \in Lines(inputs) : inputs[p[1]][p[2]].line = TornLine THEN <<>>
                        ELSE Usable(inputs, FALSE)
             job == [source |-> "package", baseline |-> FALSE, records |-> records]
  <1>1. PackageDataset(job) /\ packager' = packager
    BY DEF Package
  <1>2. \A p \in DOMAIN records : RecordSound(records[p], FALSE)
    <2>1. CASE \E p \in Lines(inputs) : inputs[p[1]][p[2]].line = TornLine
      <3>1. records = <<>>
        BY <2>1
      <3> HIDE DEF records
      <3>2. DOMAIN records = {}
        BY <3>1
      <3> QED BY <3>2
    <2>2. CASE \A p \in Lines(inputs) : inputs[p[1]][p[2]].line # TornLine
      <3>1. \A p \in Lines(inputs) : ItemSound(inputs[p[1]][p[2]])
        BY <2>2
      <3>2. \A p \in DOMAIN Usable(inputs, FALSE) : RecordSound(Usable(inputs, FALSE)[p], FALSE)
        BY <3>1, UsableRecords DEF SamplesInv
      <3> QED BY <2>2, <3>2
    <2> QED BY <2>1, <2>2
  <1> HIDE DEF records
  <1>3. JobSound(job)
    BY <1>2 DEF JobSound
  <1>4. BundleSound
    BY DEF BundleInv, BundleSound
  <1>5. BundleSound' /\ UNCHANGED <<images, manifest, temporary, session, labeller, history,
                                    exported>>
    BY <1>1, <1>3, <1>4, PackageKeepsBundle
  <1>6. UNCHANGED <<images, session, given, sessions>>
    BY <1>5 DEF history
  <1>7. JobSound(packager)'
    BY <1>1, <1>6 DEF BundleInv, JobSound, RecordSound, Pictured, Backed
  <1>8. exported' \in Seq(Chunk) /\ (\A p \in Lines(exported) : ItemSound(exported[p[1]][p[2]]))'
    <2>1. \A item : ItemSound(item) => ItemSound(item)'
      BY <1>6 DEF ItemSound, LineSound, Pictured, Backed
    <2>2. exported' = exported /\ exported \in Seq(Chunk)
          /\ \A p \in Lines(exported) : ItemSound(exported[p[1]][p[2]])
      BY <1>5 DEF BundleInv
    <2> QED BY <2>1, <2>2
  <1> QED BY <1>5, <1>7, <1>8 DEF BundleInv, BundleSound

LEMMA BundleStep ==
  ASSUME SamplesInv, BundleInv, BundleNext
  PROVE  SamplesInv' /\ BundleInv'
  <1>1. CASE Build
    <2>1. UNCHANGED <<images, manifest, temporary, session, labeller, history>>
      BY <1>1 DEF Build
    <2> QED BY <1>1, <2>1, BuildKeepsBundle, SamplesLeft
  <1>2. CASE PackageBuild
    BY <1>2, PackageBuildKeepsBundle, SamplesLeft
  <1>3. ASSUME NEW d \in Listed, Export(d) PROVE SamplesInv' /\ BundleInv'
    <2>1. UNCHANGED <<images, manifest, temporary, session, labeller, history>>
      BY <1>3 DEF Export
    <2> QED BY <1>3, <2>1, ExportKeepsBundle, SamplesLeft
  <1>4. ASSUME NEW d \in Listed, Package(<<ItemsOf(d)>>) PROVE SamplesInv' /\ BundleInv'
    <2> DEFINE order == [k \in {1} |-> d]
               inputs == [k \in DOMAIN order |-> ItemsOf(order[k])]
    <2>1. inputs = <<ItemsOf(d)>>
      OBVIOUS
    <2>2. {d} \subseteq Samples /\ \A k \in DOMAIN order : order[k] \in {d}
      BY DEF Listed
    <2>3. \A p \in Lines(inputs) : inputs[p[1]][p[2]].line # TornLine =>
             ItemSound(inputs[p[1]][p[2]])
      BY <2>2, ManifestItems
    <2> HIDE DEF inputs
    <2> QED BY <1>4, <2>1, <2>3, PackageKeepsInv, SamplesLeft
  <1>5. CASE Package(exported)
    <2>1. \A p \in Lines(exported) : ItemSound(exported[p[1]][p[2]])
      BY DEF BundleInv
    <2> QED BY <1>5, <2>1, PackageKeepsInv, SamplesLeft
  <1> QED BY <1>1, <1>2, <1>3, <1>4, <1>5 DEF BundleNext

LEMMA SampleStep ==
  ASSUME SamplesInv, BundleInv, SessionNext \/ LabellerNext, UNCHANGED bundleVars
  PROVE  SamplesInv' /\ BundleInv'
  BY SamplesStep, SamplesGrow, BundleStays

-----------------------------------------------------------------------------
(* What is proved of the training set.                                     *)

(* Every line of a manifest, of a temporary file, in the memory of a       *)
(* labeller, in an exported file, in a packager and in a bundle is backed  *)
(* by what a session recorded and a reviewer said, at every moment and     *)
(* whatever is killed (record, _write_records, _report_and_records).       *)
THEOREM TrainingInvariance == Spec => [](SamplesInv /\ BundleInv)
  <1>1. Init => SamplesInv /\ BundleInv
    BY SamplesStart, BundleStarts
  <1>2. SamplesInv /\ BundleInv /\ [Next]_vars => (SamplesInv /\ BundleInv)'
    <2> SUFFICES ASSUME SamplesInv, BundleInv, [Next]_vars PROVE (SamplesInv /\ BundleInv)'
      OBVIOUS
    <2>1. CASE SessionNext /\ UNCHANGED bundleVars
      BY <2>1, SampleStep
    <2>2. CASE LabellerNext /\ UNCHANGED bundleVars
      BY <2>2, SampleStep
    <2>3. CASE BundleNext
      BY <2>3, BundleStep
    <2>4. CASE UNCHANGED vars
      <3>1. UNCHANGED bundleVars /\ UNCHANGED <<images, session, given, sessions>>
            /\ UNCHANGED <<images, manifest, temporary, session, labeller, history>>
        BY <2>4 DEF vars, sampleVars, history
      <3>2. BundleInv'
        BY <3>1, BundleStays DEF Pictured
      <3> QED BY <3>1, <3>2, SamplesLeft
    <2> QED BY <2>1, <2>2, <2>3, <2>4 DEF Next
  <1> QED BY <1>1, <1>2, PTL DEF Spec

(* A sample that was recorded is listed, and a decision has the target the *)
(* last review gave it, in every manifest that can be read and that no     *)
(* labeller replaced without having read it (record, _write_records).      *)
THEOREM ReviewsAreKept == Spec => []NothingReviewedIsLost
  <1>1. SamplesInv /\ BundleInv => NothingReviewedIsLost
    BY DEF SamplesInv
  <1> QED BY <1>1, TrainingInvariance, PTL

(* Each target that trains is one a reviewer gave to that very sample, or  *)
(* the VLM's own answer with --accept-baseline, and comes with the         *)
(* pictures it was given for (TargetOf, _run, _copy_sample_images).        *)
THEOREM ReviewedPairs == Spec => []ReviewedPairsTrain
  <1>1. SamplesInv /\ BundleInv => ReviewedPairsTrain
    BY DEF BundleInv
  <1> QED BY <1>1, TrainingInvariance, PTL

(* No eight pictures are both trained on and held out by a build           *)
(* (_sample_digest, _split_records).                                       *)
THEOREM HeldOut == Spec => []HeldOutIsUnseen
  <1>1. SamplesInv /\ BundleInv => HeldOutIsUnseen
    BY DEF BundleInv
  <1> QED BY <1>1, TrainingInvariance, PTL

(* What the launcher accepts by default is complete, and what it accepts   *)
(* with the switch for small datasets has its pictures, except for a       *)
(* bundle whose clearing was interrupted (build, package_dataset,          *)
(* train_navila_lora.sh).                                                  *)
THEOREM LaunchedComplete == Spec => []LaunchedIsComplete
  <1>1. SamplesInv /\ BundleInv => LaunchedIsComplete
    BY DEF BundleInv
  <1> QED BY <1>1, TrainingInvariance, PTL

=============================================================================
