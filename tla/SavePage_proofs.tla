-------------------------- MODULE SavePage_proofs --------------------------
(***************************************************************************)
(* For any paths, captures and sequence of runs: what is already saved      *)
(* survives a download as the options promise, and download_one uses the    *)
(* journal only as RecoveryJournal describes, so that what is proved of the *)
(* journal holds here.                                                      *)
(*                                                                         *)
(* The invariant follows one job: until its file is replaced the file is    *)
(* as it was when the job started, and the body about to be stored is not   *)
(* an unusable page for a path that already has a file.                     *)
(*                                                                         *)
(* What the journal says of the files is proved for MCSpec, whose observers *)
(* are needed to say it, for journals of any length up to MaxLines.         *)
(***************************************************************************)
EXTENDS MCSavePage, RecoveryJournal_proofs

Jobs == [step : Steps, path : Paths \cup {None}, requested : Files,
         limited : BOOLEAN, existing : BOOLEAN, got : Files, entry : Lines]

JobInv ==
  /\ disk \in [Paths -> Files]
  /\ options \in [noClobber : BOOLEAN, recoverExisting : BOOLEAN]
  /\ job \in Jobs
  /\ job.step # "idle" => running /\ job.path \in Paths /\ job.requested \in Captures
  /\ job.step \in {"inspecting", "storing", "recording"} => job.got \in Captures
  /\ job.step = "recording" => job.entry \in Events
  /\ job.step \in {"fetching", "inspecting", "storing"}
       => job.existing = Exists(job.path) /\ ~ Skips(job.path)
  /\ job.step = "storing" => ~ (job.existing /\ GotUnusable)

LEMMA NoJobTyped == NoJob \in Jobs /\ NoJob.step = "idle"
BY DEF NoJob, Jobs, Steps, Files, Lines

LEMMA JobInitial == Init => JobInv
<1> SUFFICES ASSUME Init PROVE JobInv
  OBVIOUS
<1>1. disk \in [Paths -> Files] /\ options \in [noClobber : BOOLEAN, recoverExisting : BOOLEAN]
  BY DEF Init, Files, DefaultOptions
<1> QED
  BY <1>1, NoJobTyped DEF Init, JobInv

LEMMA JobStep == JobInv /\ [Next]_vars => JobInv'
<1> SUFFICES ASSUME JobInv, [Next]_vars PROVE JobInv'
  OBVIOUS
<1> USE DEF AtStep
<1>1. CASE StartRun
  <2>1. job.step = "idle"
    BY <1>1 DEF StartRun, OpenJournal, JobInv
  <2> QED
    BY <1>1, <2>1 DEF StartRun, JobInv
<1>2. CASE Cancel
  BY <1>2 DEF Cancel, journalVars, JobInv, Exists, Skips, LocalUnusable, GotUnusable
<1>3. ASSUME NEW p \in Paths, NEW c \in Captures, NEW limited \in BOOLEAN, StartJob(p, c, limited)
      PROVE  JobInv'
  <2>1. /\ job' \in Jobs
        /\ job'.step = "fetching"
        /\ job'.path = p
        /\ job'.requested = c
        /\ job'.existing = Exists(p)
    BY <1>3, NoJobTyped DEF StartJob, Jobs, Steps, Files, Exists, NoJob
  <2>2. running' /\ disk' = disk /\ options' = options /\ ~ Skips(p)
    BY <1>3 DEF StartJob, journalVars
  <2> QED
    BY <2>1, <2>2 DEF JobInv, Exists, Skips, LocalUnusable
<1>4. ASSUME NEW c \in Captures, Fetched(c) PROVE JobInv'
  <2>1. /\ job' \in Jobs
        /\ job'.step \in {"inspecting", "storing"}
        /\ job'.step = "storing" => job.path \notin Pages
        /\ job'.path = job.path
        /\ job'.requested = job.requested
        /\ job'.existing = job.existing
        /\ job'.got = c
    BY <1>4 DEF Fetched, JobInv, Jobs, Steps, Files
  <2>2. running' = running /\ disk' = disk /\ options' = options /\ job.step = "fetching"
    BY <1>4 DEF Fetched, journalVars
  <2> QED
    BY <2>1, <2>2 DEF JobInv, Exists, Skips, LocalUnusable, GotUnusable
<1>5. ASSUME NEW step \in {"storing", "reporting"}, Go(step), running, job.step # "idle",
             UNCHANGED <<journalVars, disk, options>>,
             step = "storing" => job.step = "inspecting" /\ ~ (job.existing /\ GotUnusable)
      PROVE  JobInv'
  <2>1. /\ job' \in Jobs
        /\ job'.step = step
        /\ job'.path = job.path
        /\ job'.requested = job.requested
        /\ job'.existing = job.existing
        /\ job'.got = job.got
    BY <1>5 DEF Go, JobInv, Jobs, Steps
  <2>2. running' = running /\ disk' = disk /\ options' = options
    BY <1>5 DEF journalVars
  <2> QED
    BY <1>5, <2>1, <2>2 DEF JobInv, Exists, Skips, LocalUnusable, GotUnusable
<1>6. ASSUME job' = NoJob, disk' = disk, options' \in {options, DefaultOptions}
      PROVE  JobInv'
  <2>1. disk' = disk /\ options' \in [noClobber : BOOLEAN, recoverExisting : BOOLEAN]
    <3>1. DefaultOptions \in [noClobber : BOOLEAN, recoverExisting : BOOLEAN]
      BY DEF DefaultOptions
    <3>2. options \in [noClobber : BOOLEAN, recoverExisting : BOOLEAN]
      BY DEF JobInv
    <3> QED
      BY <1>6, <3>1, <3>2
  <2> QED
    BY <1>6, <2>1, NoJobTyped DEF JobInv
<1>7. CASE KeepExisting
  <2>1. /\ job' \in Jobs
        /\ job'.step = "recording"
        /\ job'.path = job.path
        /\ job'.requested = job.requested
        /\ job'.got = job.got
        /\ job'.entry \in Events
    BY <1>7 DEF KeepExisting, JobInv, Jobs, Steps, Entry, Events, Lines
  <2> QED
    BY <1>7, <2>1 DEF KeepExisting, JobInv, journalVars
<1>8. CASE Store
  <2>1. job.path \in Paths /\ job.got \in Captures
    BY <1>8 DEF Store, JobInv
  <2>2. disk' \in [Paths -> Files]
    BY <1>8, <2>1 DEF Store, JobInv, Files
  <2>3. CASE job.path \in Pages
    <3>1. /\ job' \in Jobs
          /\ job'.step = "recording"
          /\ job'.path = job.path
          /\ job'.requested = job.requested
          /\ job'.got = job.got
          /\ job'.entry \in Events
      BY <1>8, <2>1, <2>3 DEF Store, JobInv, Jobs, Steps, Entry, Events, Lines
    <3> QED
      BY <1>8, <2>2, <3>1 DEF Store, JobInv, journalVars
  <2>4. CASE job.path \notin Pages
    BY <1>8, <2>2, <2>4, NoJobTyped DEF Store, JobInv, journalVars
  <2> QED
    BY <2>3, <2>4
<1>9. CASE RecordOutcomeFails
  <2>1. /\ job' \in Jobs
        /\ job'.step = "reporting"
        /\ job'.path = job.path
        /\ job'.requested = job.requested
    BY <1>9 DEF RecordOutcomeFails, Go, JobInv, Jobs, Steps
  <2> QED
    BY <1>9, <2>1 DEF RecordOutcomeFails, RecordFails, JobInv
<1>10. CASE UNCHANGED vars
  BY <1>10 DEF vars, journalVars, saveVars, JobInv, Exists, Skips, LocalUnusable, GotUnusable
<1>11. CASE FetchFails
  BY <1>5, <1>11 DEF FetchFails
<1>12. CASE AcceptPage
  BY <1>5, <1>12 DEF AcceptPage
<1>13. CASE StoreFails
  BY <1>5, <1>13 DEF StoreFails
<1>14. CASE InspectionCancelled \/ TooLarge
  BY <1>6, <1>14 DEF InspectionCancelled, TooLarge
<1>15. CASE RecordOutcome \/ ReportFailure
  BY <1>6, <1>15 DEF RecordOutcome, ReportFailure
<1>16. CASE Stop
  BY <1>6, <1>16 DEF Stop
<1>17. ASSUME NEW p \in Paths, NEW c \in Captures, SkipFails(p, c)
       PROVE  JobInv'
  <2>1. /\ job' \in Jobs
        /\ job'.step = "reporting"
        /\ job'.path = p
        /\ job'.requested = c
    BY <1>17, NoJobTyped DEF SkipFails, Jobs, Steps, Files, NoJob
  <2>2. running' /\ disk' = disk /\ options' = options
    BY <1>17 DEF SkipFails, journalVars
  <2> QED
    BY <2>1, <2>2 DEF JobInv
<1>18. CASE ReferencesFail
  <2>1. /\ job' \in Jobs
        /\ job'.step = "reporting"
        /\ job'.path = job.path
        /\ job'.requested = job.requested
    BY <1>18 DEF ReferencesFail, Go, JobInv, Jobs, Steps
  <2> QED
    BY <1>18, <2>1 DEF ReferencesFail, Record, JobInv
<1> QED
  BY <1>1, <1>2, <1>3, <1>4, <1>7, <1>8, <1>9, <1>10, <1>11, <1>12, <1>13, <1>14, <1>15, <1>16,
     <1>17, <1>18
  DEF Next

LEMMA JobInvariant == Spec => []JobInv
BY JobInitial, JobStep, PTL DEF Spec

(* Only Store changes a file: the rename that ends a download.              *)
LEMMA OnlyStoreReplaces ==
  ASSUME [Next]_vars, ~ Store
  PROVE  disk' = disk
BY DEF Next, vars, saveVars, StartRun, Cancel, StartJob, Fetched, FetchFails,
   InspectionCancelled, KeepExisting, TooLarge, AcceptPage, StoreFails, RecordOutcome,
   RecordOutcomeFails, SkipFails, ReferencesFail, ReportFailure, Stop

(* What Store puts over an existing file of the journal's pages is usable.  *)
LEMMA ReplacementUsable ==
  ASSUME JobInv, Store
  PROVE  /\ job.path \in Paths
         /\ disk' = [disk EXCEPT ![job.path] = job.got]
         /\ job.got \in Captures
         /\ ~ Skips(job.path)
         /\ Exists(job.path) /\ job.path \in Pages => job.got \notin Unusable
BY DEF JobInv, Store, AtStep, GotUnusable

(* A usable page is never replaced by an HTML error or redirect page, for   *)
(* any sites, options, failures and number of runs.                         *)
THEOREM UsablePagesStay == Spec => UsableStays
<1> DEFINE Kept ==
      \A p \in Pages : Exists(p) /\ disk[p] \notin Unusable => disk'[p] \in Captures \ Unusable
<1>1. JobInv /\ [Next]_vars => [Kept]_vars
  <2> SUFFICES ASSUME JobInv, [Next]_vars,
                      NEW p \in Pages, Exists(p), disk[p] \notin Unusable
               PROVE  disk'[p] \in Captures \ Unusable
    OBVIOUS
  <2>1. p \in Paths /\ disk[p] \in Captures /\ disk \in [Paths -> Files]
    BY PagesAssumption DEF JobInv, Exists, Files
  <2>2. CASE Store
    BY <2>1, <2>2, ReplacementUsable
  <2>3. CASE ~ Store
    BY <2>1, <2>3, OnlyStoreReplaces
  <2> QED
    BY <2>2, <2>3
<1> QED
  BY <1>1, JobInvariant, PTL DEF Spec, UsableStays

(* Without --overwrite an existing file is replaced only under              *)
(* --recover-existing, an unusable page by a usable one.                    *)
THEOREM ExistingFilesKept == Spec => NoClobberKeeps
<1> DEFINE Kept ==
      \A p \in Paths :
         Exists(p) /\ options.noClobber /\ disk'[p] # disk[p]
           => /\ options.recoverExisting
              /\ LocalUnusable(p)
              /\ disk'[p] \in Captures \ Unusable
<1>1. JobInv /\ [Next]_vars => [Kept]_vars
  <2> SUFFICES ASSUME JobInv, [Next]_vars, NEW p \in Paths,
                      Exists(p), options.noClobber, disk'[p] # disk[p]
               PROVE  /\ options.recoverExisting
                      /\ LocalUnusable(p)
                      /\ disk'[p] \in Captures \ Unusable
    OBVIOUS
  <2>1. Store
    BY OnlyStoreReplaces
  <2>2. job.path = p /\ disk'[p] = job.got
    BY <2>1, ReplacementUsable DEF JobInv
  <2>3. options.recoverExisting /\ LocalUnusable(p)
    BY <2>1, <2>2, ReplacementUsable DEF Skips
  <2> QED
    BY <2>1, <2>2, <2>3, ReplacementUsable DEF LocalUnusable
<1> QED
  BY <1>1, JobInvariant, PTL DEF Spec, NoClobberKeeps

-----------------------------------------------------------------------------
LEMMA JournalOnlyRecords ==
  ASSUME JobInv, [Next]_vars
  PROVE  [JournalNext]_journalVars
<1>1. job.step = "reporting" => ErrorEntry \in Events
  BY DEF JobInv, ErrorEntry, Events
<1>2. job.step = "recording" => job.entry \in Events
  BY DEF JobInv
<1>3. CASE StartRun
  BY <1>3 DEF StartRun, JournalNext
<1>4. CASE RecordOutcome \/ RecordOutcomeFails \/ ReferencesFail
  BY <1>2, <1>4 DEF RecordOutcome, RecordOutcomeFails, ReferencesFail, AtStep, JournalNext
<1>5. CASE ReportFailure
  BY <1>1, <1>5 DEF ReportFailure, AtStep, JournalNext
<1>6. CASE Stop
  BY <1>1, <1>2, <1>6 DEF Stop, JournalNext
<1> QED
  BY <1>3, <1>4, <1>5, <1>6
  DEF Next, vars, Cancel, StartJob, SkipFails, Fetched, FetchFails, InspectionCancelled,
      KeepExisting, TooLarge, AcceptPage, Store, StoreFails

(* download_one drives the journal as RecoveryJournal allows: entries are   *)
(* whole events of known paths and captures, one process at a time.         *)
THEOREM DownloadsUseTheJournal == Spec => JournalSpec
<1>1. Init => JournalInit
  BY DEF Init
<1>2. JobInv /\ [Next]_vars => [JournalNext]_journalVars
  BY JournalOnlyRecords
<1> QED
  BY <1>1, <1>2, JobInvariant, PTL DEF Spec, JournalSpec

(* So the evidence of the journal follows the abstract map while pages are  *)
(* downloaded, refused, replaced, and the process is killed and restarted.  *)
THEOREM DownloadsKeepEvidence == Spec => KeepsEvidence
BY DownloadsUseTheJournal, JournalKeepsEvidence, PTL

(* Every variable of download_one keeps its type, whatever happens to its   *)
(* jobs: in particular only whole entries of known paths are journalled.    *)
THEOREM DownloadsTypeCorrect == Spec => []TypeOK
<1> DEFINE FlagInv == cancelled \in BOOLEAN
<1>1. Init => FlagInv
  BY DEF Init
<1>2. FlagInv /\ [Next]_vars => FlagInv'
  BY DEF Next, vars, saveVars, StartRun, Cancel, StartJob, Fetched, FetchFails,
     InspectionCancelled, KeepExisting, TooLarge, AcceptPage, Store, StoreFails,
     RecordOutcome, RecordOutcomeFails, SkipFails, ReferencesFail, ReportFailure, Stop
<1>3. JournalTypeOK /\ JobInv /\ FlagInv => TypeOK
  BY DEF JobInv, Jobs, TypeOK
<1> HIDE DEF FlagInv
<1> QED
  BY <1>1, <1>2, <1>3, JobInvariant, DownloadsUseTheJournal, JournalTypeCorrect, PTL DEF Spec

-----------------------------------------------------------------------------
(* The journal and the files.                                               *)
LEMMA ObservedRuns == MCSpec => Spec /\ []JobInv /\ []JournalInv
<1>1. MCInit => Init
  BY DEF MCInit
<1>2. [MCNext]_mcVars => [Next]_vars
  BY DEF MCNext, mcVars
<1>3. MCSpec => Spec
  BY <1>1, <1>2, PTL DEF MCSpec, Spec
<1> QED
  BY <1>3, JobInvariant, DownloadsUseTheJournal, JournalInvariant, PTL

(* What an entry claims was on disk.                                        *)
Backed(line) == line.saved => <<line.path, line.capture>> \in stored
BackedMap(captures) == \A p \in Paths : captures[p] # None => <<p, captures[p]>> \in stored

DiskInv ==
  /\ BackedMap(disk)
  /\ \A i \in DOMAIN lines : Backed(lines[i])
  /\ Backed(tail.line)
  /\ BackedMap(memory)
  /\ job.step = "recording" => Backed(job.entry)

LEMMA ReloadBacked ==
  ASSUME NEW ls \in Seq(Lines), \A i \in DOMAIN ls : Backed(ls[i])
  PROVE  BackedMap(Reload(ls))
<1> SUFFICES ASSUME NEW p \in Paths, LatestSaved(ls, p) # None
             PROVE  <<p, LatestSaved(ls, p)>> \in stored
  BY DEF BackedMap, Reload
<1>1. SavedLines(ls, p) # {}
  BY DEF LatestSaved
<1>2. Latest(SavedLines(ls, p)) \in SavedLines(ls, p)
  BY <1>1, SavedLinesBounded, LatestIsLast
<1>3. PICK i \in DOMAIN ls : ls[i].saved /\ ls[i].path = p /\ LatestSaved(ls, p) = ls[i].capture
  BY <1>1, <1>2 DEF LatestSaved, SavedLines
<1> QED
  BY <1>3 DEF Backed

LEMMA SealedBacked ==
  ASSUME JournalInv, DiskInv
  PROVE  Sealed \in Seq(Lines) /\ \A i \in DOMAIN Sealed : Backed(Sealed[i])
<1>1. lines \in Seq(Lines) /\ tail.line \in Lines
  BY TailLine DEF JournalInv, JournalTypeOK
<1>2. CASE tail = Clean
  BY <1>1, <1>2 DEF Sealed, DiskInv
<1>3. CASE tail # Clean
  BY <1>1, <1>3, AppendedLine DEF Sealed, DiskInv
<1> QED
  BY <1>2, <1>3

LEMMA AppendedBacked ==
  ASSUME JournalInv, DiskInv, NEW event \in Events, Backed(event)
  PROVE  /\ \A i \in DOMAIN Appended(event) : Backed(Appended(event)[i])
         /\ \A t \in TornTails(event) : Backed(t.line)
<1>1. lines \in Seq(Lines) /\ event \in Lines /\ Damaged \in Lines
  BY DEF JournalInv, JournalTypeOK, Lines
<1>2. Backed(Damaged)
  BY DEF Backed, Damaged
<1>3. \A i \in DOMAIN Append(lines, event) : Backed(Append(lines, event)[i])
  BY <1>1, AppendedLine DEF DiskInv
<1>4. \A i \in DOMAIN Append(lines, Damaged) : Backed(Append(lines, Damaged)[i])
  BY <1>1, <1>2, AppendedLine DEF DiskInv
<1>5. \A t \in TornTails(event) : Backed(t.line)
  BY <1>2 DEF TornTails, Clean, Cut, Whole
<1> QED
  BY <1>3, <1>4, <1>5 DEF Appended

LEMMA InsertBacked ==
  ASSUME NEW captures \in [Paths -> Captures \cup {None}], BackedMap(captures),
         NEW event \in Lines, Backed(event)
  PROVE  BackedMap(Insert(captures, event))
BY SavedIsEvent DEF Insert, BackedMap, Backed

LEMMA NothingBackedYet == MCInit => DiskInv
BY DEF MCInit, Init, JournalInit, DiskInv, BackedMap, Backed, Clean, Damaged, NoJob

(* What was on disk stays known, and so does what is put there.             *)
LEMMA StoredGrows ==
  ASSUME JobInv, JobInv', BackedMap(disk), Observe
  PROVE  stored \subseteq stored' /\ (BackedMap(disk))'
<1> SUFFICES ASSUME NEW p \in Paths, disk'[p] # None
             PROVE  stored \subseteq stored' /\ <<p, disk'[p]>> \in stored'
  BY DEF BackedMap, Observe
<1> QED
  BY DEF Observe, BackedMap

LEMMA BackedStep ==
  ASSUME JobInv, JobInv', JournalInv, JournalInv', DiskInv, [MCNext]_mcVars
  PROVE  DiskInv'
<1>1. CASE UNCHANGED mcVars
  BY <1>1 DEF mcVars, vars, journalVars, saveVars, DiskInv, BackedMap, Backed
<1> SUFFICES ASSUME Next, Observe PROVE DiskInv'
  BY <1>1 DEF MCNext
<1>2. stored \subseteq stored' /\ (BackedMap(disk))'
  BY StoredGrows DEF DiskInv
<1>3. ASSUME NEW line, Backed(line) PROVE line.saved => <<line.path, line.capture>> \in stored'
  BY <1>2, <1>3 DEF Backed
<1>4. ASSUME NEW captures, BackedMap(captures)
      PROVE  \A p \in Paths : captures[p] # None => <<p, captures[p]>> \in stored'
  BY <1>2, <1>4 DEF BackedMap
<1> DEFINE JournalBacked ==
      (\A i \in DOMAIN lines : Backed(lines[i])) /\ Backed(tail.line) /\ BackedMap(memory)
<1>5. ASSUME journalVars' = journalVars PROVE JournalBacked'
  BY <1>3, <1>4, <1>5 DEF journalVars, DiskInv, Backed, BackedMap
<1>6. ASSUME JournalBacked', job'.step = "recording" => (Backed(job.entry))' PROVE DiskInv'
  BY <1>2, <1>6 DEF DiskInv
<1> HIDE DEF JournalBacked
<1>7. CASE StartRun
  <2>1. lines' = Sealed /\ tail' = Clean /\ memory' = Reload(Sealed)
    BY <1>7 DEF StartRun, OpenJournal
  <2>2. BackedMap(Reload(Sealed))
    BY SealedBacked, ReloadBacked
  <2>3. ~ Clean.line.saved
    BY DEF Clean, Damaged
  <2>4. JournalBacked'
    BY <1>3, <1>4, <2>1, <2>2, <2>3, SealedBacked DEF JournalBacked, Backed, BackedMap
  <2>5. job' = job /\ job.step # "recording"
    BY <1>7 DEF StartRun, OpenJournal, JobInv
  <2> QED
    BY <1>6, <2>4, <2>5
<1>8. ASSUME NEW event \in Events, Backed(event),
             Record(event) \/ RecordFails(event) \/ Exit \/ ExitWhileRecording(event)
      PROVE  JournalBacked'
  <2>1. /\ \A i \in DOMAIN lines' : Backed(lines'[i])
        /\ Backed(tail'.line)
    <3>1. Backed(Clean.line)
      BY DEF Clean, Damaged, Backed
    <3>2. /\ lines' \in {lines, Appended(event)}
          /\ tail' \in {tail, Clean} \cup TornTails(event)
      BY <1>8 DEF Record, RecordFails, Exit, ExitWhileRecording
    <3> QED
      BY <1>8, <3>1, <3>2, AppendedBacked DEF DiskInv
  <2>2. BackedMap(memory')
    <3>1. memory' \in {memory, Insert(memory, event), [p \in Paths |-> None]}
      BY <1>8 DEF Record, RecordFails, Exit, ExitWhileRecording
    <3>2. BackedMap(Insert(memory, event))
      BY <1>8, InsertBacked DEF DiskInv, JournalInv, JournalTypeOK, Lines
    <3>3. BackedMap([p \in Paths |-> None])
      BY DEF BackedMap
    <3> QED
      BY <3>1, <3>2, <3>3 DEF DiskInv
  <2> QED
    BY <1>3, <1>4, <2>1, <2>2 DEF JournalBacked, Backed, BackedMap
<1>9. (ErrorEntry \in Events /\ Backed(ErrorEntry)) \/ job.step # "reporting"
  BY DEF JobInv, ErrorEntry, Events, Backed
<1>10. job.step = "recording" => job.entry \in Events /\ Backed(job.entry)
  BY DEF JobInv, DiskInv
<1>11. CASE RecordOutcome \/ RecordOutcomeFails \/ ReferencesFail
  <2>1. JournalBacked'
    BY <1>8, <1>10, <1>11 DEF RecordOutcome, RecordOutcomeFails, ReferencesFail, AtStep
  <2>2. job'.step # "recording"
    BY <1>11, NoJobTyped DEF RecordOutcome, RecordOutcomeFails, ReferencesFail, Go, JobInv, Jobs
  <2> QED
    BY <1>6, <2>1, <2>2
<1>12. CASE ReportFailure
  BY <1>6, <1>8, <1>9, <1>12, NoJobTyped DEF ReportFailure, AtStep
<1>13. CASE Stop
  <2>1. CASE Exit
    <3>1. /\ lines' = lines /\ tail' = tail
          /\ memory' = [p \in Paths |-> None]
      BY <2>1 DEF Exit
    <3>2. JournalBacked'
      BY <1>3, <3>1 DEF JournalBacked, DiskInv, Backed, BackedMap
    <3> QED
      BY <1>6, <1>13, <3>2, NoJobTyped DEF Stop
  <2>2. CASE ~ Exit
    BY <1>6, <1>8, <1>9, <1>10, <1>13, <2>2, NoJobTyped DEF Stop
  <2> QED
    BY <2>1, <2>2
<1>14. CASE Store
  <2>1. journalVars' = journalVars
    BY <1>14 DEF Store, journalVars
  <2>2. CASE job.path \in Pages
    <3>1. /\ job'.step = "recording" /\ job'.entry = Entry(TRUE)
          /\ disk'[job.path] = job.got /\ job.got # None /\ job.path \in Paths
      BY <1>14, <2>2, NoneAssumption DEF Store, AtStep, JobInv, Jobs
    <3>2. <<job.path, job.got>> \in stored'
      BY <1>2, <3>1 DEF BackedMap
    <3>3. (Backed(job.entry))'
      BY <3>1, <3>2 DEF Entry, Backed
    <3> QED
      BY <1>5, <1>6, <2>1, <3>3
  <2>3. CASE job.path \notin Pages
    BY <1>5, <1>6, <1>14, <2>1, <2>3, NoJobTyped DEF Store
  <2> QED
    BY <2>2, <2>3
<1>15. CASE KeepExisting
  <2>1. journalVars' = journalVars /\ ~ job'.entry.saved
    BY <1>15 DEF KeepExisting, JobInv, Jobs, Entry
  <2> QED
    BY <1>5, <1>6, <2>1 DEF Backed
<1>16. ASSUME journalVars' = journalVars, job' = job PROVE DiskInv'
  BY <1>3, <1>5, <1>6, <1>16 DEF DiskInv, Backed
<1>17. CASE Cancel
  BY <1>16, <1>17 DEF Cancel
<1>18. ASSUME NEW p \in Paths, NEW c \in Captures, NEW limited \in BOOLEAN, StartJob(p, c, limited)
       PROVE  DiskInv'
  <2>1. journalVars' = journalVars /\ job'.step = "fetching"
    BY <1>18 DEF StartJob, NoJob
  <2> QED
    BY <1>5, <1>6, <2>1
<1>19. ASSUME NEW c \in Captures, Fetched(c) PROVE DiskInv'
  <2>1. journalVars' = journalVars /\ job'.step \in {"inspecting", "storing"}
    BY <1>19 DEF Fetched, JobInv, Jobs
  <2> QED
    BY <1>5, <1>6, <2>1
<1>20. CASE FetchFails \/ StoreFails \/ AcceptPage
  <2>1. journalVars' = journalVars /\ job'.step \in {"storing", "reporting"}
    BY <1>20 DEF FetchFails, StoreFails, AcceptPage, Go, JobInv, Jobs
  <2> QED
    BY <1>5, <1>6, <2>1
<1>21. CASE InspectionCancelled \/ TooLarge
  BY <1>5, <1>6, <1>21, NoJobTyped DEF InspectionCancelled, TooLarge
<1>22. ASSUME NEW p \in Paths, NEW c \in Captures, SkipFails(p, c)
       PROVE  DiskInv'
  <2>1. journalVars' = journalVars /\ job'.step = "reporting"
    BY <1>22 DEF SkipFails, NoJob
  <2> QED
    BY <1>5, <1>6, <2>1
<1> QED
  BY <1>7, <1>11, <1>12, <1>13, <1>14, <1>15, <1>17, <1>18, <1>19, <1>20, <1>21, <1>22 DEF Next

LEMMA BackedInvariant == MCSpec => []DiskInv
<1>1. JobInv /\ JobInv' /\ JournalInv /\ JournalInv' /\ DiskInv /\ [MCNext]_mcVars => DiskInv'
  BY BackedStep
<1> QED
  BY <1>1, NothingBackedYet, ObservedRuns, PTL DEF MCSpec

(* The journal never claims a capture that was not on disk, for any paths   *)
(* and captures: the entry is written after the file is in place            *)
(* (src/src/downloader.rs:1009-1024), and neither a torn line nor the entry *)
(* of a failure is read back as a save.                                     *)
THEOREM JournalClaimsWereOnDisk == MCSpec => []EvidenceWasOnDisk
<1>1. JournalInv /\ DiskInv => EvidenceWasOnDisk
  <2> SUFFICES ASSUME JournalInv, DiskInv PROVE BackedMap(Evidence)
    BY DEF BackedMap, EvidenceWasOnDisk
  <2>1. BackedMap(Reload(Sealed))
    BY SealedBacked, ReloadBacked
  <2> QED
    BY <2>1 DEF Evidence, DiskInv
<1> QED
  BY <1>1, BackedInvariant, ObservedRuns, PTL

-----------------------------------------------------------------------------
(* The pages whose entry is written agree with the journal; the entry being *)
(* written names what is in the file.                                       *)
EntryNamed ==
  job.path \in Pages /\ job.entry.path = job.path /\ job.entry.capture = disk[job.path]

NamesInv ==
  /\ recorded \subseteq Pages
  /\ appendFailed => recorded = {}
  /\ SavesEntry => EntryNamed
  /\ EvidenceNamesTheFile

LEMMA NothingNamedYet == MCInit => NamesInv
BY ReloadEmpty, PagesAssumption
DEF MCInit, Init, JournalInit, NamesInv, EvidenceNamesTheFile, Evidence, Sealed, SavesEntry,
    NoJob

(* A step that ends no journal entry leaves the recorded pages alone.       *)
LEMMA NamesKept ==
  ASSUME JobInv, NamesInv, Observe, ~ appendFailed', Evidence' = Evidence,
         ~ SavesEntry, ~ SavesEntry', disk' = disk
  PROVE  NamesInv'
BY DEF NamesInv, EvidenceNamesTheFile, Observe

(* While an append of the process has failed no page counts as recorded.    *)
LEMMA NamesInDoubt ==
  ASSUME Observe, appendFailed',
         SavesEntry' => EntryNamed'
  PROVE  NamesInv'
BY DEF NamesInv, EvidenceNamesTheFile, Observe

LEMMA NamesStep ==
  ASSUME JobInv, JobInv', JournalInv, JournalInv', NamesInv, [MCNext]_mcVars
  PROVE  NamesInv'
<1>1. CASE UNCHANGED mcVars
  BY <1>1 DEF mcVars, vars, journalVars, saveVars, NamesInv, EvidenceNamesTheFile, EntryNamed, SavesEntry,
     Evidence, Sealed
<1> SUFFICES ASSUME Next, Observe PROVE NamesInv'
  BY <1>1 DEF MCNext
<1>2. ASSUME journalVars' = journalVars
      PROVE  Evidence' = Evidence /\ appendFailed' = appendFailed
  BY <1>2 DEF journalVars, Evidence, Sealed
<1>3. ASSUME journalVars' = journalVars, disk' = disk, ~ SavesEntry, ~ SavesEntry'
      PROVE  NamesInv'
  BY <1>2, <1>3, NamesKept, NamesInDoubt
<1>4. CASE Store /\ job.path \in Pages
  <2>1. /\ job' = [job EXCEPT !.step = "recording", !.entry = Entry(TRUE)]
        /\ disk' = [disk EXCEPT ![job.path] = job.got]
        /\ journalVars' = journalVars
        /\ job.step = "storing" /\ job.path \in Paths
    BY <1>4 DEF Store, AtStep, JobInv, journalVars
  <2>2. SavesEntry' /\ job'.path = job.path /\ job'.entry = Entry(TRUE)
    BY <2>1 DEF SavesEntry, JobInv, Jobs, Entry
  <2>3. EntryNamed'
    BY <1>4, <2>1, <2>2 DEF Entry, EntryNamed, JobInv
  <2>4. ~ SavesEntry /\ recorded' = IF appendFailed' THEN {} ELSE recorded
    BY <2>1 DEF SavesEntry, Observe
  <2>5. \A p \in Pages : p # job.path => disk'[p] = disk[p]
    BY <2>1, PagesAssumption DEF JobInv
  <2>6. CASE appendFailed'
    BY <2>3, <2>6, NamesInDoubt
  <2>7. CASE ~ appendFailed'
    BY <1>2, <2>1, <2>2, <2>3, <2>4, <2>5, <2>7 DEF NamesInv, EvidenceNamesTheFile
  <2> QED
    BY <2>6, <2>7
<1>5. CASE Store /\ job.path \notin Pages
  <2>1. /\ job' = NoJob
        /\ \A p \in Pages : disk'[p] = disk[p]
        /\ journalVars' = journalVars
        /\ ~ SavesEntry
    BY <1>5, PagesAssumption DEF Store, AtStep, JobInv, journalVars, SavesEntry
  <2>2. ~ SavesEntry'
    BY <2>1, NoJobTyped DEF SavesEntry
  <2>3. CASE appendFailed'
    BY <2>2, <2>3, NamesInDoubt
  <2>4. CASE ~ appendFailed'
    BY <1>2, <2>1, <2>2, <2>4 DEF NamesInv, EvidenceNamesTheFile, Observe
  <2> QED
    BY <2>3, <2>4
<1>6. CASE StartRun
  <2>1. /\ Evidence' = Evidence
        /\ ~ appendFailed'
        /\ disk' = disk /\ job' = job
        /\ job.step # "recording"
    BY <1>6 DEF StartRun, OpenJournal, Evidence, JobInv
  <2> QED
    BY <2>1, NamesKept DEF SavesEntry
<1>7. CASE RecordOutcome
  <2>1. /\ job.step = "recording" /\ job.entry \in Events /\ job' = NoJob
        /\ Evidence' = Insert(Evidence, job.entry)
        /\ appendFailed' = appendFailed /\ disk' = disk /\ running'
        /\ Evidence \in [Paths -> Captures \cup {None}]
        /\ job.path \in Paths
    BY <1>7, EvidenceTyped DEF RecordOutcome, Record, AtStep, JobInv, Evidence
  <2>2. ~ SavesEntry'
    BY <2>1, NoJobTyped DEF SavesEntry
  <2>3. CASE appendFailed'
    BY <2>2, <2>3, NamesInDoubt
  <2>4. CASE ~ appendFailed' /\ ~ job.entry.saved
    BY <2>1, <2>2, <2>4, NamesKept DEF SavesEntry, Insert
  <2>5. CASE ~ appendFailed' /\ job.entry.saved
    <3>1. /\ SavesEntry
          /\ recorded' = recorded \cup {job.path}
          /\ Evidence'[job.path] = disk[job.path]
          /\ \A p \in Paths : p # job.path => Evidence'[p] = Evidence[p]
      BY <2>1, <2>5 DEF SavesEntry, Observe, Insert, NamesInv, EntryNamed
    <3>2. job.path \in Pages
      BY <3>1 DEF NamesInv, EntryNamed
    <3> QED
      BY <2>1, <2>2, <2>5, <3>1, <3>2, PagesAssumption DEF NamesInv, EvidenceNamesTheFile
  <2> QED
    BY <2>3, <2>4, <2>5
<1>8. ASSUME disk' = disk, ~ SavesEntry', SavesEntry => ~ (running' /\ job' = NoJob) /\ job' # job,
             ~ appendFailed' =>
               \/ Evidence' = Evidence
               \/ SavesEntry /\ Evidence' = Insert(Evidence, job.entry)
      PROVE  NamesInv'
  <2>1. CASE appendFailed'
    BY <1>8, <2>1, NamesInDoubt
  <2>2. CASE ~ appendFailed' /\ ~ SavesEntry
    BY <1>8, <2>2, NamesKept
  <2>3. CASE ~ appendFailed' /\ SavesEntry
    <3>1. recorded' = recorded \ {job.path}
      BY <1>8, <2>3 DEF Observe
    <3>2. \A p \in Paths : p # job.path => Evidence'[p] = Evidence[p]
      BY <1>8, <2>3, EvidenceTyped DEF Insert, NamesInv, EntryNamed
    <3> QED
      BY <1>8, <2>3, <3>1, <3>2, PagesAssumption DEF NamesInv, EvidenceNamesTheFile
  <2> QED
    BY <2>1, <2>2, <2>3
<1>9. CASE RecordOutcomeFails
  <2>1. disk' = disk /\ Evidence' = Evidence /\ job'.step = "reporting" /\ job.step = "recording"
    BY <1>9 DEF RecordOutcomeFails, RecordFails, Go, AtStep, JobInv, Jobs, Evidence
  <2>2. ~ SavesEntry' /\ job' # job /\ job' # NoJob
    BY <2>1, NoJobTyped DEF SavesEntry
  <2> QED
    BY <1>8, <2>1, <2>2
<1>10. CASE ReportFailure
  <2>1. disk' = disk /\ Evidence' = Evidence /\ job' = NoJob /\ job.step = "reporting"
    BY <1>10 DEF ReportFailure, Record, RecordFails, AtStep, Evidence, Insert, ErrorEntry
  <2>2. ~ SavesEntry /\ ~ SavesEntry'
    BY <2>1, NoJobTyped DEF SavesEntry
  <2> QED
    BY <1>8, <2>1, <2>2
<1>11. CASE Stop
  <2>1. disk' = disk /\ job' = NoJob /\ ~ running' /\ appendFailed' = appendFailed
    BY <1>11 DEF Stop, Exit, ExitWhileRecording
  <2>2. ~ SavesEntry' /\ (SavesEntry => job' # job)
    BY <2>1, NoJobTyped DEF SavesEntry
  <2>3. ASSUME ~ appendFailed
        PROVE  Evidence' = Evidence \/ (SavesEntry /\ Evidence' = Insert(Evidence, job.entry))
    <3>1. CASE Exit
      BY <2>3, <3>1, ExitKeepsEvidence
    <3>2. CASE job.step = "recording" /\ ExitWhileRecording(job.entry)
      <4>1. job.entry \in Events
        BY <3>2 DEF JobInv
      <4>2. Evidence' \in {Evidence, Insert(Evidence, job.entry)}
        BY <2>3, <3>2, <4>1, TornEvidence
      <4> QED
        BY <3>2, <4>2 DEF SavesEntry, Insert
    <3>3. CASE job.step = "reporting" /\ ExitWhileRecording(ErrorEntry)
      <4>1. ErrorEntry \in Events /\ ~ ErrorEntry.saved
        BY <3>3 DEF JobInv, ErrorEntry, Events
      <4>2. Evidence' \in {Evidence, Insert(Evidence, ErrorEntry)}
        BY <2>3, <3>3, <4>1, TornEvidence
      <4> QED
        BY <4>1, <4>2 DEF Insert
    <3> QED
      BY <1>11, <3>1, <3>2, <3>3 DEF Stop
  <2> QED
    BY <1>8, <2>1, <2>2, <2>3
<1>12. ASSUME job.step # "recording", job'.step # "recording" \/ ~ job'.entry.saved,
              journalVars' = journalVars, disk' = disk
       PROVE  NamesInv'
  BY <1>3, <1>12 DEF SavesEntry
<1>13. CASE KeepExisting
  BY <1>12, <1>13 DEF KeepExisting, AtStep, JobInv, Jobs, Entry
<1>14. CASE Cancel
  <2>1. /\ journalVars' = journalVars /\ disk' = disk /\ job' = job
        /\ appendFailed' = appendFailed /\ (recorded' = recorded \/ appendFailed')
    BY <1>14, NoJobTyped DEF Cancel, journalVars, Observe, SavesEntry
  <2>2. CASE appendFailed'
    BY <2>1, <2>2, NamesInDoubt DEF SavesEntry, NamesInv, EntryNamed
  <2>3. CASE ~ appendFailed'
    BY <1>2, <2>1, <2>3 DEF SavesEntry, NamesInv, EntryNamed, EvidenceNamesTheFile
  <2> QED
    BY <2>2, <2>3
<1>15. ASSUME NEW p \in Paths, NEW c \in Captures, NEW limited \in BOOLEAN, StartJob(p, c, limited)
       PROVE  NamesInv'
  BY <1>12, <1>15 DEF StartJob, AtStep, NoJob
<1>16. ASSUME NEW c \in Captures, Fetched(c) PROVE NamesInv'
  BY <1>12, <1>16 DEF Fetched, AtStep, JobInv, Jobs
<1>17. CASE FetchFails \/ StoreFails \/ AcceptPage
  BY <1>12, <1>17 DEF FetchFails, StoreFails, AcceptPage, Go, AtStep, JobInv, Jobs
<1>18. CASE InspectionCancelled \/ TooLarge
  BY <1>12, <1>18, NoJobTyped DEF InspectionCancelled, TooLarge, AtStep
<1>19. ASSUME NEW p \in Paths, NEW c \in Captures, SkipFails(p, c)
       PROVE  NamesInv'
  BY <1>12, <1>19 DEF SkipFails, AtStep, NoJob
<1>20. CASE ReferencesFail
  <2>1. disk' = disk /\ Evidence' = Evidence /\ job'.step = "reporting" /\ ~ SavesEntry
    BY <1>20 DEF ReferencesFail, Record, Go, AtStep, JobInv, Jobs, Evidence, Insert, SavesEntry
  <2>2. ~ SavesEntry'
    BY <2>1 DEF SavesEntry
  <2> QED
    BY <1>8, <2>1, <2>2
<1> QED
  BY <1>4, <1>5, <1>6, <1>7, <1>9, <1>10, <1>11, <1>13, <1>14, <1>15, <1>16, <1>17, <1>18,
     <1>19, <1>20 DEF Next

(* Once a page is saved and its entry written, the journal names what its   *)
(* file holds, until a later replacement is cut off between the file and    *)
(* the entry: for any pages and captures, over any number of runs           *)
(* (src/src/downloader.rs:1009-1036).                                       *)
THEOREM JournalNamesTheFiles == MCSpec => []EvidenceNamesTheFile
<1>1. JobInv /\ JobInv' /\ JournalInv /\ JournalInv' /\ NamesInv /\ [MCNext]_mcVars => NamesInv'
  BY NamesStep
<1>2. NamesInv => EvidenceNamesTheFile
  BY DEF NamesInv
<1> QED
  BY <1>1, <1>2, NothingNamedYet, ObservedRuns, PTL DEF MCSpec
=============================================================================
