------------------------------ MODULE SavePage ------------------------------
(***************************************************************************)
(* download_one of src/src/downloader.rs over the output directory and the  *)
(* recovery journal: whether an existing file is kept, what replaces it,    *)
(* and which outcome is journalled. Jobs run one after another; the process *)
(* may fail at each step, be cancelled, be killed and be started again with *)
(* other options. How a body is fetched is SnapshotFetch; here a fetch      *)
(* returns any capture, or fails.                                           *)
(***************************************************************************)
EXTENDS RecoveryJournal

CONSTANTS
  Pages,     \* paths whose bodies are buffered: HTML, the others are streamed
  Unusable   \* captures that are recognised HTML error or redirect pages

ASSUME PagesAssumption == Pages \subseteq Paths
ASSUME UnusableAssumption == Unusable \subseteq Captures
ASSUME NoPathAssumption == None \notin Paths

VARIABLES
  disk,      \* the capture each path holds, None where there is no file
  options,   \* no_clobber and recover_existing of the running process
  cancelled, \* its CancellationFlag
  job        \* the DownloadJob being worked on, and where download_one is

saveVars == <<disk, options, cancelled, job>>
vars == <<journalVars, saveVars>>

Steps == {"idle", "fetching", "inspecting", "storing", "recording", "reporting"}

(* A path with no job, and the journal entry it would not write.            *)
NoJob ==
  [step |-> "idle", path |-> None, requested |-> None, limited |-> FALSE,
   existing |-> FALSE, got |-> None, entry |-> Damaged]

Entry(saved) == [saved |-> saved, path |-> job.path, capture |-> job.got]
\* Not the code: a failure is journalled without the path.
ErrorEntryWithoutPath == [saved |-> FALSE, path |-> None, capture |-> job.requested]

ErrorEntry == [saved |-> FALSE, path |-> job.path, capture |-> job.requested]

AtStep(step) == running /\ job.step = step
Go(step) == job' = [job EXCEPT !.step = step]

(* has_non_empty_file and is_unusable_html_capture of what is there now.    *)
Exists(p) == disk[p] # None
LocalUnusable(p) == p \in Pages /\ disk[p] \in Unusable
\* Not the code: --recover-existing looks at every existing page again.
SkipsUnlessRecovering(p) == Exists(p) /\ options.noClobber /\ ~ options.recoverExisting

Skips(p) ==
  Exists(p) /\ options.noClobber /\ ~ (options.recoverExisting /\ LocalUnusable(p))

GotUnusable == job.path \in Pages /\ job.got \in Unusable

DefaultOptions == [noClobber |-> TRUE, recoverExisting |-> FALSE]

Init ==
  /\ JournalInit
  /\ disk = [p \in Paths |-> None]
  /\ options = DefaultOptions
  /\ cancelled = FALSE
  /\ job = NoJob

-----------------------------------------------------------------------------
StartRun ==
  /\ OpenJournal
  /\ options' \in [noClobber : BOOLEAN, recoverExisting : BOOLEAN]
  /\ cancelled' = FALSE
  /\ UNCHANGED <<disk, job>>

Cancel ==
  /\ running
  /\ ~ cancelled
  /\ cancelled' = TRUE
  /\ UNCHANGED <<journalVars, disk, options, job>>

(* A cancelled or skipped job changes nothing: only the others are started. *)
StartJob(p, c, limited) ==
  /\ AtStep("idle")
  /\ ~ cancelled
  /\ ~ Skips(p)
  /\ job' = [NoJob EXCEPT !.step = "fetching", !.path = p, !.requested = c,
                          !.limited = limited, !.existing = Exists(p)]
  /\ UNCHANGED <<journalVars, disk, options, cancelled>>

(* A file that stays is read for its references, and that can fail: the job *)
(* is then reported as failed although nothing was to be fetched.           *)
SkipFails(p, c) ==
  /\ AtStep("idle")
  /\ ~ cancelled
  /\ Skips(p)
  /\ job' = [NoJob EXCEPT !.step = "reporting", !.path = p, !.requested = c,
                          !.existing = TRUE]
  /\ UNCHANGED <<journalVars, disk, options, cancelled>>

(* The body of the selected capture, or of one found in its place.          *)
Fetched(c) ==
  /\ AtStep("fetching")
  /\ job' = [job EXCEPT !.got = c,
                        !.step = IF job.path \in Pages THEN "inspecting" ELSE "storing"]
  /\ UNCHANGED <<journalVars, disk, options, cancelled>>

(* No body could be fetched, or a page could not be decoded.                *)
FetchFails ==
  /\ \/ AtStep("fetching")
     \/ AtStep("inspecting") /\ ~ cancelled
  /\ Go("reporting")
  /\ UNCHANGED <<journalVars, disk, options, cancelled>>

InspectionCancelled ==
  /\ AtStep("inspecting")
  /\ cancelled
  /\ job' = NoJob
  /\ UNCHANGED <<journalVars, disk, options, cancelled>>

\* Not the code: the capture that was refused is journalled as downloaded.
KeepExistingAsDownloaded ==
  /\ AtStep("inspecting")
  /\ ~ cancelled
  /\ job.existing /\ GotUnusable
  /\ job' = [job EXCEPT !.step = "recording", !.entry = Entry(TRUE)]
  /\ UNCHANGED <<journalVars, disk, options, cancelled>>

(* An error page never replaces an existing file.                           *)
KeepExisting ==
  /\ AtStep("inspecting")
  /\ ~ cancelled
  /\ job.existing /\ GotUnusable
  /\ job' = [job EXCEPT !.step = "recording", !.entry = Entry(FALSE)]
  /\ UNCHANGED <<journalVars, disk, options, cancelled>>

(* The body of a linked file is over the size limit.                        *)
TooLarge ==
  /\ job.limited
  /\ \/ AtStep("fetching") /\ job.path \notin Pages
     \/ AtStep("inspecting") /\ ~ cancelled /\ ~ (job.existing /\ GotUnusable)
  /\ job' = NoJob
  /\ UNCHANGED <<journalVars, disk, options, cancelled>>

\* Not the code: what is on disk is not considered.
AcceptAnyPage ==
  /\ AtStep("inspecting")
  /\ ~ cancelled
  /\ Go("storing")
  /\ UNCHANGED <<journalVars, disk, options, cancelled>>

AcceptPage ==
  /\ AtStep("inspecting")
  /\ ~ cancelled
  /\ ~ (job.existing /\ GotUnusable)
  /\ Go("storing")
  /\ UNCHANGED <<journalVars, disk, options, cancelled>>

(* write_bytes_atomic, or the rename that ends a streamed transfer: the     *)
(* file is replaced whole. Only pages are journalled.                       *)
Store ==
  /\ AtStep("storing")
  /\ disk' = [disk EXCEPT ![job.path] = job.got]
  /\ job' = IF job.path \in Pages
            THEN [job EXCEPT !.step = "recording", !.entry = Entry(TRUE)]
            ELSE NoJob
  /\ UNCHANGED <<journalVars, options, cancelled>>

\* Not the code: the error of the write is ignored.
StoreErrorIgnored ==
  /\ AtStep("storing")
  /\ job.path \in Pages
  /\ job' = [job EXCEPT !.step = "recording", !.entry = Entry(TRUE)]
  /\ UNCHANGED <<journalVars, disk, options, cancelled>>

StoreFails ==
  /\ AtStep("storing")
  /\ Go("reporting")
  /\ UNCHANGED <<journalVars, disk, options, cancelled>>

RecordOutcome ==
  /\ AtStep("recording")
  /\ Record(job.entry)
  /\ job' = NoJob
  /\ UNCHANGED <<disk, options, cancelled>>

(* The error of record() fails the job like any other.                      *)
RecordOutcomeFails ==
  /\ AtStep("recording")
  /\ RecordFails(job.entry)
  /\ Go("reporting")
  /\ UNCHANGED <<disk, options, cancelled>>

(* A refused replacement is journalled, then the file that stays is read    *)
(* for its references, and that fails.                                      *)
ReferencesFail ==
  /\ AtStep("recording")
  /\ ~ job.entry.saved
  /\ Record(job.entry)
  /\ Go("reporting")
  /\ UNCHANGED <<disk, options, cancelled>>

(* download_one journals the failure of the requested capture.              *)
ReportFailure ==
  /\ AtStep("reporting")
  /\ Record(ErrorEntry) \/ RecordFails(ErrorEntry)
  /\ job' = NoJob
  /\ UNCHANGED <<disk, options, cancelled>>

(* The process ends, or is killed, at any step.                             *)
Stop ==
  /\ \/ Exit
     \/ job.step = "recording" /\ ExitWhileRecording(job.entry)
     \/ job.step = "reporting" /\ ExitWhileRecording(ErrorEntry)
  /\ job' = NoJob
  /\ options' = DefaultOptions
  /\ cancelled' = FALSE
  /\ UNCHANGED disk

Next ==
  \/ StartRun
  \/ Cancel
  \/ \E p \in Paths, c \in Captures, limited \in BOOLEAN : StartJob(p, c, limited)
  \/ \E p \in Paths, c \in Captures : SkipFails(p, c)
  \/ \E c \in Captures : Fetched(c)
  \/ FetchFails
  \/ InspectionCancelled
  \/ KeepExisting
  \/ TooLarge
  \/ AcceptPage
  \/ Store
  \/ StoreFails
  \/ RecordOutcome
  \/ RecordOutcomeFails
  \/ ReferencesFail
  \/ ReportFailure
  \/ Stop

Spec == Init /\ [][Next]_vars

-----------------------------------------------------------------------------
Files == Captures \cup {None}

TypeOK ==
  /\ JournalTypeOK
  /\ disk \in [Paths -> Files]
  /\ options \in [noClobber : BOOLEAN, recoverExisting : BOOLEAN]
  /\ cancelled \in BOOLEAN
  /\ job \in [step : Steps, path : Paths \cup {None}, requested : Files,
              limited : BOOLEAN, existing : BOOLEAN, got : Files, entry : Lines]

(* A page with something usable on disk is never replaced by an HTML error  *)
(* or redirect page, whatever the options, the failures and the number of   *)
(* runs ("Even with --overwrite", src/README.md:148).                       *)
UsableStays ==
  [][\A p \in Pages : Exists(p) /\ disk[p] \notin Unusable => disk'[p] \in Captures \ Unusable]_vars

(* Without --overwrite an existing file changes only under                  *)
(* --recover-existing, from an unusable page to a usable one.               *)
NoClobberKeeps ==
  [][\A p \in Paths :
       Exists(p) /\ options.noClobber /\ disk'[p] # disk[p]
         => /\ options.recoverExisting
            /\ LocalUnusable(p)
            /\ disk'[p] \in Captures \ Unusable]_vars
=============================================================================
