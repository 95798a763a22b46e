----------------------------- MODULE DownloadRun -----------------------------
(***************************************************************************)
(* download_site of src/src/downloader.rs: the jobs of the primary listing, *)
(* the waves of linked files, local aliases, the recovery of missing static *)
(* assets and the final report. One capture is downloaded at a time; how it *)
(* is fetched and saved is SnapshotFetch and SavePage, and shows here only  *)
(* as the status download_one returns.                                      *)
(***************************************************************************)
EXTENDS Naturals, Sequences, FiniteSets, SequencesExt

CONSTANTS
  Urls,       \* normalised original URLs of related hosts
  Paths,      \* local paths
  None,
  Discovered, \* URLs of the primary listing, in its order
  PathOf,     \* local_path_for_url with the MIME type of the URL's record
  GuessOf,    \* the path a link gets while no record of its URL is known
  Equivalent, \* other spellings of a URL: http or https, www or bare host
  Original,   \* the URL of the record that a lookup of a URL returns, or None
  Links,      \* references extracted from the file at a path
  Assets,     \* paths that is_recoverable_static_asset accepts
  Resembles   \* the one alias candidate of an asset, or None

ASSUME ListingAssumption == Discovered \in Seq(Urls)
ASSUME MappingAssumption ==
  /\ PathOf \in [Urls -> Paths]
  /\ GuessOf \in [Urls -> Paths]
  /\ Equivalent \in [Urls -> SUBSET Urls]
  /\ Original \in [Urls -> Urls \cup {None}]
  /\ Links \in [Paths -> SUBSET Urls]
  /\ Assets \subseteq Paths
  /\ Resembles \in [Paths -> Paths \cup {None}]
ASSUME NoneAssumption == None \notin Urls \cup Paths

VARIABLES
  phase,     \* where download_site is
  linked,    \* extra_download_max_bytes is set
  jobs,      \* DownloadJobs of this pass, by URL and path
  current,   \* the job being downloaded
  refs,      \* extra_download_refs
  pending,   \* references of this wave still to be resolved
  checked,   \* checked_references
  known,     \* known_paths
  seen,      \* seen_paths
  files,     \* local paths with a non-empty file
  written,   \* what the references of each file point to
  targets,   \* missing static assets still to be recovered
  asset,     \* the one being transferred
  cancelled, \* CancellationFlag
  fatal,     \* why the run ended with an error, None if it did not
  report     \* counters of the DownloadReport

vars == <<phase, linked, jobs, current, refs, pending, checked, known, seen,
          files, written, targets, asset, cancelled, fatal, report>>

NoJob == [url |-> None, path |-> None]
Job(u, p) == [url |-> u, path |-> p]

(* known_path_for_url: the exact URL, else its equivalents if they agree.   *)
KnownPath(u) ==
  LET found == {known[v] : v \in Equivalent[u]} \ {None}
  IN  IF known[u] # None THEN known[u]
      ELSE IF Cardinality(found) = 1 THEN CHOOSE p \in found : TRUE
      ELSE None

(* rewrite_url_reference with the paths known when the page is saved.       *)
LinkPath(u) == IF KnownPath(u) # None THEN KnownPath(u) ELSE GuessOf[u]
Rewritten(p) == {LinkPath(u) : u \in Links[p]}
Raw(p) == {GuessOf[u] : u \in Links[p]}

(* What validate_local_links finds missing.                                 *)
MissingFrom(present, links) == UNION {links[p] : p \in present} \ present
MissingTargets == MissingFrom(files, written)
MissingAssets == MissingTargets \cap Assets

(* Every URL of the listing gets a job unless an earlier one has its path.  *)
AddJob(selected, u) ==
  IF \E i \in DOMAIN selected : selected[i].path = PathOf[u] THEN selected
  ELSE Append(selected, Job(u, PathOf[u]))
SelectedJobs[k \in 0 .. Len(Discovered)] ==
  IF k = 0 THEN <<>> ELSE AddJob(SelectedJobs[k - 1], Discovered[k])
PrimaryJobs == SelectedJobs[Len(Discovered)]

(* recoverable_static_records_by_path: assets the listing has records of.   *)
ListedPaths == {PathOf[u] : u \in Range(Discovered)}
ListedAssets == ListedPaths \cap Assets

Counters == {"downloaded", "skipped", "cancelled", "failed", "unavailable",
             "linkedUnavailable", "recovered", "assetsUnavailable", "assetAliases"}
Count(counter) == report' = [report EXCEPT ![counter] = @ + 1]

Init ==
  /\ phase = "primary"
  /\ linked \in BOOLEAN
  /\ jobs = PrimaryJobs
  /\ current = NoJob
  /\ refs = {}
  /\ pending = {}
  /\ checked = {}
  /\ known = [u \in Urls |-> IF u \in Range(Discovered) THEN PathOf[u] ELSE None]
  /\ seen = {PathOf[u] : u \in Range(Discovered)}
  /\ files \in SUBSET seen
  /\ written = [p \in Paths |-> IF p \in files THEN Rewritten(p) ELSE {}]
  /\ targets = {}
  /\ asset = None
  /\ cancelled = FALSE
  /\ fatal = None
  /\ report = [[c \in Counters |-> 0]
                EXCEPT !.skipped = Len(Discovered) - Len(PrimaryJobs)]

-----------------------------------------------------------------------------
\* What each pass leaves alone.
waveVars == <<refs, pending, checked, known, seen>>
diskVars == <<files, written>>
assetVars == <<targets, asset>>

Cancel ==
  /\ phase \notin {"done", "failed"}
  /\ ~ cancelled
  /\ cancelled' = TRUE
  /\ UNCHANGED <<phase, linked, jobs, current, waveVars, diskVars, assetVars, fatal, report>>

Abort(why) == phase' = "failed" /\ fatal' = why

Downloading == phase \in {"primary", "linked jobs"} /\ current = NoJob /\ jobs # <<>>

(* download_one returns at once when the run is cancelled.                  *)
CancelledJob ==
  /\ Downloading
  /\ cancelled
  /\ jobs' = Tail(jobs)
  /\ Count("cancelled")
  /\ UNCHANGED <<phase, linked, current, waveVars, diskVars, assetVars, cancelled, fatal>>

(* An existing file is kept (--no-clobber); its references are followed as  *)
(* far as the file and the journal still tell them.                         *)
SkippedJob ==
  /\ Downloading
  /\ ~ cancelled
  /\ Head(jobs).path \in files
  /\ jobs' = Tail(jobs)
  /\ \E found \in IF linked THEN SUBSET Links[Head(jobs).path] ELSE {{}} :
       refs' = refs \cup found
  /\ Count("skipped")
  /\ UNCHANGED <<phase, linked, current, pending, checked, known, seen, diskVars,
                 assetVars, cancelled, fatal>>

StartJob ==
  /\ Downloading
  /\ ~ cancelled
  /\ Head(jobs).path \notin files
  /\ current' = Head(jobs)
  /\ jobs' = Tail(jobs)
  /\ UNCHANGED <<phase, linked, waveVars, diskVars, assetVars, cancelled, fatal, report>>

Downloaded ==
  /\ current # NoJob
  /\ current' = NoJob
  /\ files' = files \cup {current.path}
  /\ written' = [written EXCEPT ![current.path] = Rewritten(current.path)]
  /\ refs' = refs \cup Links[current.path]
  /\ Count("downloaded")
  /\ UNCHANGED <<phase, linked, jobs, pending, checked, known, seen, assetVars,
                 cancelled, fatal>>

(* Nothing is saved. A fetch whose retry wait is interrupted has failed; one *)
(* that ends after the cancellation is dropped.                             *)
NotDownloaded(status) ==
  /\ current # NoJob
  /\ status = "cancelled" => cancelled
  /\ current' = NoJob
  /\ Count(status)
  /\ UNCHANGED <<phase, linked, jobs, waveVars, diskVars, assetVars, cancelled, fatal>>

\* Not the code: the file is only counted as an unavailable linked file.
LinkedFileCountedOnce(status) ==
  /\ current # NoJob
  /\ phase = "linked jobs"
  /\ current' = NoJob
  /\ Count("linkedUnavailable")
  /\ UNCHANGED <<phase, linked, jobs, waveVars, diskVars, assetVars, cancelled, fatal>>

(* A linked file over the size limit, or without a usable replay, is also   *)
(* counted as an unavailable linked file.                                   *)
LinkedFileUnavailable(status) ==
  /\ current # NoJob
  /\ phase = "linked jobs"
  /\ current' = NoJob
  /\ report' = [report EXCEPT ![status] = @ + 1, !.linkedUnavailable = @ + 1]
  /\ UNCHANGED <<phase, linked, jobs, waveVars, diskVars, assetVars, cancelled, fatal>>

JobEnds ==
  \/ Downloaded
  \/ \E status \in {"failed", "cancelled"} : NotDownloaded(status)
  \/ phase = "primary" /\ NotDownloaded("unavailable")
  \/ \E status \in {"skipped", "unavailable"} : LinkedFileUnavailable(status)

(* A pass over the jobs ends. The passes over linked files and local assets *)
(* are left out when a job of the listing was cancelled.                    *)
PassEnds ==
  /\ phase \in {"primary", "linked jobs"}
  /\ current = NoJob
  /\ jobs = <<>>
  /\ phase' = IF phase = "primary" /\ report.cancelled > 0 THEN "done"
              ELSE IF linked THEN "waves" ELSE "page aliases"
  /\ UNCHANGED <<linked, jobs, current, waveVars, diskVars, assetVars, cancelled, fatal, report>>

-----------------------------------------------------------------------------
\* Not the code: a wave resolves whatever the last files refer to.
NextWaveUnchecked ==
  /\ phase = "waves"
  /\ ~ cancelled
  /\ refs \ checked # {}
  /\ phase' = "resolving"
  /\ pending' = refs
  /\ checked' = checked \cup refs
  /\ refs' = {}
  /\ UNCHANGED <<linked, jobs, current, known, seen, diskVars, assetVars, cancelled, fatal, report>>

(* The next wave: references that no earlier wave has checked.              *)
NextWave ==
  /\ phase = "waves"
  /\ ~ cancelled
  /\ refs \ checked # {}
  /\ phase' = "resolving"
  /\ pending' = refs \ checked
  /\ checked' = checked \cup refs
  /\ refs' = {}
  /\ UNCHANGED <<linked, jobs, current, known, seen, diskVars, assetVars, cancelled, fatal, report>>

WavesEnd ==
  /\ phase = "waves"
  /\ cancelled \/ refs \ checked = {}
  /\ phase' = "page aliases"
  /\ refs' = IF cancelled THEN refs ELSE {}
  /\ checked' = IF cancelled THEN checked ELSE checked \cup refs
  /\ UNCHANGED <<linked, jobs, current, pending, known, seen, diskVars, assetVars, cancelled,
                 fatal, report>>

Resolving(u) == phase = "resolving" /\ u \in pending /\ ~ cancelled

AlreadyKnown(u) ==
  /\ Resolving(u)
  /\ KnownPath(u) # None
  /\ pending' = pending \ {u}
  /\ UNCHANGED <<phase, linked, jobs, current, refs, checked, known, seen, diskVars,
                 assetVars, cancelled, fatal, report>>

\* Not the code: a path that has had a job gets another.
LinkFoundAgain(u) ==
  /\ Resolving(u)
  /\ KnownPath(u) = None
  /\ Original[u] # None
  /\ LET p == PathOf[Original[u]]
     IN  /\ known' = [known EXCEPT ![u] = p, ![Original[u]] = p]
         /\ seen' = seen \cup {p}
         /\ jobs' = Append(jobs, Job(Original[u], p))
  /\ pending' = pending \ {u}
  /\ UNCHANGED <<phase, linked, current, refs, checked, diskVars, assetVars, cancelled,
                 fatal, report>>

(* A record is found: its URL and the reference now map to its path, and it *)
(* becomes a job unless its path already had one.                           *)
LinkFound(u) ==
  /\ Resolving(u)
  /\ KnownPath(u) = None
  /\ Original[u] # None
  /\ LET p == PathOf[Original[u]]
     IN  /\ known' = [known EXCEPT ![u] = p, ![Original[u]] = p]
         /\ seen' = seen \cup {p}
         /\ jobs' = IF p \in seen THEN jobs ELSE Append(jobs, Job(Original[u], p))
  /\ pending' = pending \ {u}
  /\ UNCHANGED <<phase, linked, current, refs, checked, diskVars, assetVars, cancelled,
                 fatal, report>>

\* Not the code: an unavailable link is left for the next wave.
LinkLeftForLater(u) ==
  /\ Resolving(u)
  /\ KnownPath(u) = None
  /\ pending' = pending \ {u}
  /\ refs' = refs \cup {u}
  /\ checked' = checked \ {u}
  /\ UNCHANGED <<phase, linked, jobs, current, known, seen, diskVars, assetVars, cancelled,
                 fatal, report>>

(* No record, only records over the size limit, or a lookup that fails.     *)
LinkUnavailable(u) ==
  /\ Resolving(u)
  /\ KnownPath(u) = None
  /\ pending' = pending \ {u}
  /\ Count("linkedUnavailable")
  /\ UNCHANGED <<phase, linked, jobs, current, refs, checked, known, seen, diskVars,
                 assetVars, cancelled, fatal>>

(* A lookup that cannot reach the archive ends the run.                     *)
LookupFails(u) ==
  /\ Resolving(u)
  /\ KnownPath(u) = None
  /\ Abort("connectivity")
  /\ UNCHANGED <<linked, jobs, current, waveVars, diskVars, assetVars, cancelled, report>>

\* Not the code: the wave goes on to its jobs with the first one found.
WaveCutShort ==
  /\ phase = "resolving"
  /\ pending = {} \/ cancelled \/ jobs # <<>>
  /\ phase' = "linked jobs"
  /\ pending' = {}
  /\ UNCHANGED <<linked, jobs, current, refs, checked, known, seen, diskVars, assetVars,
                 cancelled, fatal, report>>

WaveResolved ==
  /\ phase = "resolving"
  /\ pending = {} \/ cancelled
  /\ phase' = "linked jobs"
  /\ pending' = {}
  /\ UNCHANGED <<linked, jobs, current, refs, checked, known, seen, diskVars, assetVars,
                 cancelled, fatal, report>>

-----------------------------------------------------------------------------
(* Alias requests: assets that listed pages lack and whose candidate is      *)
(* here or in the listing.                                                  *)
AliasRequests(present, links) ==
  {t \in UNION {links[p] : p \in present \cap ListedPaths} \cap Assets :
     t \notin present /\ Resembles[t] \in present \cup ListedAssets}

(* Topic and directory aliases: copies of pages for some missing pages.     *)
PageAliases ==
  /\ phase = "page aliases"
  /\ \E made \in SUBSET (MissingTargets \ Assets) : files' = files \cup made
  /\ targets' = IF linked THEN MissingAssets ELSE AliasRequests(files', written)
  /\ phase' = IF linked THEN "assets" ELSE "alternate pages"
  /\ UNCHANGED <<linked, jobs, current, waveVars, written, asset, cancelled, fatal, report>>

(* recover_missing_static_assets: lookup, then transfer, one at a time.     *)
StartAsset(t) ==
  /\ phase = "assets"
  /\ asset = None
  /\ ~ cancelled
  /\ t \in targets
  /\ asset' = t
  /\ targets' = targets \ {t}
  /\ UNCHANGED <<phase, linked, jobs, current, waveVars, diskVars, cancelled, fatal, report>>

(* The asset is saved as it came: its references are not rewritten.         *)
AssetRecovered ==
  /\ phase = "assets"
  /\ asset # None
  /\ asset' = None
  /\ files' = files \cup {asset}
  /\ written' = [written EXCEPT ![asset] = Raw(asset)]
  /\ Count("recovered")
  /\ UNCHANGED <<phase, linked, jobs, current, waveVars, targets, cancelled, fatal>>

AssetUnavailable ==
  /\ phase = "assets"
  /\ asset # None
  /\ asset' = None
  /\ Count("assetsUnavailable")
  /\ UNCHANGED <<phase, linked, jobs, current, waveVars, diskVars, targets, cancelled, fatal>>

(* A lookup, transfer, copy or write that fails ends the run with an error; *)
(* so does a transfer that is cancelled while it waits to retry.            *)
TransferFails ==
  \/ Abort("transfer")
  \/ cancelled /\ Abort("cancelled")

AssetFails ==
  /\ phase \in {"assets", "alternate pages"}
  /\ asset # None
  /\ TransferFails
  /\ UNCHANGED <<linked, jobs, current, waveVars, diskVars, assetVars, cancelled, report>>

AssetsEnd ==
  /\ phase = "assets"
  /\ asset = None
  /\ cancelled \/ targets = {}
  /\ phase' = "alternate pages"
  /\ targets' = AliasRequests(files, written)
  /\ UNCHANGED <<linked, jobs, current, waveVars, diskVars, asset, cancelled, fatal, report>>

(* create_missing_static_asset_aliases_from_alternate_pages: another        *)
(* capture of the page is read for each request, and mentions the candidate *)
(* or does not.                                                             *)
Request(t) == phase = "alternate pages" /\ asset = None /\ ~ cancelled /\ t \in targets

RequestUnconfirmed(t) ==
  /\ Request(t)
  /\ targets' = targets \ {t}
  /\ UNCHANGED <<phase, linked, jobs, current, waveVars, diskVars, asset, cancelled, fatal,
                 report>>

Copy(t) ==
  /\ files' = files \cup {t, Resembles[t]}
  /\ written' = [written EXCEPT
       ![t] = Raw(Resembles[t]),
       ![Resembles[t]] = IF Resembles[t] \in files THEN @ ELSE Raw(Resembles[t])]
  /\ Count("assetAliases")

RequestConfirmed(t) ==
  /\ Request(t)
  /\ targets' = targets \ {t}
  /\ asset' = t
  /\ UNCHANGED <<phase, linked, jobs, current, waveVars, diskVars, cancelled, fatal, report>>

(* The candidate is here, or its own capture is fetched first.              *)
RequestCopied ==
  /\ phase = "alternate pages"
  /\ asset # None
  /\ asset' = None
  /\ Copy(asset)
  /\ UNCHANGED <<phase, linked, jobs, current, waveVars, targets, cancelled, fatal>>

SourceUnavailable ==
  /\ phase = "alternate pages"
  /\ asset # None
  /\ Resembles[asset] \notin files
  /\ asset' = None
  /\ UNCHANGED <<phase, linked, jobs, current, waveVars, diskVars, targets, cancelled, fatal,
                 report>>

RequestsEnd ==
  /\ phase = "alternate pages"
  /\ asset = None
  /\ cancelled \/ targets = {}
  /\ phase' = "asset aliases"
  /\ targets' = MissingAssets
  /\ UNCHANGED <<linked, jobs, current, waveVars, diskVars, asset, cancelled, fatal, report>>

(* create_missing_static_asset_aliases: an asset is copied from its local   *)
(* candidate, or left when the page does not refer to that one too.         *)
AliasAsset(t) ==
  /\ phase = "asset aliases"
  /\ ~ cancelled
  /\ t \in targets
  /\ targets' = targets \ {t}
  /\ \/ Resembles[t] \in files /\ Copy(t)
     \/ UNCHANGED <<diskVars, report>>
  /\ UNCHANGED <<phase, linked, jobs, current, waveVars, asset, cancelled, fatal>>

(* Reading the saved pages, or writing an alias, fails.                     *)
AliasPassFails ==
  /\ phase \in {"page aliases", "asset aliases"}
  /\ Abort("transfer")
  /\ UNCHANGED <<linked, jobs, current, waveVars, diskVars, assetVars, cancelled, report>>

\* Not the code: a run cancelled since the listing returns its report as it is.
FinishSilently ==
  /\ phase = "asset aliases"
  /\ cancelled \/ targets = {}
  /\ phase' = "done"
  /\ report' = [report EXCEPT
       !.assetsUnavailable = IF @ > report.assetAliases THEN @ - report.assetAliases ELSE 0]
  /\ UNCHANGED <<linked, jobs, current, waveVars, diskVars, assetVars, cancelled, fatal>>

\* Not the code: more aliases than unavailable assets take the count below zero.
FinishUnsaturated ==
  /\ phase = "asset aliases"
  /\ cancelled \/ targets = {}
  /\ phase' = "done"
  /\ report' = [report EXCEPT
       !.assetsUnavailable = @ - report.assetAliases,
       !.cancelled = IF cancelled THEN @ + 1 ELSE @]
  /\ UNCHANGED <<linked, jobs, current, waveVars, diskVars, assetVars, cancelled, fatal>>

(* The report is returned; a run cancelled since the listing says so.       *)
Finish ==
  /\ phase = "asset aliases"
  /\ cancelled \/ targets = {}
  /\ phase' = "done"
  /\ report' = [report EXCEPT
       !.assetsUnavailable = IF @ > report.assetAliases THEN @ - report.assetAliases ELSE 0,
       !.cancelled = IF cancelled THEN @ + 1 ELSE @]
  /\ UNCHANGED <<linked, jobs, current, waveVars, diskVars, assetVars, cancelled, fatal>>

Work ==
  \/ CancelledJob
  \/ SkippedJob
  \/ StartJob
  \/ JobEnds
  \/ PassEnds
  \/ NextWave
  \/ WavesEnd
  \/ \E u \in Urls : AlreadyKnown(u)
  \/ \E u \in Urls : LinkFound(u)
  \/ \E u \in Urls : LinkUnavailable(u)
  \/ \E u \in Urls : LookupFails(u)
  \/ WaveResolved
  \/ PageAliases
  \/ \E t \in Paths : StartAsset(t)
  \/ AssetRecovered
  \/ AssetUnavailable
  \/ AssetFails
  \/ AssetsEnd
  \/ \E t \in Paths : RequestUnconfirmed(t)
  \/ \E t \in Paths : RequestConfirmed(t)
  \/ RequestCopied
  \/ SourceUnavailable
  \/ RequestsEnd
  \/ \E t \in Paths : AliasAsset(t)
  \/ AliasPassFails
  \/ Finish

Next == Work \/ Cancel

(* The task that runs download_site keeps running; nobody has to cancel it. *)
Fairness == WF_vars(Work)

Spec == Init /\ [][Next]_vars /\ Fairness
=============================================================================
