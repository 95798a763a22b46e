---------------------------- MODULE MCDownloadRun ----------------------------
(* DownloadRun on a small site: two spellings of one topic that link in a   *)
(* cycle, two listed URLs with one path, a URL whose record has another URL,*)
(* one that is not archived, and an image that resembles a listed one.      *)
(* Observers remember what the run did.                                     *)
EXTENDS DownloadRun

MCPaths == {"index", "topic", "gone", "pic", "shot"}
MCUrls == {"home", "www home", "topic", "https topic", "old topic", "gone", "pic", "shot"}
MCDiscovered == <<"home", "www home", "shot">>

MCPathOf == [u \in MCUrls |->
  IF u \in {"home", "www home"} THEN "index"
  ELSE IF u \in {"topic", "https topic", "old topic"} THEN "topic"
  ELSE u]
MCGuessOf == MCPathOf
MCEquivalent == [u \in MCUrls |->
  IF u \in {"topic", "https topic"} THEN {"topic", "https topic"} ELSE {u}]
MCOriginal == [u \in MCUrls |->
  IF u = "gone" THEN None ELSE IF u = "old topic" THEN "topic" ELSE u]
MCLinks == [p \in MCPaths |->
  IF p = "index" THEN {"https topic", "old topic", "gone", "pic"}
  ELSE IF p = "topic" THEN {"home", "topic", "gone"}
  ELSE {}]
MCAssets == {"pic", "shot"}
MCResembles == [p \in MCPaths |-> IF p = "pic" THEN "shot" ELSE None]

VARIABLES
  begun,     \* paths whose job was taken up
  offered,   \* references that download_one has returned
  lookedUp,  \* references that were resolved
  gaveUp,    \* those counted as unavailable
  queued,    \* linked files that became jobs
  cutShort   \* the run ended with the listing, a job of which was cancelled

observers == <<begun, offered, lookedUp, gaveUp, queued, cutShort>>
mcVars == <<vars, observers>>

MCInit ==
  /\ Init
  /\ begun = {}
  /\ offered = {}
  /\ lookedUp = {}
  /\ gaveUp = {}
  /\ queued = 0
  /\ cutShort = FALSE

TakesJob == jobs # <<>> /\ jobs' = Tail(jobs)
Resolves == phase = "resolving" /\ phase' = "resolving" /\ pending' # pending
Resolved == pending \ pending'

Observe ==
  /\ begun' = IF TakesJob THEN begun \cup {Head(jobs).path} ELSE begun
  /\ offered' = IF TakesJob \/ current # NoJob THEN offered \cup refs' ELSE offered
  /\ lookedUp' = IF Resolves THEN lookedUp \cup Resolved ELSE lookedUp
  /\ gaveUp' = IF Resolves /\ report' # report THEN gaveUp \cup Resolved ELSE gaveUp
  /\ queued' = IF Len(jobs') > Len(jobs) THEN queued + 1 ELSE queued
  /\ cutShort' = (cutShort \/ (phase = "primary" /\ phase' = "done"))

MCNext == Next /\ Observe

MCSpec == MCInit /\ [][MCNext]_mcVars /\ Fairness

-----------------------------------------------------------------------------
TypeOK ==
  /\ phase \in {"primary", "waves", "resolving", "linked jobs", "page aliases", "assets",
                "alternate pages", "asset aliases", "done", "failed"}
  /\ linked \in BOOLEAN /\ cancelled \in BOOLEAN
  /\ jobs \in Seq([url : Urls, path : Paths])
  /\ current \in [url : Urls, path : Paths] \cup {NoJob}
  /\ refs \cup pending \cup checked \subseteq Urls
  /\ known \in [Urls -> Paths \cup {None}]
  /\ seen \cup files \cup targets \subseteq Paths
  /\ written \in [Paths -> SUBSET Paths]
  /\ asset \in Paths \cup {None}
  /\ fatal \in {None, "connectivity", "transfer", "cancelled"}
  /\ report \in [Counters -> Nat]

(* However references repeat, alias or form cycles, no local path is        *)
(* downloaded twice in a run, by the listing or by any wave of linked files *)
(* (seen_paths, src/src/downloader.rs:202-217, 1118-1126).                  *)
NoPathTwice == [][TakesJob => Head(jobs).path \notin begun]_mcVars

(* No reference is resolved twice in a run, so an unavailable one is looked *)
(* up and counted once (checked_references, src/src/downloader.rs:288-292). *)
NoReferenceTwice == [][Resolves => Resolved \cap lookedUp = {}]_mcVars

(* When a run with linked files is not cancelled, every reference of every  *)
(* page it saved or kept has had the file of one of its spellings tried, or *)
(* is counted unavailable: the waves end only when nothing is left to       *)
(* follow (src/src/downloader.rs:284-367).                                  *)
NoReferenceLost ==
  phase = "done" /\ linked /\ ~ cancelled =>
    \A u \in offered : u \in gaveUp \/ \E v \in Equivalent[u] \cup {u} : known[v] \in begun

(* The report of a run accounts for every URL of the listing and every      *)
(* linked file exactly once, whenever the run is cancelled; one cancelled   *)
(* after the listing adds one to its cancelled count (download_site).       *)
EveryJobCounted ==
  LET ended == report.downloaded + report.skipped + report.failed + report.unavailable
               + report.cancelled
      stopped == IF cancelled /\ ~ cutShort THEN 1 ELSE 0
  IN  phase = "done" => ended = Len(Discovered) + queued + stopped

(* A report that counts nothing as cancelled is one of a run that nobody    *)
(* cancelled, wherever the cancellation would have come: after the last job *)
(* of the listing it leaves no job to count (src/src/downloader.rs:286,     *)
(* 441), and main.rs:238 tells a stopped run from a finished one by it.     *)
CancelledRunsSaySo == phase = "done" => (report.cancelled > 0 <=> cancelled)

(* A run ends, whatever cycles its pages form, once every lookup and every  *)
(* transfer it makes returns.                                               *)
RunEnds == <>(phase \in {"done", "failed"})

-----------------------------------------------------------------------------
(* "The final report still prints the output size and biggest files" after  *)
(* Ctrl-C (src/README.md:224-226): a cancellation is not a fatal error.     *)
CtrlCStillReports == fatal # "cancelled"
=============================================================================
