# A TLA+ model of webarchive-downloader-rust

The program rebuilds a web site from the Wayback Machine. It asks the CDX index
which captures exist, downloads one archived file after another, rewrites the
links of pages and stylesheets so that the copy can be browsed locally, follows
the files they refer to, fills gaps with aliases and recovered assets, and
reports what it did. Runs last for days: the archive limits requests, times out
and drops connections, the process is interrupted and started again. What can go
wrong is in the interplay of retries, pacing, routes, captures, the journal and
cancellation, and that is what these modules describe. Source paths below are
relative to the repository's root; `src/cdx.rs` is the crate's file.

## 1. The system

| Part | Code | State it keeps | Operations |
|---|---|---|---|
| HTTP client, SSH fallbacks | `wayback_client.rs`, `retry.rs` | active route; per fallback a tunnel, a retry deadline, a failure count | `activate_ssh`, `recover_from_active_ssh_failure`, `activate_ssh_from`, `SshFallback::client`, `mark_failed` |
| CDX pacing | `cdx.rs`, `CDX_COOLDOWN` | two deadlines, throttle score, spacing, successes, a reset flag | `reserve_cdx_request_at`, `remember_cdx_cooldown`, `_success`, `_rate_limit` |
| CDX lookups | `cdx.rs` | attempt counters, the records of the body being read | `fetch_latest_records`, `fetch_all_records`, `send_cdx_request` |
| Snapshot fetch | `downloader.rs` | capture in use, captures seen, attempts, temporary file | `download_record_to_file`, `_limited`, `fetch_record_bytes*`, `find_alternate_snapshot_record` |
| Recovery journal | `recovery.rs` | `captures.jsonl`, the map of saved captures, the cache of lookups | `open`, `record`, `references`, `lookup` |
| Saving one file | `downloader.rs` | output files | `download_one` |
| Download run | `downloader.rs` | known and seen paths, jobs, references of the wave, report | `download_site` and the passes it calls |
| Output repair | `downloader.rs` | as the last passes of a run | `repair_output_dir`, `repair_local_links` |
| Alias search | `alias_repair.rs` | output files | `create_missing_topic_aliases`, `create_missing_directory_aliases` |
| Mapping, rewriting, extraction, validation, detection, decoding | `pathmap.rs`, `rewrite.rs`, `download_refs.rs`, `link_validation.rs`, `soft_redirect.rs`, `noise.rs`, `text_encoding.rs`, `javascript.rs`, `css_refs.rs`, `html_attrs.rs` | none | functions over text |
| Summary, command line | `output_summary.rs`, `main.rs` | the `CancellationFlag` | `run`, `spawn_ctrl_c_handler` |

How they interact. `download_site` calls `download_one` for each job and awaits
it; `download_one` calls the fetch loops, `find_usable_capture`, the rewriting
and the journal. Every fetch and every lookup sends its requests through one
`WaybackClient`, and on a failure asks it for another route. All lookups share
`CDX_COOLDOWN`. The first Ctrl-C sets a flag that jobs, passes and retry waits
look at; the second ends the process.

What is hard:

* **Concurrency** is small: one download at a time, a signal handler beside it,
  ssh children, and the archive. State spread over several mutexes must agree.
* **Failure and retry** is most of the code: four nested loops (body reads,
  requests, routes, captures), each with counters that the others reset.
* **Time**: deadlines of a day, a cooldown shared by unrelated lookups.
* **Crash and restart**: the journal is append-only and written after the file.
* **Cancellation** may come at each await.
* **Termination**: pages link in cycles, captures overlap, aliases create files
  with references of their own.

What makes each part correct:

* client: one ssh child, the active route has a live tunnel, switching ends;
* pacing: spacing and every wait owed are kept; speed-up is earned;
* lookups: what may pass is retried (but for what `cdx_lost_body` shows), a lookup
  ends when a route works, and what it returns is the selection of one whole answer;
* fetch: whole files only, within the cap, every capture tried and none twice,
  a cancelled fetch ends, and an error page gives way to any usable capture;
* journal: the last saved capture of every path survives crashes and torn writes;
* saving: error pages never replace usable ones, `--no-clobber` holds, journal
  and disk agree;
* run: no path twice, no reference lost or looked up twice, each job counted, a
  cancelled run says so, and it ends;
* output directory: whatever runs, aliases and repairs follow each other, what
  was saved stays, links arrive at the files they mean, and a resumed run leaves
  nothing out.

## 2. Modules

| Module | What it is |
|---|---|
| `WaybackClient` | the HTTP client: routes, tunnels, cool-downs, the search for a fallback |
| `RetryDelay` | the delay functions shared by lookups and fetches |
| `CdxCooldown` | the operations on `CDX_COOLDOWN` |
| `CdxListing` | what the lines of an answer become: selection and order |
| `CdxSearch` | lookups; composes `CdxCooldown`, `CdxListing` and `WaybackClient` |
| `SnapshotFetch` | the three fetch loops; composes `RetryDelay` and `WaybackClient` |
| `UsableCapture` | the search for a usable capture of an error page, after the buffered loop of `SnapshotFetch` |
| `CaptureEvidence` | abstract: the last saved capture of every path |
| `RecoveryJournal` | the journal; implements `CaptureEvidence` |
| `SavePage` | `download_one` on disk and journal; composes `RecoveryJournal` |
| `DownloadRun` | `download_site` |
| `SiteMapper` | URLs, local paths, links and noise: functions of a URL alone |
| `TopicAliases` | which copies stand in for missing pages, which links the repair changes; uses `SiteMapper` |
| `ResumedRun` | interrupted downloads, resumed, with aliases and repairs, over one directory; uses `TopicAliases` |
| `OrderFacts` | lemmas about natural numbers: least elements, induction, recursive functions, sorting |
| `*_proofs` | theorems and proofs, of the module or instance they are named after; those of `SiteMapper` and `TopicAliases` stand in `ResumedRun_proofs` |
| `MC*` | instances for TLC, observers and properties that need them |

An operator or action has the name of its function, or of what one branch of it
does, and `PROJECT.json` gives the lines of each. Definitions introduced as
"Not the code" are mistakes the code does not make; each is substituted for the
definition after it to see that a property notices.

### WaybackClient

`active` is `ActiveWaybackClient`; `tunnel`, `retryIn` and `failures` are
`SshFallbackState`. The code changes them under the `active` mutex, held while a
tunnel starts, so there is at most one `search`, whose steps are the iterations
of `activate_ssh_from`. `switched` is the value those calls return. ssh is the
environment: a tunnel becomes ready, its child fails, or neither happens until
the timeout. Deadlines are kept as the time left until them. `failures` stops
where the delay stops depending on it.

### CdxCooldown and CdxSearch

One lookup follows another, as the program never has two. `pc` is where
`send_cdx_request` is: waiting for its slot, sent, reading the body, switching
routes, sleeping. Each answer of the archive is an action of its own. A blocked
route, chosen at the start, only refuses. `ReserveRequest` takes no step while a
deadline is ahead, which is the loop of `wait_for_cdx_request_slot`.

`Transient` are the failures that may pass: requests that time out or do not
connect, 429, 5xx, and bodies that time out or whose connection is lost ("read
error"). The observer `owed` of `MCCdxSearch` is the longest wait that a failure
has asked for: it is set when the failure is seen, before other routes are
tried, counts down with time, and is dropped when another route was found, as the
code then continues at once.

### CdxListing

A body is a sequence of lines, each a record or malformed. `chosen` is the map
`records_by_url` of a discovery, `records` the vector of any other lookup; both
are locals of the functions that read a body, so that `Discard` empties them when
the body breaks off. Originals are numbered in the order of their spelling and
`Canonical` is what they are without their fragment. Timestamps have the fixed
width of CDX and are compared as numbers. `SortedByOriginal` and `SortedByStrategy`
are what `sort_by` promises, a rearrangement in which nothing precedes what it is
to follow; which of the equal ones comes first is left open. The splitting of a
line into fields is left out.

### SnapshotFetch

`mode` chooses among `download_record_to_file`, its `_limited` form, and
`fetch_record_bytes_with_alternate_capture`. They share their actions, and
differ in three places: the cap, the temporary file, and that the buffered loop
does not leave a capture it cannot read. `nature` fixes what each capture is
like: good, longer than the cap, missing, or never readable. `Targets` and
`Listing` are what `fallback_capture_targets` and the index return. A CDX lookup
inside the fetch shows as the state "looking up", in which the route may change.

`VariantsAgreeAssumption` says that captures found through one spelling of a URL
are indexed like the others: exact lookups of the Wayback index canonicalize the
URL. Without it, a fetch that has moved to another spelling would search that
spelling's captures and not come back to the first one's.

### UsableCapture

`hunt` is where `find_usable_capture` is: URLs to look up, captures still to try,
digests already seen, and the capture that is kept. `Inspect` begins it after a
buffered fetch that saved an archived error page. An `"error"` page is one that
`is_unusable_html_capture` recognises, a `"foreign"` one does not mention the
site. The fetch of a candidate is one step, which may fail whatever the candidate
is like; it is the loop of `SnapshotFetch` without the switch to other captures.
Captures with one digest have one body.

### RecoveryJournal and CaptureEvidence

The file is its terminated lines and the tail after the last newline, which an
interrupted `write_all` leaves: nothing, a cut entry, or a whole entry without
its newline. `open` closes a torn tail with a newline; a whole entry then counts,
a cut one is skipped. An append that fails inside a running process leaves such a
tail too, and the next entry of that process is written behind it on the same
line and is lost at the next start. `CaptureEvidence` allows that, and only
that, by `Doubt` and `WhileDoubtful`.

### SavePage

One job at a time, `job.step` naming the await or the call it has reached. Paths
of `Pages` are buffered, inspected and journalled; the others are streamed. A
fetch returns any capture, which covers both a replay of the selected one and
whatever `find_usable_capture` puts in its place. `StartRun` takes any options,
`Stop` may come at every step, also in the middle of an append. Where the
references of a file that is there cannot be read, the job fails before it
(`SkipFails`) or after the inspection (`ReferencesFail`). CSS follows the path of a
page whose captures are all usable.

### DownloadRun

`download_one` is abstracted to the status it returns. URLs, their paths, their
equivalents, the links of each file and what the index returns are constants, so
that the model is the run's own bookkeeping: `known`, `seen`, `checked`, `refs`,
the jobs of a pass, the counters, and `written`, the targets that files on disk
point to. It is the run with rewriting on, the default (`main.rs:238`); `--no-rewrite`
ends after the primary jobs. `linked` is whether an extra-download size is set. Topic and directory
aliases (`alias_repair.rs`) are copies made for any of the missing pages.

### SiteMapper

URLs are parsed: labels of the host, segments of the path, pairs of the query. A
name of a file is the parts between its dots and the canonical query that
`append_query_hash` hashes, so that two paths are equal when the program's are,
up to a collision of the hash. `LocalPath`, `KnownPath`, `Candidates`,
`RelativeLink`, `ResolveLocal`, `LinkTarget` and `IsNoise` translate the functions
of `pathmap.rs`, `rewrite.rs`, `link_validation.rs`, `download_refs.rs` and
`noise.rs` with their tables of extensions, types and keys. What happens to the
letters of a part (`sanitize_segment`, percent escapes) are the constants
`Clean`, `Decoded` and `Encoded`. Hosts with a trailing dot, user names in URLs,
keys in upper case and the wrappers of `unwrap_wayback_url` are left out. `IsUrl`,
`IsPath` and `IsReference` say what these records are made of.

### TopicAliases

From the files and what is read in the HTML ones (title, posts, links) to the
copies that `create_missing_topic_aliases` and `create_missing_directory_aliases`
may make, and to the links that `repair_local_navigation_html` changes. A
fragment is the post it names, a list row the links that stand in it. Where the
code takes the first of several files in the order of their paths, the model
takes a fixed one. A page with a `<base>` is not modelled.

### ResumedRun

The invocations of the program over one directory. `StartDownload`,
`StartOutputRepair` and `StartRepair` begin one, `Kill` ends it anywhere, `Cancel`
is the first Ctrl-C, `MissedJob` a download that fails. A download has the jobs
and waves of `download_site`, with `resumed_references` for files that exist, and
then the alias passes; the repair of links rewrites one file after another. A file
is the capture it was made of, its links as they were and as they became, and
whether it is whole, torn or empty: `write_bytes_atomic` leaves only whole ones,
an alias that is written in place may be cut short and then has any part of its
source's links (`KillWhileCopying`); which of its posts are left is not modelled,
as the source beside it has them all. The
journal is the map that `CaptureEvidence` promises; its own failures are left to
`SavePage`, and static assets to `DownloadRun`. The loops over the listing
(`filter_archive_noise`, the jobs of `download_site`) are recursive functions,
`KeptRecords` and `SelectedJobs`, of the number of records they have seen.

## 3. Runs

| Run | Instance | Shows |
|---|---|---|
| `routes` | 3 fallbacks, delays 2, 4, 5 | `OneSshChild`, `RoutesAgree`, `SwitchEnds` |
| `cdx_search` | 1 fallback, delays 1, 2, 3, spacing 1 and 2, 3 bodies | `RequestsApart`, `NoRequestWhileOwed`, `SpeedupIsEarned`, `OnlyLostBodiesAreFinal`, `ListingIsSelection`, `ChosenIsBest`, `LookupsEnd` |
| `snapshot_fetch` | 3 captures under 3 URLs, 1 fallback | `UnavailableMeansAllTried`, `NoCaptureTwice`, `DestinationIsWhole`, `CapHolds`, `UsableIsFound`, `CancelledFetchEnds`, `StreamLeavesUnreadable` |
| `save_page` | a page and an image, a usable and an unusable capture, 2 lines | `KeepsEvidence` (refinement), `MemoryIsJournal`, `UsableStays`, `NoClobberKeeps`, `EvidenceNamesTheFile`, `EvidenceWasOnDisk` |
| `download_run` | 8 URLs, 5 paths | `NoPathTwice`, `NoReferenceTwice`, `NoReferenceLost`, `EveryJobCounted`, `CancelledRunsSaySo`, `RunEnds` |
| `resume` | a forum of 6 pages, a photo and a text file, 3 runs, 2 incidents | `EvidenceHolds`, `ResumeLosesNothing`, `LinksArrive`, `AliasesFillGaps`, `RepairSettles` |

Six more runs show where the program does not do what the README says:

| Run | The README | The code |
|---|---|---|
| `cdx_long_cooldown` | shorter probes follow a day-long cooldown (414-416) | the attempt counter of the waiting request is not reset, so its next failure waits a day again |
| `cdx_lost_body` | timeouts and connection errors are retried indefinitely, for CDX lookups too (394-399) | any failure in the body of the first discovery ends the run (`cdx.rs:185`), and a connection lost while the body arrives is no `is_cdx_connectivity_error` and ends any other lookup (`cdx.rs:259`) |
| `snapshot_unreadable` | repeated body failures trigger alternate captures (365) | not for pages, which are buffered |
| `snapshot_ctrl_c` | Ctrl-C stops after the current requests (224) | a fetch that keeps finding another route never looks at the flag |
| `download_ctrl_c` | the report is still printed (224-226) | Ctrl-C in the retry wait of an asset ends the run with an error |
| `resume_ctrl_c` | an interrupted run is completed by running it again (81) | Ctrl-C between waves still makes topic aliases: a copy of another topic becomes the file of one that was not downloaded yet, and later runs skip it |

### Bounds, and why they are enough

* Time is counted in units. The delays of an instance keep the shape of the real
  ones: a backoff that grows and reaches its maximum, a spacing that reaches its
  own, a cooldown longer and shorter than the delay of a caller. `MaxRetryShift`
  and `MaxSshShift` stop the counters where the delays stop growing.
* Three fallbacks let a search pass over one, fail at one and succeed at one. One
  is enough for a request loop, which only sees whether a switch succeeded.
* Three captures: the selected one, one under another spelling that is over the
  cap by its CDX length, one found only through the normalized URL. Lists overlap
  and point back to captures already seen.
* `Retry-After` is shorter or longer than the backoff in `cdx_search`, and longer
  than the maximum in `snapshot_fetch`.
* The bodies of `cdx_search` have two records of one URL in either order, with
  and without a tie of their times, a line that comes twice, and a line that
  cannot be parsed after one that can. Any of them may break off after any line,
  and be followed by another.
* In `snapshot_fetch` the selected capture has no digest and the other two share
  one, so that the failure of either must not hide the other.
* A journal of two lines lets a page be replaced after it was journalled, and a
  torn line stand before or after a whole one. The proofs have no such bound.
* `download_run` has two spellings of one topic, two listed URLs with one path, a
  URL whose record has another URL, a URL with no record, references that come
  back in a later wave, a cycle, and an asset with a candidate for an alias.
* The forum of `resume`, at example.org, has its home page, a press page and a
  photo in the listing. Two topics, one of them spelled with www and a session, a
  text file on files.example.org, a script and a print view are only reached by
  links, one pair of them in a cycle; some links lead to topics that the archive
  lacks and for which a post, a title or a row tells a stand-in. The path guessed
  from the address is wrong for the photo, which the listing knows, and for the
  text file, which it does not. Three runs are an interrupted one, one that resumes
  it and one more, or a repair between or repeated after; two incidents are any
  two of a miss, a Ctrl-C and a crash.
* The runs of `ResumedRun` use the strategy "latest" of the listing as given;
  `cdx_search` uses "latest" too, and the proof of `ChosenIsBest` covers both.

Deadlock is checked in `routes` and `cdx_search`, which never stop. The others
end: a fetch and a run when they are done, the journal at its line bound, `resume`
after its last run.

### Fairness

* `WaybackClient`: the search's own steps are taken and time goes on. ssh owes
  no answer: a tunnel that says nothing is given up at its timeout.
* `CdxSearch`, `SnapshotFetch`: the task is scheduled (weak fairness of
  `Program`), a request ends, if only by the client's timeout (weak fairness of
  `Answer`, whatever the answer), and time goes on. Which answer comes is free.
  Where a property needs the archive to serve a request or ssh to start when
  asked often enough, the assumption is in the property (`LookupsEnd`,
  `StreamLeavesUnreadable`). So is, where the code gives no better, that the
  fetch stops finding SSH routes (`CancelledFetchEnds`).
* `DownloadRun`: the task keeps running, and each lookup or transfer returns. Nobody
  has to press Ctrl-C.
* `RecoveryJournal`, `SavePage` and `ResumedRun` promise safety only.

## 4. Proofs

Proved with TLAPS for every value of the constants, from the named assumptions of
each module.

* `WaybackClient_proofs`: `RouteTypeCorrect`, `RoutesAlwaysAgree`,
  `AtMostOneSshChild`, for any number of fallbacks. `RoutesAgree` is not
  inductive as it stands: when a tunnel becomes ready nothing in it says that no
  other route is in use.
  The invariant adds that the client is on the direct route while it searches,
  so that no tunnel is established, and that a fallback being started is not
  cooling down. `OneSshChild` follows from it.
* `RecoveryJournal_proofs`: `JournalTypeCorrect`, `MemoryMatchesJournal`,
  `JournalKeepsEvidence`, for journals of any length. The core is the lemma that
  reloading a journal with one more line equals inserting that line in what was
  loaded before (`ReloadAppended`). The refinement maps `OpenJournal` to a
  stutter or to `Settle`, a successful `Record` to `Save` or a stutter, a failed
  one to `Doubt`, and a crash in the middle of an append to `Save` or a stutter by
  what is left in the tail.
* `SavePage_proofs`: `UsablePagesStay` and `ExistingFilesKept` rest on an
  invariant that ties the job to the disk: `existing` is what is on disk until
  the job stores, a job that is past the inspection of a page either holds a
  usable capture or found nothing to keep, and a job on an existing file was
  allowed by the options. `DownloadsUseTheJournal` shows each step of `SavePage`
  to be one of the journal or a stutter, and `DownloadsKeepEvidence` carries
  `KeepsEvidence` over.

  Two more invariants carry what the observers of `MCSavePage` see, for journals
  of any length: `JournalClaimsWereOnDisk` needs that not only the evidence but
  every line, the torn tail, the memory of the process and the entry about to be
  written name captures that were on disk (`DiskInv`); `JournalNamesTheFiles`
  needs that the entry being written names the file just put in place
  (`NamesInv`). `DownloadsTypeCorrect` is the type invariant.
* `CdxSearch_proofs`, for any bodies, delays, spacings and number of routes.
  `DiscoveryKeepsBest` adds to the invariant that lines already read were
  well-formed and that nothing is kept between two bodies. `LookupsUseTheRoutes`
  shows that a lookup changes the client's variables only by the client's own
  steps, so that its invariant can be used in `LookupsStayInRange`, the bounds of
  delays, spacing and counters. `RetriesNeverEnd` (`OnlyLostBodiesAreFinal`) needs
  only what each action does to `result`.

  Three theorems are about time as an observer sees it. `RequestsNeverCrowd`
  (`RequestsApart`) needs that the time since the last request and the time left of
  the pacing deadline make up the least interval (`PacingInv`).
  `CooldownsAreHonoured` (`NoRequestWhileOwed`) needs that what is owed is covered
  by the delay a lookup holds while it tries other routes, by the shared cooldown
  or by the sleep of the lookup, whichever is longest, and that nothing is owed
  once a request is out (`CoverInv`). `SpacingIsEarned` needs
  that the program counts no more successes than were observed since the last 429
  (`EarnedInv`).

  `AnswersAreSelections` (`ListingIsSelection`) says of a whole answer what
  `DiscoveryKeepsBest` says of the map: nothing is missing, doubled or out of order.
  It needs that the vector is the lines read so far and that a lookup only succeeds
  at the end of a body (`ListingInv`), that both orders are total, and that a
  rearrangement in order exists (`SortingExists`), without which the `CHOOSE` of the
  sorted answers would mean nothing.
* `SnapshotFetch_proofs`, for any captures, listings, caps and fallbacks:
  `OnlyWholeFilesAreSaved` (with where a temporary file may exist), `CapAlwaysHolds`
  (each capture in use is the selected one or eligible), `CapturesAreTriedOnce`
  (what was asked for is in `seen`), `HuntFindsUsable` (each usable capture is kept,
  is still ahead in the queue or the lookups, or was lost; digests remembered
  belong to useless bodies, by `DigestAssumption` and `HuntInit`), and
  `UnavailableOnlyAfterAll` (an eligible capture of the selected one's URLs has been
  seen or is listed for the current one, which is where
  `VariantsAgreeAssumption` is needed). `FetchesUseTheRoutes` and
  `FetchesStayInRange` are as for the lookups.
* `DownloadRun_proofs`, for any site, listing and answers of the index.
  `RunsStayTyped` is the type invariant; that the unavailable counter does not wrap
  is part of it. `PathsDownloadedOnce` (`NoPathTwice`) needs that `seen_paths` is
  exactly what was begun and what is queued, and that no two jobs share a path
  (`JobsInv`). `ReferencesResolvedOnce` needs that the references of a wave are
  checked and those looked up are no longer pending (`WavesInv`).
  `ReferencesAllFollowed` (`NoReferenceLost`) has four parts: every reference seen
  is collected or checked, a known path is in `seen_paths`, a checked reference is
  pending or settled, and after the waves nothing is left unchecked (`RefsInv`); with
  `JobsInv` a path that was seen was begun once the jobs are done. `ReportAddsUp`
  (`EveryJobCounted`) needs that what has ended and what is in hand make up the
  listing and what the waves queued (`CountInv`), in a run that was cut short
  during the listing as in any other. `CancelledRunsAreTold` (`CancelledRunsSaySo`)
  is the other half: the cancelled count is not zero exactly if the run was.
* `ResumedRun_proofs`, for any site, listing and archive and any number of runs and
  incidents. Lemmas about `SiteMapper` and `TopicAliases` come first: what the
  mapper makes of URLs are paths and references (`LocalPathShape`, `JoinShape`,
  `ResolveShape` and others), `LinkReachesTarget`, that a relative link resolves to
  the path it was made for if decoding changes no part, `SpellingsShareAPath`, that
  URLs of primary hosts which differ in scheme, port, www and volatile pairs of the
  query have one path (`CanonicalSelects`: the canonical query is its other pairs), and
  `AliasesKeepRelativeLinks`, that a topic alias is beside its source. From them:
  * `ResumedRunsStayTyped`, with the shapes of links and jobs that `TypeOK` leaves
    out and that every other proof needs (`TInv`);
  * `SavedFilesStay` (`EvidenceHolds`). The invariant adds the window between a
    file and its entry; the lemmas are that aliases are only made where there is no
    file and that a job only stores where there is none or an empty one;
  * `ListedPagesAlwaysArrive`, the part of `ResumeLosesNothing` that needs no
    hypothesis: while a download meets no trouble each listed path has a file or a
    job (`ComingInv`), no job is left after the pass (`PassInv`), and what is stored
    is a file until it is recorded (`StoredInv`);
  * `RepairLeavesNothing` (`RepairSettles`). The repair removes no file and adds
    none, a repaired link leads to a file (`RepairedLinkArrives`), and pages off the
    shelf have nothing to repair (`RepairInv`);
  * `LinksAlwaysArrive` (`LinksArrive`), with no hypothesis on what the code guesses.
    A link may lead to the path of a capture of its address, in any spelling, or to
    the guessed path, but to that only if the listing lacks the address
    (`MeantPaths`); what a reader opens there allows for percent escapes and for a
    repair to the HTML file of a script (`Opened`). Inductive are: URLs in hand are
    URLs (`RefsTyped`); a path is known for a URL because of a capture that the index
    does not tell from it (`KnownInv`); what the listing knows is never forgotten
    (`ListedInv`); and the links of every file, alias and torn copy included, are
    links of its page and lead where they may (`LinkInv`).
  * `ResumedRunsLoseNothing` (`ResumeLosesNothing`) and `AliasesOnlyFillGaps`
    (`AliasesFillGaps`), for sites whose addresses tell captures apart
    (`OnePathEach`) and whose links open what they are meant for (`LinksAreClear`).

  The argument for the last two. What a run finds is what earlier runs left behind:
  entries of the journal, and links, as they were or as they were rewritten. From
  these a later run must get to everything that any earlier run reached, although it
  skips files that exist and does not fetch them again. `Led` is where a kept file
  leads: to what its entry and its absolute links refer to (`Recalled`) and to the
  journalled pages that its links open (`Opens`). The invariant `ReachInv` says
  that every set of paths that holds the listed ones and is closed under `Led` holds
  every journalled path. In this form no chain of links has to be followed: a step is
  checked against one closed set. It rests on three others:
  * `HandInv`: references, jobs and entries are captures at their own paths, and
    known paths are seen;
  * `GuessInv`: if a link opens no file, the URLs that are guessed from it lead to
    the path it opens, or nowhere;
  * `FreshInv`: a page that was just stored opens no archived page but those that are
    seen or that it refers to.

  While a download meets no trouble (`Smooth`), `SmoothInv` holds: a path seen has a
  file or a job, what the file of a seen path leads to is seen or among the
  references, a reference that was checked was reached or is pending, and after the
  waves nothing is unchecked. At the end `seen` is therefore closed, `ReachInv` puts
  every journalled path in it, and everything a journalled page refers to with it
  (`NothingIsLost`). `AliasesFillGaps` follows from `CalmInv`: as long as no incident
  happened each file is a whole page, at its own path if that is a capture's, and an
  archived page that its links open is there, listed, referred to or on its way, so
  that none is missing when aliases are made.

  The two hypotheses are facts about the site, which the code supposes and does not
  check. `MCResumedRun` has them as the assumption `MCClear`, which TLC finds true of
  the instance. `OnePathEach`: the primary hosts differ from the root host by www only,
  captures are of related hosts and are found under their normalized URL, captures of
  one address have one path, and a browser reads that path as it is written.
  `LinksAreClear`: as long as nothing is known of its target a link opens no archived
  page but a listed one or one that the page refers to, and the URLs guessed from the
  path it opens lead to that path or nowhere. Section 5 says where they fail.

What the proofs assume of the constants: `DecodingAssumption`, that the part "html"
is not changed when percent escapes are decoded, as it has none; `SiteAssumption`,
that captures have URLs and links that are URLs and references, and that no link
ends in the name of a script and a slash (section 5 says why); `SuffixAssumption`,
that `None` is no extension of a script; `PathsAssumption`, that `None` is no path,
neither of a capture nor of what a link guesses. Loops
over sequences and `CHOOSE` are reasoned about with `OrderFacts`: a set of numbers
has a least element (`LeastNumber`, from the well-foundedness of the order), so
that a set that holds 0 and is closed under successor holds every number
(`InductionUpTo`), and a function defined by recursion exists (`RecursionExists`)
and stays where its steps stay (`RecursionStays`). They speak of sets where an
induction theorem would take a predicate, which no installed prover instantiates.

Two properties were made stronger while proving them. `NoReferenceLost` used to
accept any known path; it now asks that the file of one of the spellings was tried,
or that the reference is counted unavailable. `ListingIsSelection` used to compare
sets; it now asks that a discovery has one record for each URL and that any other
lookup returns each line as often as it came.

Only model-checked: liveness (`SwitchEnds`, `LookupsEnd`, `CancelledFetchEnds`,
`StreamLeavesUnreadable`, `RunEnds`), which the prover does not support. Every safety
property that a passing run checks is also a theorem; `ResumeLosesNothing` and
`AliasesFillGaps` for the sites their hypotheses describe.

## 5. Not modelled

* Text processing: finding references, titles and posts, replacing links in HTML,
  CSS and JavaScript, recognising error pages, decoding. They keep no state; the
  models take their results as constants or as free choices.
* The characters of names: sanitizing and percent escapes are constants, the query
  hash is injective.
* The output summary, printing, exit codes, option parsing.
* The validation at the end of a run, which only reads.
* The run-local cache of lookups, which changes how often a lookup is sent and
  not what it returns.
* The asset passes of `repair_output_dir`, which are those of `download_site`
  (`DownloadRun`) over a listing of their own, and crashes inside those passes.
* Links that end in the name of a script and a slash, see below, and which posts
  are left in a torn alias.

Behaviour noticed while modelling, which no property judges:

* the wait of a CDX retry does not look at the cancellation (`cdx.rs:401`, README
  416-417);
* a cancelled search for an alternate capture is reported as an unavailable
  snapshot (`downloader.rs:2590`);
* aliases are copied in place, so a crash leaves a truncated, non-empty file that
  later runs keep (`alias_repair.rs:98`, `downloader.rs:1262`);
* a `Retry-After` is dropped when another route is found (`cdx.rs:379-386`): if the
  new route then fails and the client falls back, the direct route is asked again
  without the rest of the wait;
* a link to a file with no record yet points where its URL suggests
  (`rewrite.rs:141`): `<a href="photo.jpg">` becomes a link to `photo.jpg.html`. The
  file is stored where its recorded type says and the page is not rewritten.
  `LinksArrive` allows it, but only where the listing lacks the file;
* the repair of a link appends `.html` to its text (`link_validation.rs:553`), so
  that `faq.php/` becomes `faq.php/.html`, which is not the file it was found to mean;
* paths keep percent escapes literally, and links to them are not escaped again
  (`pathmap.rs:333`), so that a browser, and `resolve_local_reference`, look for
  another name;
* a file that was saved but not journalled before a crash is skipped later, and of
  its links to hashed paths no URL can be told (`downloader.rs:882`);
* a resumed run may leave out what an earlier one reached, on the sites that
  `OnePathEach` and `LinksAreClear` exclude: a page that is archived only with its
  session parameter is found by references that carry the session and not by the
  normalized URL; captures of one address with different recorded types have
  different paths; a link of a page that was not journalled may suggest the URL of
  another page than the one it leads to (`downloader.rs:856-902`,
  `downloader.rs:1917-1955`);
* the README says that pages of a resumed run are fetched again to discover what
  is missing (86-88); the code reads the journal and the saved file instead
  (`downloader.rs:856`);
* stylesheets recovered by the static pass are stored as they came and their own
  assets are not followed.

## 6. Plan

Everything of section 2 is written. What would add most next:

1. An abstract run (each reference is resolved, tried or given up, once), with
   `DownloadRun` shown to implement it.
2. The asset passes of the output repair, with crashes.
