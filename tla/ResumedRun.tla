------------------------------ MODULE ResumedRun ------------------------------
(***************************************************************************)
(* Several invocations of the program over one output directory: downloads  *)
(* without --overwrite that are interrupted and resumed, the repair of the  *)
(* output (--repair-output) and the offline repair of links                 *)
(* (--repair-local-links). Composes the mapping of URLs to paths, the alias *)
(* search and the recovery journal with the passes of download_site         *)
(* (src/src/downloader.rs) over pages with their links.                     *)
(*                                                                          *)
(* A capture is [url, mime, title, posts, usable, links], a link [ref, kind,*)
(* text, post, row] as the page was written. A file holds the bytes of a    *)
(* capture with its links rewritten; an alias holds those of another path.  *)
(***************************************************************************)
EXTENDS TopicAliases

CONSTANTS
  Listing,     \* the captures of the primary listing, in its order
  Archive,     \* every capture that can be fetched
  Incidents,   \* what may go wrong: "cancel", "miss", "kill"
  MaxIncidents,
  MaxRuns

ASSUME ArchiveAssumption ==
  /\ Listing \in Seq(Archive)
  /\ None \notin Archive
  /\ MaxIncidents \in Nat /\ MaxRuns \in Nat

(* No link ends in the name of a script and a slash: RepairedRef adds to the*)
(* name, and the code to the text, after the slash.                         *)
ASSUME SiteAssumption ==
  \A c \in Archive :
    /\ IsUrl(c.url)
    /\ \A link \in c.links :
         /\ IsReference(link.ref)
         /\ link.ref.kind = "local" /\ link.ref.slash /\ link.ref.down # <<>> =>
              Extension(DecodedName(LastOf(link.ref.down)).parts) \notin ScriptExtensions

VARIABLES
  phase,     \* what the program does; "idle" before it starts and when killed
  pass,      \* what the run is at: "primary" or "linked" jobs, or "repair"
  jobs,      \* DownloadJobs left, [record, path]
  refs,      \* extra_download_refs
  pending,   \* references of this wave that are still to be looked up
  checked,   \* checked_references, normalised
  known,     \* known_paths
  seen,      \* seen_paths
  shelf,     \* the HTML files listed when a pass over them began
  cancelled, \* CancellationFlag
  gaps,      \* "cancelled", "missed": what happened to jobs of this run
  disk,      \* files by path: [of, links, state]
  evidence,  \* the journal: the capture last saved at each path
  incidents,
  runs

processVars == <<pass, jobs, refs, pending, checked, known, seen, shelf, cancelled, gaps>>
diskVars == <<disk, evidence>>
vars == <<phase, processVars, diskVars, incidents, runs>>

PathOf(c) == LocalPath(c.url, c.mime)

(* The records that are not noise.                                          *)
AddRecord(kept, c) == IF IsNoise(c.url, c.mime) THEN kept ELSE Append(kept, c)
KeptRecords[k \in 0..Len(Listing)] ==
  IF k = 0 THEN <<>> ELSE AddRecord(KeptRecords[k - 1], Listing[k])
Records == KeptRecords[Len(Listing)]

ListedPaths == RecordsToPaths(Records)
Job(record, path) == [record |-> record, path |-> path]

(* One job for each path of the listing.                                    *)
AddJob(selected, c) ==
  LET path == ListedPaths[Normalized(c.url)]
  IN  IF \E i \in DOMAIN selected : selected[i].path = path THEN selected
      ELSE Append(selected, Job(c, path))
SelectedJobs[k \in 0..Len(Records)] ==
  IF k = 0 THEN <<>> ELSE AddJob(SelectedJobs[k - 1], Records[k])
PrimaryJobs == SelectedJobs[Len(Records)]

PrimaryPaths == {PrimaryJobs[i].path : i \in DOMAIN PrimaryJobs}
Places == PrimaryPaths \cup {PathOf(c) : c \in Archive}

(* records_by_local_path: the first record of a path.                       *)
ListedOriginal(path) ==
  LET at == {i \in DOMAIN Records : PathOf(Records[i]) = path}
  IN  IF at = {} THEN None ELSE Records[CHOOSE i \in at : \A j \in at : i <= j].url

(* What the index answers for a URL, whatever its scheme and www.           *)
Surt(url) == [url EXCEPT !.scheme = None, !.host = Bare(@)]
Answers(url) == {c \in Archive : Surt(c.url) = Surt(url)}

(* find_extra_download_record: the URL as given, then normalised.           *)
Found(url) ==
  IF Answers(url) # {} THEN CHOOSE c \in Answers(url) : TRUE
  ELSE IF Answers(Normalized(url)) # {} THEN CHOOSE c \in Answers(Normalized(url)) : TRUE
  ELSE None

(* Where a link leads as long as no record is known for it.                 *)
GuessedPath(c, link) ==
  LET u == Join(c.url, link.ref) IN LocalPath(u, GuessedType(c.url, u, link.kind))

ASSUME PathsAssumption ==
  None \notin Places \cup UNION {{GuessedPath(c, link) : link \in c.links} : c \in Archive}

DecodedPath(path) == [i \in DOMAIN path |-> DecodedName(path[i])]
Suffix(p) == Extension(LastOf(p).parts)

(* The URLs an unhashed path may stand for.                                 *)
UnhashedOriginals(target, query) ==
  LET parts == LastOf(target).parts
      script == /\ Len(parts) > 2 /\ LastOf(parts) = "html"
                /\ parts[Len(parts) - 1] \in ScriptExtensions
      path == IF script THEN Append(FrontOf(target), Name(FrontOf(parts))) ELSE target
  IN  IF \E i \in DOMAIN target : target[i].hash # None THEN {} ELSE Candidates(path, query)

(* Where a link to a page of the site may lead: to the path of a capture of *)
(* the page's address in any of its spellings, or to the path guessed from  *)
(* the address, which is another one where the recorded type is not the one *)
(* guessed, but to that only if the listing does not have the address.      *)
MeantPaths(c, link) ==
  LET u == Join(c.url, link.ref)
      kin == {e \in Archive : \E key \in {Normalized(u)} \cup Spellings(u) :
                                Surt(Normalized(e.url)) = Surt(key)}
  IN  {PathOf(e) : e \in kin}
        \cup (IF Normalized(u) \in DOMAIN ListedPaths THEN {} ELSE {GuessedPath(c, link)})

(* The files that a link to a path opens: a browser decodes the names in it,*)
(* which are those below the directories shared with the page, and the      *)
(* repair of links turns a script into the HTML file saved for it.          *)
ReadAs(path) ==
  {[i \in DOMAIN path |-> IF i <= k THEN path[i] ELSE DecodedName(path[i])] : k \in 0..Len(path)}
Opened(path) ==
  ReadAs(path) \cup {ToHtml(read) : read \in {q \in ReadAs(path) : Suffix(q) \in ScriptExtensions}}

(* The links to pages of the site, as [page, link], with what each may open.*)
SiteLinks ==
  UNION {{<<c, link>> : link \in {l \in c.links : WorthFollowing({Join(c.url, l.ref)}) # {}}} :
         c \in Archive}
MayOpen == [pl \in SiteLinks |-> UNION {Opened(path) : path \in MeantPaths(pl[1], pl[2])}]

References(c) == RelatedReferences(c.url, {link.ref : link \in c.links})

(* A site whose captures can be told apart by their addresses: those of one *)
(* address are of related hosts and share a path, which a browser reads as  *)
(* it is written, and are found under the address as it is normalised. A    *)
(* capture of another type is stored elsewhere, and one that has a session  *)
(* in its URL is only found by the references that have it too.             *)
OnePathEach ==
  /\ \A host \in PrimaryHosts : Bare(host) = Bare(RootHost)
  /\ \A c \in Archive :
       /\ IsRelated(c.url.host)
       /\ Answers(Normalized(c.url)) # {}
       /\ DecodedPath(PathOf(c)) = PathOf(c)
       /\ \A e \in Archive : Surt(Normalized(e.url)) = Surt(Normalized(c.url)) => PathOf(e) = PathOf(c)

CapturePaths == {PathOf(c) : c \in Archive}
FoundPaths(urls) == {PathOf(Found(u)) : u \in {v \in urls : Found(v) # None}}
Referenced(c) == FoundPaths(References(c))

(* What a link of a page opens while nothing is known of its target.        *)
OpenedUnknown(c, link) ==
  LET target == LinkTarget(c.url, Join(c.url, link.ref), link.kind, <<>>)
  IN  IF target = None THEN ResolveLocal(PathOf(c), link.ref) ELSE DecodedPath(target)

(* The URLs guessed for a path lead there or nowhere.                       *)
LeadsBack(path, query) ==
  path \notin {None, <<>>} =>
    \A url \in WorthFollowing(UnhashedOriginals(path, query)) :
      Found(url) # None => PathOf(Found(url)) = path

(* A site where a link opens no archived page that the mirror might lack but*)
(* the one it is meant for, and the URLs that are guessed from what a link  *)
(* opens lead back there.                                                   *)
LinksAreClear ==
  \A c \in Archive : \A link \in c.links :
    LET u == Join(c.url, link.ref)
        kept == LinkTarget(c.url, u, link.kind, <<>>) = None /\ link.ref.kind = "local"
        open == OpenedUnknown(c, link)
    IN  /\ open \in CapturePaths => open \in PrimaryPaths \cup Referenced(c)
        /\ LeadsBack(open, IF kept THEN link.ref.query ELSE None)
        /\ \A e \in Archive, key \in {Normalized(u)} \cup Spellings(u) :
             Surt(Normalized(e.url)) = Surt(key) => LeadsBack(PathOf(e), None)

-----------------------------------------------------------------------------
\* Files.
Put(path, file) == [p \in DOMAIN disk \cup {path} |-> IF p = path THEN file ELSE disk[p]]
IsWhole(p) == p \in DOMAIN disk /\ disk[p].state = "whole"
IsOwn(p) == IsWhole(p) /\ PathOf(disk[p].of) = p

(* A page as it is saved: the link as it was and what it became.            *)
Saved(c, path, paths) ==
  [of |-> c, state |-> "whole",
   links |-> {[was |-> link, text |-> link.text, post |-> link.post, row |-> link.row,
               ref |-> Rewrite(c.url, path, link.ref, link.kind, paths)] : link \in c.links}]

(* What the alias passes and the repair of links list.                      *)
HtmlFiles == {p \in DOMAIN disk : Suffix(p) \in {"html", "htm"}}
RepairFiles == {p \in DOMAIN disk : Suffix(p) \in HtmlExtensions}

(* What is read in the files of the shelf; an empty file has nothing to read*)
(* and of a torn one the end is missing.                                    *)
Pages ==
  [p \in shelf |->
     [title |-> IF disk[p].state = "empty" THEN None ELSE disk[p].of.title,
      posts |-> IF disk[p].state = "whole" THEN disk[p].of.posts ELSE {},
      usable |-> disk[p].state # "empty" /\ disk[p].of.usable,
      links |-> disk[p].links]]

\* Not the code: only the links left in the file are followed.
ReferencesInFile(path) ==
  LET original(target) == IF ListedOriginal(target) # None THEN ListedOriginal(target)
                          ELSE IF target \in Places /\ evidence[target] # None
                          THEN evidence[target].url ELSE None
      local == {ref \in {link.ref : link \in disk[path].links} : ref.kind = "local"}
  IN  WorthFollowing({original(ResolveLocal(path, ref)) : ref \in local} \ {None})

(* The URLs a missing target may have had.                                  *)
GuessedOriginals(target, query) ==
  IF target \in DOMAIN disk THEN {} ELSE UnhashedOriginals(target, query)

(* resumed_references: of a file that is kept, the references of its entry  *)
(* in the journal and those its links still tell.                           *)
ResumedReferences(path) ==
  LET local == {ref \in {link.ref : link \in disk[path].links} :
                  ref.kind = "local" /\ ResolveLocal(path, ref) \notin {None, <<>>}}
      absolute == {link.ref.url : link \in {l \in disk[path].links : l.ref.kind = "absolute"}}
      originals(ref) ==
        LET target == ResolveLocal(path, ref)
        IN  IF ListedOriginal(target) # None THEN {ListedOriginal(target)}
            ELSE IF target \in Places /\ evidence[target] # None THEN {evidence[target].url}
            ELSE GuessedOriginals(target, ref.query)
      journalled == IF evidence[path] # None THEN References(evidence[path]) ELSE {}
  IN  WorthFollowing(journalled \cup absolute \cup UNION {originals(ref) : ref \in local})

-----------------------------------------------------------------------------
Init ==
  /\ phase = "idle"
  /\ pass = "primary" /\ jobs = <<>> /\ refs = {} /\ pending = {} /\ checked = {}
  /\ known = <<>> /\ seen = {} /\ shelf = {} /\ cancelled = FALSE /\ gaps = {}
  /\ disk = <<>>
  /\ evidence = [p \in Places |-> None]
  /\ incidents = 0
  /\ runs = 0

Ended == {"idle", "done", "aliased", "repaired"}

StartDownload ==
  /\ phase \in Ended
  /\ runs < MaxRuns
  /\ runs' = runs + 1
  /\ phase' = "jobs"
  /\ pass' = "primary"
  /\ jobs' = PrimaryJobs
  /\ known' = ListedPaths
  /\ seen' = PrimaryPaths
  /\ refs' = {} /\ pending' = {} /\ checked' = {} /\ shelf' = {}
  /\ cancelled' = FALSE
  /\ gaps' = {}
  /\ UNCHANGED <<diskVars, incidents>>

(* What the process knew is gone with it.                                   *)
Forget ==
  /\ pass' = "primary" /\ jobs' = <<>> /\ refs' = {} /\ pending' = {} /\ checked' = {}
  /\ known' = <<>> /\ seen' = {} /\ cancelled' = FALSE /\ gaps' = {}

Happens(incident) ==
  /\ incident \in Incidents
  /\ incidents < MaxIncidents
  /\ incidents' = incidents + 1

(* The first Ctrl-C.                                                        *)
Cancel ==
  /\ Happens("cancel")
  /\ phase \notin Ended \cup {"repairing"}
  /\ ~ cancelled
  /\ cancelled' = TRUE
  /\ UNCHANGED <<phase, pass, jobs, refs, pending, checked, known, seen, shelf, gaps,
                 diskVars, runs>>

(* The process ends at once: a second Ctrl-C, a signal, a crash.            *)
Kill ==
  /\ Happens("kill")
  /\ phase \notin Ended
  /\ phase' = "idle"
  /\ shelf' = {}
  /\ Forget
  /\ UNCHANGED <<diskVars, runs>>

-----------------------------------------------------------------------------
\* The jobs: download_one.
Downloading == phase = "jobs" /\ jobs # <<>>
Current == Head(jobs)
HasFile(path) == path \in DOMAIN disk /\ disk[path].state # "empty"

CancelledJob ==
  /\ Downloading
  /\ cancelled
  /\ jobs' = Tail(jobs)
  /\ gaps' = gaps \cup {"cancelled"}
  /\ UNCHANGED <<phase, pass, refs, pending, checked, known, seen, shelf, cancelled,
                 diskVars, incidents, runs>>

SkippedJob ==
  /\ Downloading
  /\ ~ cancelled
  /\ HasFile(Current.path)
  /\ refs' = refs \cup ResumedReferences(Current.path)
  /\ jobs' = Tail(jobs)
  /\ UNCHANGED <<phase, pass, pending, checked, known, seen, shelf, cancelled, gaps,
                 diskVars, incidents, runs>>

\* Not the code: the entry of a failed job counts as a save.
MissedJobRecorded ==
  /\ Downloading
  /\ ~ cancelled
  /\ ~ HasFile(Current.path)
  /\ Happens("miss")
  /\ evidence' = [evidence EXCEPT ![Current.path] = Current.record]
  /\ jobs' = Tail(jobs)
  /\ gaps' = gaps \cup {"missed"}
  /\ UNCHANGED <<phase, pass, refs, pending, checked, known, seen, shelf, cancelled,
                 disk, runs>>

(* Nothing can be fetched: the job fails or its snapshot is unavailable.    *)
MissedJob ==
  /\ Downloading
  /\ ~ cancelled
  /\ ~ HasFile(Current.path)
  /\ Happens("miss")
  /\ jobs' = Tail(jobs)
  /\ gaps' = gaps \cup {"missed"}
  /\ UNCHANGED <<phase, pass, refs, pending, checked, known, seen, shelf, cancelled,
                 diskVars, runs>>

(* The page is fetched, rewritten with the paths known now and put in place.*)
StoreFile ==
  /\ Downloading
  /\ ~ cancelled
  /\ ~ HasFile(Current.path)
  /\ disk' = Put(Current.path, Saved(Current.record, Current.path, known))
  /\ phase' = "recording"
  /\ UNCHANGED <<processVars, evidence, incidents, runs>>

(* RecoveryJournal keeps the entry as CaptureEvidence promises.             *)
RecordFile ==
  /\ phase = "recording"
  /\ evidence' = [evidence EXCEPT ![Current.path] = Current.record]
  /\ refs' = refs \cup References(Current.record)
  /\ jobs' = Tail(jobs)
  /\ phase' = "jobs"
  /\ UNCHANGED <<pass, pending, checked, known, seen, shelf, cancelled, gaps, disk,
                 incidents, runs>>

\* Not the code: topic aliases are made after the first wave.
AliasesAfterFirstWave ==
  /\ phase = "jobs"
  /\ jobs = <<>>
  /\ phase' = IF pass = "linked" THEN "topics" ELSE IF "cancelled" \in gaps THEN "done" ELSE "waves"
  /\ shelf' = IF pass = "linked" THEN HtmlFiles ELSE {}
  /\ UNCHANGED <<pass, jobs, refs, pending, checked, known, seen, cancelled, gaps,
                 diskVars, incidents, runs>>

JobsEnd ==
  /\ phase = "jobs"
  /\ jobs = <<>>
  /\ phase' = IF pass = "primary" /\ "cancelled" \in gaps THEN "done" ELSE "waves"
  /\ shelf' = {}
  /\ UNCHANGED <<pass, jobs, refs, pending, checked, known, seen, cancelled, gaps,
                 diskVars, incidents, runs>>

-----------------------------------------------------------------------------
\* The waves of linked files.
Unchecked == {u \in refs : Normalized(u) \notin checked}

NextWave ==
  /\ phase = "waves"
  /\ ~ cancelled
  /\ Unchecked # {}
  /\ phase' = "resolving"
  /\ pass' = "linked"
  /\ pending' = {CHOOSE u \in Unchecked : Normalized(u) = key :
                   key \in {Normalized(u) : u \in Unchecked}}
  /\ checked' = checked \cup {Normalized(u) : u \in Unchecked}
  /\ refs' = {}
  /\ UNCHANGED <<jobs, known, seen, shelf, cancelled, gaps, diskVars, incidents, runs>>

(* resolve_extra_download_jobs for the next reference: a known path needs   *)
(* nothing, a record found becomes known and a job unless its path had one. *)
ResolveReference ==
  /\ phase = "resolving"
  /\ pending # {}
  /\ ~ cancelled
  /\ LET u == CHOOSE v \in pending : TRUE
         c == Found(u)
         learnt == {Normalized(u), Normalized(c.url)}
     IN  /\ pending' = pending \ {u}
         /\ IF KnownPath(u, known) # None \/ c = None THEN UNCHANGED <<known, seen, jobs>>
            ELSE /\ known' = [k \in DOMAIN known \cup learnt |->
                                IF k \in learnt THEN PathOf(c) ELSE known[k]]
                 /\ seen' = seen \cup {PathOf(c)}
                 /\ jobs' = IF PathOf(c) \in seen THEN jobs ELSE Append(jobs, Job(c, PathOf(c)))
  /\ UNCHANGED <<phase, pass, refs, checked, shelf, cancelled, gaps, diskVars, incidents, runs>>

WaveResolved ==
  /\ phase = "resolving"
  /\ pending = {} \/ cancelled
  /\ phase' = "jobs"
  /\ pending' = {}
  /\ UNCHANGED <<pass, jobs, refs, checked, known, seen, shelf, cancelled, gaps,
                 diskVars, incidents, runs>>

(* The alias passes follow, whether or not the waves were cancelled.        *)
WavesEnd ==
  /\ phase = "waves"
  /\ cancelled \/ Unchecked = {}
  /\ phase' = "topics"
  /\ shelf' = HtmlFiles
  /\ UNCHANGED <<pass, jobs, refs, pending, checked, known, seen, cancelled, gaps,
                 diskVars, incidents, runs>>

-----------------------------------------------------------------------------
\* Aliases, written in place.
Copies == CASE phase = "topics" -> TopicAliases(DOMAIN disk, Pages)
            [] phase = "directories" -> DirectoryAliases(DOMAIN disk, Pages)
            [] OTHER -> {}

\* Not the code: the page is moved instead of copied.
MoveAlias ==
  /\ \E copy \in Copies :
       disk' = [p \in (DOMAIN disk \ {copy.from}) \cup {copy.to} |->
                  disk[IF p = copy.to THEN copy.from ELSE p]]
  /\ UNCHANGED <<phase, processVars, evidence, incidents, runs>>

MakeAlias ==
  /\ \E copy \in Copies : disk' = Put(copy.to, disk[copy.from])
  /\ UNCHANGED <<phase, processVars, evidence, incidents, runs>>

(* Killed after the alias is created and before its last byte is written: it*)
(* keeps the links of its first part. Its posts are left out, which the page*)
(* copied has too, in the same directory.                                   *)
KillWhileCopying ==
  /\ Happens("kill")
  /\ \E copy \in Copies : \E state \in {"empty", "torn"}, links \in SUBSET disk[copy.from].links :
       /\ state = "empty" => links = {}
       /\ disk' = Put(copy.to, [disk[copy.from] EXCEPT !.state = state, !.links = links])
  /\ phase' = "idle"
  /\ shelf' = {}
  /\ Forget
  /\ UNCHANGED <<evidence, runs>>

AliasesEnd ==
  /\ phase \in {"topics", "directories"}
  /\ Copies = {}
  /\ phase' = IF phase = "topics" THEN "directories"
              ELSE IF pass = "repair" THEN "aliased" ELSE "done"
  /\ shelf' = IF phase = "topics" THEN HtmlFiles ELSE {}
  /\ UNCHANGED <<pass, jobs, refs, pending, checked, known, seen, cancelled, gaps,
                 diskVars, incidents, runs>>

(* repair_output_dir begins with the same passes; what it does for static   *)
(* assets is as in DownloadRun.                                             *)
StartOutputRepair ==
  /\ phase \in Ended
  /\ DOMAIN disk # {}
  /\ runs < MaxRuns
  /\ runs' = runs + 1
  /\ phase' = "topics"
  /\ pass' = "repair"
  /\ shelf' = HtmlFiles
  /\ jobs' = <<>> /\ refs' = {} /\ pending' = {} /\ checked' = {}
  /\ known' = <<>> /\ seen' = {} /\ cancelled' = FALSE /\ gaps' = {}
  /\ UNCHANGED <<diskVars, incidents>>

-----------------------------------------------------------------------------
\* repair_local_links, one file after another.
StartRepair ==
  /\ phase \in Ended
  /\ DOMAIN disk # {}
  /\ runs < MaxRuns
  /\ runs' = runs + 1
  /\ phase' = "repairing"
  /\ shelf' = RepairFiles
  /\ Forget
  /\ UNCHANGED <<diskVars, incidents>>

Repairs(p) ==
  {link \in disk[p].links : Repairable(DOMAIN disk, {q \in DOMAIN disk : HasFile(q)}, p, link.ref)}

RepairFile ==
  /\ phase = "repairing"
  /\ shelf # {}
  /\ LET p == First(shelf)
         links == {IF link \in Repairs(p) THEN [link EXCEPT !.ref = RepairedRef(@)]
                   ELSE link : link \in disk[p].links}
     IN  /\ disk' = [disk EXCEPT ![p] = [of |-> @.of, state |-> @.state, links |-> links]]
         /\ shelf' = shelf \ {p}
  /\ UNCHANGED <<phase, pass, jobs, refs, pending, checked, known, seen, cancelled, gaps,
                 evidence, incidents, runs>>

RepairEnds ==
  /\ phase = "repairing"
  /\ shelf = {}
  /\ phase' = "repaired"
  /\ UNCHANGED <<processVars, diskVars, incidents, runs>>

-----------------------------------------------------------------------------
Next ==
  \/ StartDownload \/ StartOutputRepair \/ StartRepair
  \/ Cancel \/ Kill
  \/ CancelledJob \/ SkippedJob \/ MissedJob \/ StoreFile \/ RecordFile \/ JobsEnd
  \/ NextWave \/ ResolveReference \/ WaveResolved \/ WavesEnd
  \/ MakeAlias \/ KillWhileCopying \/ AliasesEnd
  \/ RepairFile \/ RepairEnds

Spec == Init /\ [][Next]_vars

-----------------------------------------------------------------------------
TypeOK ==
  /\ phase \in Ended \cup {"jobs", "recording", "waves", "resolving", "topics", "directories",
                          "repairing"}
  /\ pass \in {"primary", "linked", "repair"}
  /\ \A i \in DOMAIN jobs : jobs[i].record \in Archive /\ jobs[i].path \in Places
  /\ shelf \subseteq DOMAIN disk
  /\ cancelled \in BOOLEAN
  /\ gaps \subseteq {"cancelled", "missed"}
  /\ \A p \in DOMAIN disk : disk[p].of \in Archive /\ disk[p].state \in {"whole", "torn", "empty"}
  /\ evidence \in [Places -> Archive \cup {None}]
  /\ incidents \in 0..MaxIncidents
  /\ runs \in 0..MaxRuns

(* Whatever the journal says was saved is there, whole: downloads, aliases  *)
(* and repairs of later runs, interrupted anywhere, never replace it        *)
(* (src/src/downloader.rs:929-933, src/src/alias_repair.rs:72-96).          *)
EvidenceHolds ==
  \A p \in Places : evidence[p] # None => IsWhole(p) /\ disk[p].of = evidence[p]

ListedPagesArrive ==
  phase = "done" /\ ~ cancelled /\ gaps = {} => \A p \in PrimaryPaths : HasFile(p)

(* A run that meets no trouble leaves nothing out, whatever happened to the *)
(* runs before it: every listed page has a file, and so has every archived  *)
(* file that a journalled page refers to (src/src/downloader.rs:856-903).   *)
ResumeLosesNothing ==
  /\ ListedPagesArrive
  /\ phase = "done" /\ ~ cancelled /\ gaps = {} =>
       \A p \in Places : evidence[p] # None =>
         \A u \in References(evidence[p]) : Found(u) # None => HasFile(PathOf(Found(u)))

(* Every link to a page of the site, in every file whole or torn, leads to  *)
(* the path of a capture of that page's address, or where the listing does  *)
(* not have the address to the path guessed from it, in every later run and *)
(* after every alias and repair (src/src/rewrite.rs:122-155,                *)
(* src/src/link_validation.rs:562-588).                                     *)
LinksArrive ==
  \A p \in DOMAIN disk : \A link \in disk[p].links :
    LET written == <<disk[p].of, link.was>>
    IN  written \in SiteLinks => ResolveLocal(p, link.ref) \in MayOpen[written]

(* While nothing goes wrong an alias only stands in for a page that the     *)
(* archive lacks: aliases come after the last wave (downloader.rs:366).     *)
AliasesFillGaps ==
  incidents = 0 => \A p \in DOMAIN disk : p \in {PathOf(c) : c \in Archive} => IsOwn(p)

(* Repairing again finds nothing to repair (src/README.md:125).             *)
RepairSettles == phase = "repaired" => \A p \in RepairFiles : Repairs(p) = {}

-----------------------------------------------------------------------------
(* What the documentation promises of a resumed run: the files that an      *)
(* interrupted run did not reach are downloaded (src/README.md:81).         *)
ResumeFetchesWhatIsMissing ==
  phase = "done" /\ ~ cancelled /\ gaps = {} =>
    \A p \in Places : evidence[p] # None =>
      \A u \in References(evidence[p]) : Found(u) # None => IsOwn(PathOf(Found(u)))
=============================================================================
