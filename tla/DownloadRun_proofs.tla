------------------------- MODULE DownloadRun_proofs -------------------------
(***************************************************************************)
(* For any site and any cycles of its links: the types, that no path is     *)
(* downloaded twice, that no reference is resolved twice or lost, and that  *)
(* the report adds up.                                                      *)
(***************************************************************************)
EXTENDS MCDownloadRun, OrderFacts

-----------------------------------------------------------------------------
\* The jobs of the listing.

(* SelectedJobs is what its recursive definition says.                      *)
LEMMA SelectedJobsDef ==
  SelectedJobs = [k \in 0 .. Len(Discovered) |->
                    IF k = 0 THEN <<>> ELSE AddJob(SelectedJobs[k - 1], Discovered[k])]
<1> DEFINE N == Len(Discovered)
           Selects(f, n) ==
             f = [k \in 0 .. n |-> IF k = 0 THEN <<>> ELSE AddJob(f[k - 1], Discovered[k])]
           S == {n \in 0 .. N : \E f : Selects(f, n)}
<1>1. N \in Nat
  BY ListingAssumption
<1>2. 0 \in S
  <2>1. Selects([k \in 0 .. 0 |-> <<>>], 0)
    OBVIOUS
  <2> HIDE DEF Selects
  <2> QED
    BY <1>1, <2>1
<1>3. ASSUME NEW n \in 0 .. N - 1, n \in S PROVE n + 1 \in S
  <2>1. PICK f : Selects(f, n)
    BY <1>3
  <2> DEFINE g == [k \in 0 .. n + 1 |->
                     IF k = n + 1 THEN AddJob(f[n], Discovered[n + 1]) ELSE f[k]]
  <2>2. Selects(g, n + 1)
    <3> SUFFICES ASSUME NEW k \in 0 .. n + 1
                 PROVE  g[k] = IF k = 0 THEN <<>> ELSE AddJob(g[k - 1], Discovered[k])
      OBVIOUS
    <3>1. CASE k = n + 1
      <4>1. n # n + 1 /\ k - 1 = n /\ n \in 0 .. n + 1 /\ k # 0
        BY <1>1, <3>1
      <4> QED
        BY <3>1, <4>1
    <3>2. CASE k # n + 1 /\ k # 0
      <4>1. k \in 0 .. n /\ k - 1 \in 0 .. n /\ k - 1 # n + 1 /\ k - 1 \in 0 .. n + 1
        BY <1>1, <3>2
      <4> QED
        BY <2>1, <3>2, <4>1
    <3>3. CASE k = 0
      BY <1>1, <2>1, <3>3
    <3> QED
      BY <3>1, <3>2, <3>3
  <2> HIDE DEF g
  <2> QED
    BY <1>1, <2>2
<1>4. N \in S
  <2>1. N \in 0 .. N
    BY <1>1
  <2> HIDE DEF N, S
  <2>2. \A k \in 0 .. N : k \in S
    BY <1>1, <1>2, <1>3, InductionUpTo
  <2> QED
    BY <2>1, <2>2
<1>5. Selects(CHOOSE f : Selects(f, N), N)
  <2>1. \E f : Selects(f, N)
    BY <1>4
  <2> HIDE DEF Selects
  <2> QED
    BY <2>1, Zenon
<1> QED
  BY <1>5, Zenon DEF SelectedJobs

Jobs == Seq([url : Urls, path : Paths])
PathsOf(s) == {s[i].path : i \in DOMAIN s}
Distinct(s) == \A i, j \in DOMAIN s : s[i].path = s[j].path => i = j

(* A URL gets a job, and with it its path, unless the path has one.         *)
LEMMA AddJobProperties ==
  ASSUME NEW s \in Jobs, NEW u \in Urls, Distinct(s)
  PROVE  /\ AddJob(s, u) \in Jobs
         /\ Distinct(AddJob(s, u))
         /\ PathsOf(AddJob(s, u)) = PathsOf(s) \cup {PathOf[u]}
         /\ Len(AddJob(s, u)) <= Len(s) + 1
<1>1. CASE \E i \in DOMAIN s : s[i].path = PathOf[u]
  BY <1>1 DEF AddJob, PathsOf, Jobs
<1>2. CASE ~ \E i \in DOMAIN s : s[i].path = PathOf[u]
  <2>1. PICK t : t = Append(s, Job(u, PathOf[u]))
    OBVIOUS
  <2>2. Job(u, PathOf[u]) \in [url : Urls, path : Paths] /\ Job(u, PathOf[u]).path = PathOf[u]
    BY MappingAssumption DEF Job
  <2>3. /\ t \in Jobs /\ Len(t) = Len(s) + 1
        /\ \A i \in 1 .. Len(s) : t[i] = s[i]
        /\ t[Len(s) + 1] = Job(u, PathOf[u])
        /\ DOMAIN t = 1 .. Len(s) + 1 /\ DOMAIN s = 1 .. Len(s) /\ Len(s) \in Nat
    BY <2>1, <2>2 DEF Jobs
  <2>4. Distinct(t)
    BY <1>2, <2>2, <2>3 DEF Distinct
  <2>5. PathsOf(t) = PathsOf(s) \cup {PathOf[u]}
    BY <2>2, <2>3 DEF PathsOf
  <2> QED
    BY <1>2, <2>1, <2>3, <2>4, <2>5 DEF AddJob
<1> QED
  BY <1>1, <1>2

(* The jobs of the listing: one for each path that its URLs have.           *)
LEMMA PrimaryJobsProperties ==
  /\ PrimaryJobs \in Jobs
  /\ Distinct(PrimaryJobs)
  /\ PathsOf(PrimaryJobs) = ListedPaths
  /\ Len(PrimaryJobs) <= Len(Discovered)
<1> DEFINE N == Len(Discovered)
           Good(s, k) == /\ s \in Jobs
                         /\ Distinct(s)
                         /\ PathsOf(s) = {PathOf[Discovered[i]] : i \in 1 .. k}
                         /\ Len(s) <= k
           S == {k \in 0 .. N : Good(SelectedJobs[k], k)}
<1>1. N \in Nat /\ DOMAIN Discovered = 1 .. N /\ \A k \in 1 .. N : Discovered[k] \in Urls
  BY ListingAssumption
<1>2. /\ SelectedJobs[0] = <<>>
      /\ \A k \in 1 .. N : SelectedJobs[k] = AddJob(SelectedJobs[k - 1], Discovered[k])
  <2>1. \A k \in 0 .. N : SelectedJobs[k] =
          IF k = 0 THEN <<>> ELSE AddJob(SelectedJobs[k - 1], Discovered[k])
    BY SelectedJobsDef, Zenon
  <2> QED
    BY <1>1, <2>1
<1>3. 0 \in S
  <2>1. Good(<<>>, 0)
    BY DEF Jobs, Distinct, PathsOf
  <2> QED
    BY <1>1, <1>2, <2>1
<1>4. ASSUME NEW k \in 0 .. N - 1, k \in S PROVE k + 1 \in S
  <2>1. k + 1 \in 1 .. N /\ (k + 1) - 1 = k
    BY <1>1
  <2>2. SelectedJobs[k + 1] = AddJob(SelectedJobs[k], Discovered[k + 1])
    BY <1>2, <2>1
  <2>3. Good(SelectedJobs[k], k)
    BY <1>4
  <2>4. {PathOf[Discovered[i]] : i \in 1 .. k} \cup {PathOf[Discovered[k + 1]]}
          = {PathOf[Discovered[i]] : i \in 1 .. k + 1}
    BY <1>1
  <2>5. Len(SelectedJobs[k]) \in Nat
    BY <2>3 DEF Jobs
  <2>6. Good(AddJob(SelectedJobs[k], Discovered[k + 1]), k + 1)
    <3>1. Discovered[k + 1] \in Urls
      BY <1>1, <2>1
    <3>2. PICK t : t = AddJob(SelectedJobs[k], Discovered[k + 1])
      OBVIOUS
    <3>3. /\ t \in Jobs /\ Distinct(t) /\ Len(t) <= Len(SelectedJobs[k]) + 1
          /\ PathsOf(t) = {PathOf[Discovered[i]] : i \in 1 .. k + 1}
      BY <2>3, <2>4, <3>1, <3>2, AddJobProperties
    <3>4. Len(t) <= k + 1
      BY <2>3, <2>5, <3>3 DEF Jobs
    <3> QED
      BY <3>2, <3>3, <3>4
  <2> QED
    BY <2>1, <2>2, <2>6
<1>5. N \in S
  <2>1. N \in 0 .. N
    BY <1>1
  <2> HIDE DEF N, S
  <2>2. \A k \in 0 .. N : k \in S
    BY <1>1, <1>3, <1>4, InductionUpTo
  <2> QED
    BY <2>1, <2>2
<1>6. {PathOf[Discovered[i]] : i \in 1 .. N} = ListedPaths
  BY <1>1 DEF ListedPaths, Range
<1> QED
  BY <1>5, <1>6 DEF PrimaryJobs

-----------------------------------------------------------------------------
\* The types of a run.

(* Where each pass leaves its variables, and which requests are made.       *)
StageInv ==
  /\ current # NoJob => phase \in {"primary", "linked jobs"}
  /\ jobs # <<>> => phase \in {"primary", "resolving", "linked jobs", "failed"}
  /\ pending # {} => phase \in {"resolving", "failed"}
  /\ asset # None => phase \in {"assets", "alternate pages", "failed"}
  /\ report.cancelled > 0 => cancelled
  /\ phase = "alternate pages" =>
       \A t \in targets \cup ({asset} \ {None}) : Resembles[t] \in Paths

(* A path that is known is that of the URL or of a spelling of it.          *)
LEMMA KnownPathProperties ==
  ASSUME NEW u \in Urls, known \in [Urls -> Paths \cup {None}]
  PROVE  /\ KnownPath(u) \in Paths \cup {None}
         /\ KnownPath(u) # None => \E v \in Equivalent[u] \cup {u} : known[v] # None
<1> DEFINE found == {known[v] : v \in Equivalent[u]} \ {None}
<1>1. Equivalent[u] \subseteq Urls
  BY MappingAssumption
<1>2. found \subseteq Paths
  BY <1>1
<1>3. CASE known[u] # None
  BY <1>3 DEF KnownPath
<1>4. CASE known[u] = None /\ Cardinality(found) = 1
  <2>1. found # {}
    BY <1>4, FS_EmptySet
  <2>2. PICK p : p = CHOOSE q \in found : TRUE
    OBVIOUS
  <2>3. p \in found
    BY <2>1, <2>2
  <2>4. KnownPath(u) = p
    BY <1>4, <2>2 DEF KnownPath
  <2>5. \E v \in Equivalent[u] : known[v] # None
    BY <2>1
  <2> QED
    BY <1>2, <2>3, <2>4, <2>5
<1>5. CASE known[u] = None /\ Cardinality(found) # 1
  BY <1>5 DEF KnownPath
<1> QED
  BY <1>3, <1>4, <1>5

LEMMA LinksTyped ==
  ASSUME known \in [Urls -> Paths \cup {None}], NEW p \in Paths
  PROVE  Rewritten(p) \subseteq Paths /\ Raw(p) \subseteq Paths /\ Links[p] \subseteq Urls
<1>1. Links[p] \subseteq Urls /\ \A u \in Urls : GuessOf[u] \in Paths
  BY MappingAssumption
<1>2. \A u \in Urls : LinkPath(u) \in Paths
  BY <1>1, KnownPathProperties DEF LinkPath
<1> QED
  BY <1>1, <1>2 DEF Rewritten, Raw

(* A request is for an asset, and its candidate is a file or listed.        *)
LEMMA RequestsTyped ==
  ASSUME NEW present \in SUBSET Paths, NEW links \in [Paths -> SUBSET Paths],
         NEW t \in AliasRequests(present, links)
  PROVE  t \in Paths /\ Resembles[t] \in Paths
<1>1. ListedAssets \subseteq Paths /\ Assets \subseteq Paths
  BY MappingAssumption DEF ListedAssets
<1> QED
  BY <1>1 DEF AliasRequests

LEMMA NoJobIsNone == NoJob \notin [url : Urls, path : Paths]
BY NoneAssumption DEF NoJob

TInv == TypeOK /\ StageInv

LEMMA InitTyped == Init => TInv
<1> SUFFICES ASSUME Init PROVE TInv
  OBVIOUS
<1>1. \A u \in Range(Discovered) : u \in Urls
  BY ListingAssumption DEF Range
<1>2. ListedPaths \subseteq Paths
  BY <1>1, MappingAssumption DEF ListedPaths
<1>3. known \in [Urls -> Paths \cup {None}]
  BY MappingAssumption DEF Init
<1>4. files \subseteq Paths /\ seen \subseteq Paths
  BY <1>2 DEF Init, ListedPaths
<1>5. written \in [Paths -> SUBSET Paths]
  <2>1. \A p \in Paths : Rewritten(p) \subseteq Paths
    BY <1>3, LinksTyped
  <2> QED
    BY <2>1 DEF Init
<1>6. report \in [Counters -> Nat] /\ report.cancelled = 0
  <2>1. Len(Discovered) - Len(PrimaryJobs) \in Nat
    BY PrimaryJobsProperties, ListingAssumption DEF Jobs
  <2> QED
    BY <2>1 DEF Init, Counters
<1>7. jobs \in Seq([url : Urls, path : Paths])
  BY PrimaryJobsProperties DEF Init, Jobs
<1>8. TypeOK
  BY <1>3, <1>4, <1>5, <1>6, <1>7 DEF Init, TypeOK
<1>9. StageInv
  BY <1>6 DEF Init, StageInv
<1> QED
  BY <1>8, <1>9 DEF TInv

LEMMA CountTyped ==
  ASSUME report \in [Counters -> Nat], NEW counter \in Counters, Count(counter)
  PROVE  /\ report' \in [Counters -> Nat]
         /\ report'[counter] = report[counter] + 1
         /\ \A other \in Counters \ {counter} : report'[other] = report[other]
BY DEF Count

LEMMA TailIsSeq ==
  ASSUME NEW R, NEW s \in Seq(R), s # <<>>
  PROVE  /\ Tail(s) \in Seq(R) /\ Head(s) \in R
         /\ Len(Tail(s)) = Len(s) - 1 /\ Tail(s) # s
         /\ Head(s) = s[1] /\ 1 \in DOMAIN s /\ Len(s) \in Nat
OBVIOUS

LEMMA AppendIsSeq ==
  ASSUME NEW R, NEW s \in Seq(R), NEW r \in R
  PROVE  Append(s, r) \in Seq(R) /\ Len(Append(s, r)) = Len(s) + 1
OBVIOUS

LEMMA TailTyped ==
  ASSUME TypeOK, jobs # <<>>
  PROVE  Tail(jobs) \in Seq([url : Urls, path : Paths]) /\ Head(jobs) \in [url : Urls, path : Paths]
BY TailIsSeq DEF TypeOK

LEMMA CopyTyped ==
  ASSUME TypeOK, NEW t \in Paths, Resembles[t] \in Paths, Copy(t)
  PROVE  files' \subseteq Paths /\ written' \in [Paths -> SUBSET Paths]
         /\ report' \in [Counters -> Nat] /\ report'.cancelled = report.cancelled
<1>1. Raw(Resembles[t]) \subseteq Paths
  BY LinksTyped DEF TypeOK
<1>2. "assetAliases" \in Counters /\ "cancelled" \in Counters
  BY DEF Counters
<1>3. report' \in [Counters -> Nat] /\ report'.cancelled = report.cancelled
  BY <1>2, CountTyped DEF Copy, TypeOK
<1> QED
  BY <1>1, <1>3 DEF Copy, TypeOK

(* The jobs: TInv is kept by every step of the passes over them.            *)
LEMMA JobsTyped ==
  ASSUME TInv, CancelledJob \/ SkippedJob \/ StartJob \/ JobEnds \/ PassEnds
  PROVE  TInv'
<1> USE DEF TInv, waveVars, diskVars, assetVars
<1>1. \A c \in {"downloaded", "skipped", "cancelled", "failed", "unavailable", "linkedUnavailable"} :
        c \in Counters
  BY DEF Counters
<1>2. report \in [Counters -> Nat]
  BY DEF TypeOK
<1>3. CASE CancelledJob
  BY <1>1, <1>2, <1>3, TailTyped, CountTyped DEF CancelledJob, Downloading, TypeOK, StageInv
<1>4. CASE SkippedJob
  <2>1. Links[Head(jobs).path] \subseteq Urls
    BY <1>4, TailTyped, LinksTyped DEF SkippedJob, Downloading, TypeOK
  <2>2. refs' \subseteq Urls
    BY <1>4, <2>1 DEF SkippedJob, TypeOK
  <2>3. /\ report' \in [Counters -> Nat] /\ report'.cancelled = report.cancelled
    BY <1>1, <1>2, <1>4, CountTyped DEF SkippedJob
  <2> QED
    BY <1>4, <2>2, <2>3, TailTyped DEF SkippedJob, Downloading, TypeOK, StageInv
<1>5. CASE StartJob
  BY <1>5, TailTyped DEF StartJob, Downloading, TypeOK, StageInv
<1>6. CASE Downloaded
  <2>1. current.path \in Paths
    BY <1>6 DEF Downloaded, TypeOK
  <2>2. Links[current.path] \subseteq Urls /\ Rewritten(current.path) \subseteq Paths
    BY <2>1, LinksTyped DEF TypeOK
  <2>3. /\ report' \in [Counters -> Nat] /\ report'.cancelled = report.cancelled
    BY <1>1, <1>2, <1>6, CountTyped DEF Downloaded
  <2>4. written' \in [Paths -> SUBSET Paths] /\ files' \subseteq Paths /\ refs' \subseteq Urls
    BY <1>6, <2>1, <2>2 DEF Downloaded, TypeOK
  <2> QED
    BY <1>6, <2>3, <2>4 DEF Downloaded, TypeOK, StageInv
<1>7. ASSUME NEW status \in {"failed", "cancelled", "unavailable"}, NotDownloaded(status) PROVE TInv'
  <2>1. report' \in [Counters -> Nat]
    BY <1>1, <1>2, <1>7, CountTyped DEF NotDownloaded
  <2>2. report'.cancelled > 0 => cancelled'
    BY <1>1, <1>2, <1>7, CountTyped DEF NotDownloaded, StageInv
  <2> QED
    BY <1>7, <2>1, <2>2 DEF NotDownloaded, TypeOK, StageInv
<1>8. ASSUME NEW status \in {"skipped", "unavailable"}, LinkedFileUnavailable(status) PROVE TInv'
  <2>1. report' \in [Counters -> Nat] /\ report'.cancelled = report.cancelled
    <3>1. PICK counted : counted = [report EXCEPT ![status] = report[status] + 1]
      OBVIOUS
    <3>2. status \in Counters /\ status # "cancelled" /\ "linkedUnavailable" \in Counters
      BY <1>1
    <3>3. counted \in [Counters -> Nat] /\ counted.cancelled = report.cancelled
      BY <1>1, <1>2, <3>1, <3>2
    <3>4. report' = [counted EXCEPT !.linkedUnavailable = counted.linkedUnavailable + 1]
      BY <1>8, <3>1 DEF LinkedFileUnavailable
    <3> QED
      BY <1>1, <3>2, <3>3, <3>4
  <2> QED
    BY <1>8, <2>1 DEF LinkedFileUnavailable, TypeOK, StageInv
<1>9. CASE PassEnds
  BY <1>9 DEF PassEnds, TypeOK, StageInv
<1> QED
  BY <1>3, <1>4, <1>5, <1>6, <1>7, <1>8, <1>9 DEF JobEnds

(* The waves.                                                               *)
LEMMA WavesTyped ==
  ASSUME TInv, \/ NextWave \/ WavesEnd \/ WaveResolved
               \/ \E u \in Urls : AlreadyKnown(u) \/ LinkFound(u) \/ LinkUnavailable(u) \/ LookupFails(u)
  PROVE  TInv'
<1> USE DEF TInv, waveVars, diskVars, assetVars
<1>1. CASE NextWave \/ WavesEnd \/ WaveResolved
  BY <1>1 DEF NextWave, WavesEnd, WaveResolved, TypeOK, StageInv
<1>2. ASSUME NEW u \in Urls, AlreadyKnown(u) PROVE TInv'
  BY <1>2 DEF AlreadyKnown, Resolving, TypeOK, StageInv
<1>3. ASSUME NEW u \in Urls, LinkFound(u) PROVE TInv'
  <2>1. Original[u] \in Urls /\ PathOf[Original[u]] \in Paths
    BY <1>3, MappingAssumption DEF LinkFound
  <2>2. known' \in [Urls -> Paths \cup {None}] /\ seen' \subseteq Paths
    BY <1>3, <2>1 DEF LinkFound, TypeOK
  <2>3. jobs' \in Seq([url : Urls, path : Paths])
    <3>1. Job(Original[u], PathOf[Original[u]]) \in [url : Urls, path : Paths]
      BY <2>1 DEF Job
    <3>2. \/ jobs' = jobs
          \/ jobs' = Append(jobs, Job(Original[u], PathOf[Original[u]]))
      BY <1>3 DEF LinkFound
    <3>3. jobs \in Seq([url : Urls, path : Paths])
      BY DEF TypeOK
    <3>4. Append(jobs, Job(Original[u], PathOf[Original[u]])) \in Seq([url : Urls, path : Paths])
      BY <3>1, <3>3, AppendIsSeq
    <3> QED
      BY <3>2, <3>3, <3>4
  <2> QED
    BY <1>3, <2>2, <2>3 DEF LinkFound, Resolving, TypeOK, StageInv
<1>4. ASSUME NEW u \in Urls, LinkUnavailable(u) PROVE TInv'
  <2>1. report' \in [Counters -> Nat] /\ report'.cancelled = report.cancelled
    <3>1. "linkedUnavailable" \in Counters /\ "cancelled" \in Counters
      BY DEF Counters
    <3> QED
      BY <1>4, <3>1, CountTyped DEF LinkUnavailable, TypeOK
  <2> QED
    BY <1>4, <2>1 DEF LinkUnavailable, Resolving, TypeOK, StageInv
<1>5. ASSUME NEW u \in Urls, LookupFails(u) PROVE TInv'
  BY <1>5 DEF LookupFails, Resolving, Abort, TypeOK, StageInv
<1> QED
  BY <1>1, <1>2, <1>3, <1>4, <1>5

(* Aliases and static assets.                                               *)
LEMMA AssetsTyped ==
  ASSUME TInv,
         \/ PageAliases \/ AssetRecovered \/ AssetUnavailable \/ AssetFails \/ AssetsEnd
         \/ RequestCopied \/ SourceUnavailable \/ RequestsEnd \/ AliasPassFails \/ Finish
         \/ \E t \in Paths : StartAsset(t) \/ RequestUnconfirmed(t) \/ RequestConfirmed(t)
                             \/ AliasAsset(t)
  PROVE  TInv'
<1> USE DEF TInv, waveVars, diskVars, assetVars
<1>1. MissingTargets \subseteq Paths /\ MissingAssets \subseteq Paths
  <2>1. \A p \in files : written[p] \subseteq Paths
    BY DEF TypeOK
  <2>2. UNION {written[p] : p \in files} \subseteq Paths
    BY <2>1
  <2> QED
    BY <2>2 DEF MissingTargets, MissingAssets, MissingFrom
<1>2. \A c \in {"recovered", "assetsUnavailable", "assetAliases", "cancelled"} : c \in Counters
  BY DEF Counters
<1>3. CASE PageAliases
  <2>1. files' \subseteq Paths
    BY <1>1, <1>3 DEF PageAliases, TypeOK
  <2>2. \A t \in AliasRequests(files', written) : t \in Paths /\ Resembles[t] \in Paths
    BY <2>1, RequestsTyped DEF TypeOK
  <2>3. targets' \subseteq Paths /\ (phase' = "alternate pages" => \A t \in targets' : Resembles[t] \in Paths)
    BY <1>1, <1>3, <2>2 DEF PageAliases
  <2>4. asset = None
    BY <1>3 DEF PageAliases, StageInv
  <2> QED
    BY <1>3, <2>1, <2>3, <2>4 DEF PageAliases, TypeOK, StageInv
<1>4. CASE AssetRecovered
  <2>1. asset \in Paths
    BY <1>4 DEF AssetRecovered, TypeOK
  <2>2. Raw(asset) \subseteq Paths
    BY <2>1, LinksTyped DEF TypeOK
  <2>3. report' \in [Counters -> Nat] /\ report'.cancelled = report.cancelled
    BY <1>2, <1>4, CountTyped DEF AssetRecovered, TypeOK
  <2>4. files' \subseteq Paths /\ written' \in [Paths -> SUBSET Paths]
    BY <1>4, <2>1, <2>2 DEF AssetRecovered, TypeOK
  <2> QED
    BY <1>4, <2>3, <2>4 DEF AssetRecovered, TypeOK, StageInv
<1>5. CASE AssetUnavailable
  <2>1. report' \in [Counters -> Nat] /\ report'.cancelled = report.cancelled
    BY <1>2, <1>5, CountTyped DEF AssetUnavailable, TypeOK
  <2> QED
    BY <1>5, <2>1 DEF AssetUnavailable, TypeOK, StageInv
<1>6. CASE AssetFails \/ AliasPassFails
  BY <1>6 DEF AssetFails, AliasPassFails, TransferFails, Abort, TypeOK, StageInv
<1>7. CASE AssetsEnd
  <2>1. \A t \in AliasRequests(files, written) : t \in Paths /\ Resembles[t] \in Paths
    BY RequestsTyped DEF TypeOK
  <2> QED
    BY <1>7, <2>1 DEF AssetsEnd, TypeOK, StageInv
<1>8. CASE RequestCopied
  <2>1. asset \in Paths /\ Resembles[asset] \in Paths
    BY <1>8 DEF RequestCopied, TypeOK, StageInv
  <2>2. files' \subseteq Paths /\ written' \in [Paths -> SUBSET Paths]
        /\ report' \in [Counters -> Nat] /\ report'.cancelled = report.cancelled
    BY <1>8, <2>1, CopyTyped DEF RequestCopied
  <2> QED
    BY <1>8, <2>2 DEF RequestCopied, TypeOK, StageInv
<1>9. CASE SourceUnavailable
  BY <1>9 DEF SourceUnavailable, TypeOK, StageInv
<1>10. CASE RequestsEnd
  BY <1>1, <1>10 DEF RequestsEnd, TypeOK, StageInv
<1>11. CASE Finish
  <2>1. report' \in [Counters -> Nat] /\ (report'.cancelled > 0 => cancelled)
    <3> DEFINE left == IF report.assetsUnavailable > report.assetAliases
                       THEN report.assetsUnavailable - report.assetAliases ELSE 0
               stopped == IF cancelled THEN report.cancelled + 1 ELSE report.cancelled
    <3>1. report \in [Counters -> Nat]
      BY DEF TypeOK
    <3>2. left \in Nat
      BY <1>2, <3>1
    <3>3. stopped \in Nat /\ (stopped > 0 => cancelled)
      <4>1. CASE cancelled
        BY <1>2, <3>1, <4>1
      <4>2. CASE ~ cancelled
        BY <1>2, <3>1, <4>2 DEF StageInv
      <4> QED
        BY <4>1, <4>2
    <3>4. report' = [report EXCEPT !.assetsUnavailable = left, !.cancelled = stopped]
      BY <1>11 DEF Finish
    <3> HIDE DEF left, stopped
    <3> QED
      BY <1>2, <3>1, <3>2, <3>3, <3>4
  <2> QED
    BY <1>11, <2>1 DEF Finish, TypeOK, StageInv
<1>12. ASSUME NEW t \in Paths, StartAsset(t) PROVE TInv'
  BY <1>12 DEF StartAsset, TypeOK, StageInv
<1>13. ASSUME NEW t \in Paths, RequestUnconfirmed(t) \/ RequestConfirmed(t) PROVE TInv'
  BY <1>13 DEF RequestUnconfirmed, RequestConfirmed, Request, TypeOK, StageInv
<1>14. ASSUME NEW t \in Paths, AliasAsset(t) PROVE TInv'
  <2>1. CASE Resembles[t] \in files /\ Copy(t)
    <3>1. files' \subseteq Paths /\ written' \in [Paths -> SUBSET Paths]
          /\ report' \in [Counters -> Nat] /\ report'.cancelled = report.cancelled
      BY <2>1, CopyTyped DEF TypeOK
    <3> QED
      BY <1>14, <3>1 DEF AliasAsset, TypeOK, StageInv
  <2>2. CASE UNCHANGED <<diskVars, report>>
    BY <1>14, <2>2 DEF AliasAsset, TypeOK, StageInv
  <2> QED
    BY <1>14, <2>1, <2>2 DEF AliasAsset
<1> QED
  BY <1>3, <1>4, <1>5, <1>6, <1>7, <1>8, <1>9, <1>10, <1>11, <1>12, <1>13, <1>14

LEMMA StepTyped == TInv /\ [Next]_vars => TInv'
<1> SUFFICES ASSUME TInv, [Next]_vars PROVE TInv'
  OBVIOUS
<1>1. CASE Cancel
  BY <1>1 DEF Cancel, TInv, TypeOK, StageInv, waveVars, diskVars, assetVars
<1>2. CASE UNCHANGED vars
  BY <1>2 DEF vars, TInv, TypeOK, StageInv
<1> QED
  BY <1>1, <1>2, JobsTyped, WavesTyped, AssetsTyped DEF Next, Work

(* The run never leaves its types; a failed or cancelled job, a wave cut    *)
(* short and an aborted run included (download_site).                       *)
THEOREM RunsStayTyped == MCSpec => []TypeOK
<1>1. MCInit => TInv
  BY InitTyped DEF MCInit
<1>2. TInv /\ [MCNext]_mcVars => TInv'
  BY StepTyped DEF MCNext, mcVars, vars
<1>3. TInv => TypeOK
  BY DEF TInv
<1> QED
  BY <1>1, <1>2, <1>3, PTL DEF MCSpec

-----------------------------------------------------------------------------
\* The jobs of a run.

(* Every path seen has had its job taken up or waits for it, once.          *)
JobsInv ==
  /\ seen = begun \cup PathsOf(jobs)
  /\ \A i \in DOMAIN jobs : jobs[i].path \notin begun
  /\ Distinct(jobs)

(* All that a step may do to the jobs.                                      *)
TakeJob == TakesJob /\ UNCHANGED seen
AddsJob == \E job \in [url : Urls, path : Paths] :
             /\ job.path \notin seen
             /\ jobs' = Append(jobs, job)
             /\ seen' = seen \cup {job.path}

LEMMA StepsOfTheJobs ==
  ASSUME TInv, Next PROVE TakeJob \/ AddsJob \/ UNCHANGED <<jobs, seen>>
<1> USE DEF waveVars, TakeJob, TakesJob
<1>1. CASE Cancel \/ CancelledJob \/ SkippedJob \/ StartJob \/ PassEnds
  BY <1>1 DEF Cancel, CancelledJob, SkippedJob, StartJob, PassEnds, Downloading
<1>2. ASSUME NEW status, NotDownloaded(status) \/ LinkedFileUnavailable(status)
      PROVE  UNCHANGED <<jobs, seen>>
  BY <1>2 DEF NotDownloaded, LinkedFileUnavailable
<1>3. CASE JobEnds
  BY <1>2, <1>3 DEF JobEnds, Downloaded
<1>4. CASE NextWave \/ WavesEnd \/ WaveResolved
  BY <1>4 DEF NextWave, WavesEnd, WaveResolved
<1>5. ASSUME NEW u \in Urls, LinkFound(u) PROVE AddsJob \/ UNCHANGED <<jobs, seen>>
  <2>1. Original[u] \in Urls /\ PathOf[Original[u]] \in Paths
    BY <1>5, MappingAssumption DEF LinkFound
  <2>2. PICK p : p = PathOf[Original[u]]
    OBVIOUS
  <2>3. seen' = seen \cup {p} /\ jobs' = IF p \in seen THEN jobs ELSE Append(jobs, Job(Original[u], p))
    BY <1>5, <2>2 DEF LinkFound
  <2>4. CASE p \in seen
    BY <2>3, <2>4
  <2>5. CASE p \notin seen
    <3>1. Job(Original[u], p) \in [url : Urls, path : Paths] /\ Job(Original[u], p).path = p
      BY <2>1, <2>2 DEF Job
    <3> QED
      BY <2>3, <2>5, <3>1 DEF AddsJob
  <2> QED
    BY <2>4, <2>5
<1>6. ASSUME NEW u, AlreadyKnown(u) \/ LinkUnavailable(u) \/ LookupFails(u)
      PROVE  UNCHANGED <<jobs, seen>>
  BY <1>6 DEF AlreadyKnown, LinkUnavailable, LookupFails
<1>7. CASE PageAliases \/ AssetRecovered \/ AssetUnavailable \/ AssetFails \/ AssetsEnd
           \/ RequestCopied \/ SourceUnavailable \/ RequestsEnd \/ AliasPassFails \/ Finish
  BY <1>7 DEF PageAliases, AssetRecovered, AssetUnavailable, AssetFails, AssetsEnd,
              RequestCopied, SourceUnavailable, RequestsEnd, AliasPassFails, Finish
<1>8. ASSUME NEW t, StartAsset(t) \/ RequestUnconfirmed(t) \/ RequestConfirmed(t) \/ AliasAsset(t)
      PROVE  UNCHANGED <<jobs, seen>>
  BY <1>8 DEF StartAsset, RequestUnconfirmed, RequestConfirmed, AliasAsset
<1> QED
  BY <1>1, <1>3, <1>4, <1>5, <1>6, <1>7, <1>8 DEF Next, Work

LEMMA JobsInitial == MCInit => JobsInv
BY PrimaryJobsProperties DEF MCInit, Init, JobsInv, ListedPaths

LEMMA JobsStep == TInv /\ JobsInv /\ [MCNext]_mcVars => JobsInv'
<1> SUFFICES ASSUME TInv, JobsInv, [MCNext]_mcVars PROVE JobsInv'
  OBVIOUS
<1>0. jobs \in Jobs
  BY DEF TInv, TypeOK, Jobs
<1>1. CASE MCNext /\ TakeJob
  <2>1. begun' = begun \cup {Head(jobs).path} /\ seen' = seen
    BY <1>1 DEF MCNext, Observe, TakeJob
  <2>2. /\ DOMAIN jobs = 1 .. Len(jobs) /\ Len(jobs) \in Nat \ {0}
        /\ DOMAIN jobs' = 1 .. Len(jobs) - 1
        /\ \A i \in 1 .. Len(jobs) - 1 : jobs'[i] = jobs[i + 1] /\ i + 1 \in 1 .. Len(jobs)
        /\ Head(jobs) = jobs[1] /\ 1 \in 1 .. Len(jobs)
    BY <1>0, <1>1 DEF TakeJob, TakesJob, Jobs
  <2>3. PathsOf(jobs) = PathsOf(jobs') \cup {Head(jobs).path}
    <3>1. \A i \in 1 .. Len(jobs) : i = 1 \/ (i - 1 \in 1 .. Len(jobs) - 1 /\ (i - 1) + 1 = i)
      BY <2>2
    <3>2. \A i \in 1 .. Len(jobs) : jobs[i].path \in PathsOf(jobs') \cup {Head(jobs).path}
      <4> SUFFICES ASSUME NEW i \in 1 .. Len(jobs), i # 1
                   PROVE  \E j \in 1 .. Len(jobs) - 1 : jobs[i].path = jobs'[j].path
        BY <2>2 DEF PathsOf
      <4> QED
        BY <2>2, <3>1
    <3>3. \A i \in 1 .. Len(jobs) - 1 : jobs'[i].path \in PathsOf(jobs)
      BY <2>2 DEF PathsOf
    <3> QED
      BY <2>2, <3>2, <3>3 DEF PathsOf
  <2>4. \A i \in DOMAIN jobs' : jobs'[i].path \notin begun'
    <3> SUFFICES ASSUME NEW i \in DOMAIN jobs' PROVE jobs'[i].path \notin begun'
      OBVIOUS
    <3>1. i + 1 \in DOMAIN jobs /\ jobs'[i] = jobs[i + 1] /\ i + 1 # 1 /\ 1 \in DOMAIN jobs
      BY <2>2
    <3> QED
      BY <2>1, <2>2, <3>1 DEF JobsInv, Distinct
  <2>5. Distinct(jobs')
    <3> SUFFICES ASSUME NEW i \in DOMAIN jobs', NEW j \in DOMAIN jobs',
                        jobs'[i].path = jobs'[j].path
                 PROVE  i = j
      BY DEF Distinct
    <3>1. i + 1 = j + 1
      BY <2>2 DEF JobsInv, Distinct
    <3> QED
      BY <2>2, <3>1
  <2> QED
    BY <2>1, <2>3, <2>4, <2>5 DEF JobsInv
<1>2. CASE MCNext /\ AddsJob
  <2>1. PICK job \in [url : Urls, path : Paths] :
          job.path \notin seen /\ jobs' = Append(jobs, job) /\ seen' = seen \cup {job.path}
    BY <1>2 DEF AddsJob
  <2>2. /\ DOMAIN jobs = 1 .. Len(jobs) /\ Len(jobs) \in Nat
        /\ DOMAIN jobs' = 1 .. Len(jobs) + 1
        /\ \A i \in 1 .. Len(jobs) : jobs'[i] = jobs[i]
        /\ jobs'[Len(jobs) + 1] = job
    BY <1>0, <2>1 DEF Jobs
  <2>3. begun' = begun
    <3>1. ~ TakesJob
      BY <1>0, <2>1, AppendIsSeq, TailIsSeq DEF TakesJob, Jobs
    <3> QED
      BY <1>2, <3>1 DEF MCNext, Observe
  <2>4. PathsOf(jobs') = PathsOf(jobs) \cup {job.path}
    BY <2>2 DEF PathsOf
  <2>5. \A i \in 1 .. Len(jobs) : jobs[i].path \in seen
    BY <2>2 DEF JobsInv, PathsOf
  <2>6. Distinct(jobs')
    BY <2>1, <2>2, <2>5 DEF JobsInv, Distinct
  <2>7. \A i \in DOMAIN jobs' : jobs'[i].path \notin begun
    BY <2>1, <2>2 DEF JobsInv
  <2> QED
    BY <2>1, <2>3, <2>4, <2>6, <2>7 DEF JobsInv
<1>3. CASE MCNext /\ UNCHANGED <<jobs, seen>>
  <2>1. ~ TakesJob
    BY <1>0, <1>3, TailIsSeq DEF TakesJob, Jobs
  <2> QED
    BY <1>3, <2>1 DEF MCNext, Observe, JobsInv, PathsOf, Distinct
<1>4. CASE UNCHANGED mcVars
  BY <1>4 DEF mcVars, vars, observers, JobsInv, PathsOf, Distinct
<1> QED
  BY <1>1, <1>2, <1>3, <1>4, StepsOfTheJobs DEF MCNext

(* However the references of a site repeat, alias or form cycles, no local  *)
(* path is downloaded twice, by the listing or by any wave of linked files  *)
(* (seen_paths, src/src/downloader.rs:202-217, 1118-1126).                  *)
THEOREM PathsDownloadedOnce == MCSpec => NoPathTwice
<1>1. MCInit => TInv /\ JobsInv
  BY InitTyped, JobsInitial DEF MCInit
<1>2. TInv /\ JobsInv /\ [MCNext]_mcVars => TInv' /\ JobsInv'
  BY StepTyped, JobsStep DEF MCNext, mcVars, vars
<1>3. TInv /\ JobsInv /\ [MCNext]_mcVars => [TakesJob => Head(jobs).path \notin begun]_mcVars
  <2>1. TInv /\ JobsInv /\ TakesJob => Head(jobs).path \notin begun
    <3> SUFFICES ASSUME TInv, JobsInv, TakesJob PROVE Head(jobs).path \notin begun
      OBVIOUS
    <3>1. 1 \in DOMAIN jobs /\ Head(jobs) = jobs[1]
      BY TailIsSeq DEF TInv, TypeOK, TakesJob
    <3> QED
      BY <3>1 DEF JobsInv
  <2> QED
    BY <2>1
<1> QED
  BY <1>1, <1>2, <1>3, PTL DEF MCSpec, NoPathTwice

-----------------------------------------------------------------------------
\* The references of a run.

(* What the waves know of the references they have resolved.                *)
WavesInv ==
  /\ pending \subseteq checked
  /\ lookedUp \subseteq checked
  /\ pending \cap lookedUp = {}

LEMMA WavesInitial == MCInit => WavesInv
BY DEF MCInit, Init, WavesInv

(* A step starts a wave of references never checked before, or only takes   *)
(* references out of the one under way.                                     *)
WaveBegins ==
  /\ phase # "resolving"
  /\ pending' \cap checked = {}
  /\ pending' \subseteq checked'

WaveShrinks == pending' \subseteq pending

LEMMA StepsOfTheWaves ==
  ASSUME Next PROVE checked \subseteq checked' /\ (WaveBegins \/ WaveShrinks)
<1> USE DEF WaveShrinks, waveVars
<1>1. CASE Cancel \/ CancelledJob \/ SkippedJob \/ StartJob \/ PassEnds
  BY <1>1 DEF Cancel, CancelledJob, SkippedJob, StartJob, PassEnds
<1>2. ASSUME NEW status, NotDownloaded(status) \/ LinkedFileUnavailable(status)
      PROVE  UNCHANGED <<pending, checked>>
  BY <1>2 DEF NotDownloaded, LinkedFileUnavailable
<1>3. CASE JobEnds
  BY <1>2, <1>3 DEF JobEnds, Downloaded
<1>4. CASE NextWave
  BY <1>4 DEF NextWave, WaveBegins
<1>5. CASE WavesEnd \/ WaveResolved
  BY <1>5 DEF WavesEnd, WaveResolved
<1>6. ASSUME NEW u, AlreadyKnown(u) \/ LinkFound(u) \/ LinkUnavailable(u) \/ LookupFails(u)
      PROVE  WaveShrinks /\ UNCHANGED checked
  BY <1>6 DEF AlreadyKnown, LinkFound, LinkUnavailable, LookupFails
<1>7. CASE PageAliases \/ AssetRecovered \/ AssetUnavailable \/ AssetFails \/ AssetsEnd
           \/ RequestCopied \/ SourceUnavailable \/ RequestsEnd \/ AliasPassFails \/ Finish
  BY <1>7 DEF PageAliases, AssetRecovered, AssetUnavailable, AssetFails, AssetsEnd,
              RequestCopied, SourceUnavailable, RequestsEnd, AliasPassFails, Finish
<1>8. ASSUME NEW t, StartAsset(t) \/ RequestUnconfirmed(t) \/ RequestConfirmed(t) \/ AliasAsset(t)
      PROVE  UNCHANGED <<pending, checked>>
  BY <1>8 DEF StartAsset, RequestUnconfirmed, RequestConfirmed, AliasAsset
<1> QED
  BY <1>1, <1>3, <1>4, <1>5, <1>6, <1>7, <1>8 DEF Next, Work

(* What one step resolves has been resolved by no step before it.           *)
LEMMA StepResolvesAnew ==
  WavesInv /\ [MCNext]_mcVars => WavesInv' /\ [Resolves => Resolved \cap lookedUp = {}]_mcVars
<1> SUFFICES ASSUME WavesInv, [MCNext]_mcVars
             PROVE  WavesInv' /\ [Resolves => Resolved \cap lookedUp = {}]_mcVars
  OBVIOUS
<1>1. CASE MCNext
  <2>1. lookedUp' = IF Resolves THEN lookedUp \cup Resolved ELSE lookedUp
    BY <1>1 DEF MCNext, Observe
  <2>2. Resolves => phase = "resolving" /\ Resolved \subseteq pending /\ Resolved \cap pending' = {}
    BY DEF Resolves, Resolved
  <2>3. checked \subseteq checked' /\ (WaveBegins \/ WaveShrinks)
    BY <1>1, StepsOfTheWaves DEF MCNext
  <2>4. WavesInv'
    BY <2>1, <2>2, <2>3 DEF WavesInv, WaveBegins, WaveShrinks
  <2>5. Resolves => Resolved \cap lookedUp = {}
    BY <2>2 DEF WavesInv
  <2> QED
    BY <2>4, <2>5
<1>2. CASE UNCHANGED mcVars
  BY <1>2 DEF mcVars, vars, observers, WavesInv
<1> QED
  BY <1>1, <1>2

(* Whatever cycles the links form, the waves of linked files resolve each   *)
(* reference once: one that is not archived is looked up and counted once   *)
(* in a run (checked_references, src/src/downloader.rs:288-308).            *)
THEOREM ReferencesResolvedOnce == MCSpec => NoReferenceTwice
<1> QED
  BY WavesInitial, StepResolvesAnew, PTL DEF MCSpec, NoReferenceTwice

-----------------------------------------------------------------------------
\* What becomes of the references.

Settled(u) == u \in gaveUp \/ \E v \in Equivalent[u] \cup {u} : known[v] # None
AfterWaves == {"page aliases", "assets", "alternate pages", "asset aliases", "done"}

(* A reference that was returned waits for a wave, is in one, or is done    *)
(* with; what is known has had a job; and the waves leave nothing behind.   *)
OfferedInv == offered \subseteq refs \cup checked
KnownInv == \A u \in Urls : known[u] # None => known[u] \in seen
SettledInv == ~ cancelled => \A u \in checked : u \in pending \/ Settled(u)
FollowedInv == linked /\ ~ cancelled /\ phase \in AfterWaves => refs \subseteq checked
RefsInv == OfferedInv /\ KnownInv /\ SettledInv /\ FollowedInv

(* All that the steps outside of the waves do to the references.            *)
OutsideStep ==
  /\ UNCHANGED <<pending, checked, known, linked>>
  /\ refs \subseteq refs'
  /\ phase \in AfterWaves => refs' = refs
  /\ phase \notin AfterWaves /\ phase' \in AfterWaves => ~ linked \/ cancelled
  /\ seen' = seen
  /\ cancelled => cancelled'

LEMMA StepsOfTheReferences ==
  ASSUME TInv, Next
  PROVE  \/ NextWave \/ WavesEnd \/ WaveResolved \/ OutsideStep
         \/ \E u \in Urls : AlreadyKnown(u) \/ LinkFound(u) \/ LinkUnavailable(u)
<1> USE DEF waveVars, OutsideStep, AfterWaves, TInv
<1>1. CASE Cancel \/ CancelledJob \/ StartJob
  BY <1>1 DEF Cancel, CancelledJob, StartJob, Downloading
<1>2. CASE SkippedJob
  BY <1>2 DEF SkippedJob, Downloading
<1>3. CASE PassEnds
  BY <1>3 DEF PassEnds, StageInv
<1>4. CASE JobEnds
  <2>1. phase \notin AfterWaves
    BY <1>4 DEF JobEnds, Downloaded, NotDownloaded, LinkedFileUnavailable, StageInv
  <2>2. CASE Downloaded
    BY <2>1, <2>2 DEF Downloaded
  <2>3. ASSUME NEW status, NotDownloaded(status) \/ LinkedFileUnavailable(status)
        PROVE  OutsideStep
    <3>1. UNCHANGED <<phase, linked, refs, pending, checked, known, seen, cancelled>>
      BY <2>3 DEF NotDownloaded, LinkedFileUnavailable
    <3> QED
      BY <2>1, <3>1
  <2> QED
    BY <1>4, <2>2, <2>3 DEF JobEnds
<1>5. ASSUME NEW u, LookupFails(u) PROVE OutsideStep
  BY <1>5 DEF LookupFails, Abort
<1>6. CASE PageAliases \/ AssetRecovered \/ AssetUnavailable \/ AssetFails \/ AssetsEnd
           \/ RequestCopied \/ SourceUnavailable \/ RequestsEnd \/ AliasPassFails \/ Finish
  BY <1>6 DEF PageAliases, AssetRecovered, AssetUnavailable, AssetFails, AssetsEnd, TransferFails,
              RequestCopied, SourceUnavailable, RequestsEnd, AliasPassFails, Finish, Abort
<1>7. ASSUME NEW t, StartAsset(t) \/ RequestUnconfirmed(t) \/ RequestConfirmed(t) \/ AliasAsset(t)
      PROVE  OutsideStep
  BY <1>7 DEF StartAsset, RequestUnconfirmed, RequestConfirmed, Request, AliasAsset
<1> QED
  BY <1>1, <1>2, <1>3, <1>4, <1>5, <1>6, <1>7 DEF Next, Work

LEMMA RefsInitial == MCInit => RefsInv
BY DEF MCInit, Init, RefsInv, OfferedInv, KnownInv, SettledInv, FollowedInv, AfterWaves

(* What an observer of the run sees never shrinks.                          *)
LEMMA ObserversGrow ==
  ASSUME MCNext PROVE offered' \subseteq offered \cup refs' /\ gaveUp \subseteq gaveUp'
BY DEF MCNext, Observe

(* What was settled stays settled while paths stay known.                   *)
LEMMA SettledStays ==
  ASSUME MCNext, NEW u \in Urls, Settled(u), \A v \in Urls : known[v] # None => known'[v] # None
  PROVE  Settled(u)'
<1>1. Equivalent[u] \subseteq Urls
  BY MappingAssumption
<1> QED
  BY <1>1, ObserversGrow DEF Settled

LEMMA RefsStep == TInv /\ RefsInv /\ [MCNext]_mcVars => RefsInv'
<1> SUFFICES ASSUME TInv, RefsInv, [MCNext]_mcVars PROVE RefsInv'
  OBVIOUS
<1> USE DEF waveVars
<1>0. checked \subseteq Urls /\ known \in [Urls -> Paths \cup {None}] /\ pending \subseteq Urls
      /\ refs \subseteq Urls
  BY DEF TInv, TypeOK
<1>1. ASSUME MCNext, \A v \in Urls : known[v] # None => known'[v] # None, refs \cup checked \subseteq refs' \cup checked',
             ~ cancelled' => /\ ~ cancelled
                             /\ \A u \in checked' \ checked : u \in pending'
                             /\ \A u \in pending \ pending' : Settled(u)'
      PROVE  OfferedInv' /\ SettledInv'
  <2>1. OfferedInv'
    BY <1>1, ObserversGrow DEF RefsInv, OfferedInv
  <2>2. SettledInv'
    BY <1>0, <1>1, SettledStays DEF RefsInv, SettledInv
  <2> QED
    BY <2>1, <2>2
<1>2. ASSUME UNCHANGED known, seen \subseteq seen' PROVE KnownInv'
  BY <1>2 DEF RefsInv, KnownInv
<1>3. CASE MCNext /\ NextWave
  <2>1. pending = {}
    BY <1>3 DEF NextWave, TInv, StageInv
  <2>2. OfferedInv' /\ SettledInv'
    BY <1>1, <1>3, <2>1 DEF NextWave
  <2> QED
    BY <1>2, <1>3, <2>2 DEF NextWave, RefsInv, FollowedInv, AfterWaves
<1>4. CASE MCNext /\ WavesEnd
  <2>1. OfferedInv' /\ SettledInv'
    BY <1>1, <1>4 DEF WavesEnd
  <2> QED
    BY <1>2, <1>4, <2>1 DEF WavesEnd, RefsInv, FollowedInv
<1>5. CASE MCNext /\ WaveResolved
  <2>1. OfferedInv' /\ SettledInv'
    BY <1>1, <1>5 DEF WaveResolved
  <2> QED
    BY <1>2, <1>5, <2>1 DEF WaveResolved, RefsInv, FollowedInv, AfterWaves
<1>6. ASSUME NEW u \in Urls, MCNext, AlreadyKnown(u) PROVE RefsInv'
  <2>1. Settled(u)
    BY <1>0, <1>6, KnownPathProperties DEF AlreadyKnown, Settled
  <2>2. Settled(u)'
    BY <1>6, <2>1, SettledStays DEF AlreadyKnown
  <2>3. OfferedInv' /\ SettledInv'
    BY <1>1, <1>6, <2>2 DEF AlreadyKnown
  <2> QED
    BY <1>2, <1>6, <2>3 DEF AlreadyKnown, Resolving, RefsInv, FollowedInv, AfterWaves
<1>7. ASSUME NEW u \in Urls, MCNext, LinkFound(u) PROVE RefsInv'
  <2>1. PICK o \in Urls, p \in Paths : o = Original[u] /\ p = PathOf[o]
    BY <1>7, MappingAssumption DEF LinkFound
  <2>2. known' = [known EXCEPT ![u] = p, ![o] = p]
    BY <1>7, <2>1 DEF LinkFound
  <2>9. seen' = seen \cup {p}
    BY <1>7, <2>1 DEF LinkFound
  <2>3. p # None
    BY NoneAssumption
  <2>4. \A v \in Urls : known'[v] = IF v \in {u, o} THEN p ELSE known[v]
    BY <1>0, <2>2
  <2>5. Settled(u)'
    BY <2>3, <2>4 DEF Settled
  <2>6. OfferedInv' /\ SettledInv'
    BY <1>1, <1>7, <2>3, <2>4, <2>5 DEF LinkFound
  <2>7. ASSUME NEW v \in Urls, known'[v] # None PROVE known'[v] \in seen'
    <3>1. CASE v \in {u, o}
      BY <2>4, <2>9, <3>1
    <3>2. CASE v \notin {u, o}
      BY <2>4, <2>7, <2>9, <3>2 DEF RefsInv, KnownInv
    <3> QED
      BY <3>1, <3>2
  <2>8. KnownInv'
    BY <2>7 DEF KnownInv
  <2> QED
    BY <1>7, <2>6, <2>8 DEF LinkFound, Resolving, RefsInv, FollowedInv, AfterWaves
<1>8. ASSUME NEW u \in Urls, MCNext, LinkUnavailable(u) PROVE RefsInv'
  <2>1. report' # report
    <3>1. report \in [Counters -> Nat] /\ "linkedUnavailable" \in Counters
      BY DEF TInv, TypeOK, Counters
    <3>2. report'.linkedUnavailable = report.linkedUnavailable + 1 /\ report.linkedUnavailable \in Nat
      BY <1>8, <3>1, CountTyped DEF LinkUnavailable
    <3> QED
      BY <3>2
  <2>2. Resolves /\ Resolved = {u}
    BY <1>8 DEF LinkUnavailable, Resolving, Resolves, Resolved
  <2>3. Settled(u)'
    BY <1>8, <2>1, <2>2 DEF MCNext, Observe, Settled
  <2>4. OfferedInv' /\ SettledInv'
    BY <1>1, <1>8, <2>3 DEF LinkUnavailable
  <2> QED
    BY <1>2, <1>8, <2>4 DEF LinkUnavailable, Resolving, RefsInv, FollowedInv, AfterWaves
<1>9. CASE MCNext /\ OutsideStep
  <2>1. OfferedInv' /\ SettledInv'
    BY <1>1, <1>9 DEF OutsideStep
  <2>2. FollowedInv'
    BY <1>9 DEF OutsideStep, RefsInv, FollowedInv
  <2> QED
    BY <1>2, <1>9, <2>1, <2>2 DEF OutsideStep, RefsInv
<1>10. CASE UNCHANGED mcVars
  BY <1>10 DEF mcVars, vars, observers, RefsInv, OfferedInv, KnownInv, SettledInv, FollowedInv, Settled
<1> QED
  BY <1>3, <1>4, <1>5, <1>6, <1>7, <1>8, <1>9, <1>10, StepsOfTheReferences DEF MCNext

(* A run with linked files that is not cancelled has tried every reference  *)
(* it was given, or counted it unavailable (the while loop over             *)
(* extra_download_refs, src/src/downloader.rs:284-367).                     *)
THEOREM ReferencesAllFollowed == MCSpec => []NoReferenceLost
<1>1. MCInit => TInv /\ JobsInv /\ RefsInv
  BY InitTyped, JobsInitial, RefsInitial DEF MCInit
<1>2. TInv /\ JobsInv /\ RefsInv /\ [MCNext]_mcVars => TInv' /\ JobsInv' /\ RefsInv'
  BY StepTyped, JobsStep, RefsStep DEF MCNext, mcVars, vars
<1>3. TInv /\ JobsInv /\ RefsInv => NoReferenceLost
  <2> SUFFICES ASSUME TInv, JobsInv, RefsInv, phase = "done", linked, ~ cancelled, NEW u \in offered
               PROVE  u \in gaveUp \/ \E v \in Equivalent[u] \cup {u} : known[v] \in begun
    BY DEF NoReferenceLost
  <2>1. jobs = <<>> /\ pending = {}
    BY DEF TInv, StageInv
  <2>2. seen = begun
    BY <2>1 DEF JobsInv, PathsOf
  <2>3. u \in checked /\ u \in Urls
    BY DEF RefsInv, OfferedInv, FollowedInv, AfterWaves, TInv, TypeOK
  <2>4. Settled(u)
    BY <2>1, <2>3 DEF RefsInv, SettledInv
  <2>5. Equivalent[u] \cup {u} \subseteq Urls
    BY <2>3, MappingAssumption
  <2> QED
    BY <2>2, <2>4, <2>5 DEF Settled, RefsInv, KnownInv
<1> QED
  BY <1>1, <1>2, <1>3, PTL DEF MCSpec

-----------------------------------------------------------------------------
\* What the report adds up to.

Ended == report.downloaded + report.skipped + report.failed + report.unavailable + report.cancelled
InHand == Len(jobs) + (IF current = NoJob THEN 0 ELSE 1)

(* Every job is counted, waits for its turn or is being downloaded; the     *)
(* last step adds the cancellation of a run that was not cut short.         *)
Stopped == IF phase = "done" /\ cancelled /\ ~ cutShort THEN 1 ELSE 0
CountInv ==
  /\ queued \in Nat /\ cutShort \in BOOLEAN
  /\ cutShort => phase = "done"
  /\ Ended + InHand = Len(Discovered) + queued + Stopped

(* All that a step may do to the counts of the jobs.                        *)
CountStep ==
  \/ jobs # <<>> /\ jobs' = Tail(jobs) /\ current = NoJob /\ current' = NoJob /\ Ended' = Ended + 1
  \/ jobs # <<>> /\ jobs' = Tail(jobs) /\ current = NoJob /\ current' # NoJob /\ Ended' = Ended
  \/ jobs' = jobs /\ current # NoJob /\ current' = NoJob /\ Ended' = Ended + 1
  \/ current' = current /\ Ended' = Ended /\ (\E job \in [url : Urls, path : Paths] : jobs' = Append(jobs, job))
  \/ UNCHANGED <<jobs, current>> /\ (Finish \/ Ended' = Ended)

LEMMA CountCounts ==
  ASSUME TInv, NEW counter \in Counters, Count(counter)
  PROVE  /\ Ended \in Nat
         /\ Ended' = IF counter \in {"downloaded", "skipped", "failed", "unavailable", "cancelled"}
                     THEN Ended + 1 ELSE Ended
<1>1. report \in [Counters -> Nat]
  BY DEF TInv, TypeOK
<1>2. \A c \in Counters : report[c] \in Nat /\ report'[c] = IF c = counter THEN report[c] + 1 ELSE report[c]
  BY <1>1, CountTyped
<1>3. {"downloaded", "skipped", "failed", "unavailable", "cancelled"} \subseteq Counters
  BY DEF Counters
<1> QED
  BY <1>2, <1>3 DEF Ended

LEMMA StepsOfTheCounts ==
  ASSUME TInv, Next PROVE CountStep
<1> USE DEF CountStep
<1>0. \A c \in {"downloaded", "skipped", "cancelled", "failed", "unavailable", "linkedUnavailable",
                "recovered", "assetsUnavailable", "assetAliases"} : c \in Counters
  BY DEF Counters
<1>1. ASSUME UNCHANGED <<jobs, current, report>> PROVE CountStep
  BY <1>1 DEF Ended
<1>2. ASSUME NEW counter \in {"linkedUnavailable", "recovered", "assetsUnavailable", "assetAliases"},
             Count(counter), UNCHANGED <<jobs, current>>
      PROVE  CountStep
  BY <1>0, <1>2, CountCounts
<1>3. CASE Cancel \/ PassEnds \/ NextWave \/ WavesEnd \/ WaveResolved \/ PageAliases
           \/ AssetFails \/ AssetsEnd \/ SourceUnavailable \/ RequestsEnd \/ AliasPassFails
  BY <1>1, <1>3 DEF Cancel, PassEnds, NextWave, WavesEnd, WaveResolved, PageAliases, AssetFails,
                    AssetsEnd, SourceUnavailable, RequestsEnd, AliasPassFails
<1>4. CASE CancelledJob
  BY <1>0, <1>4, CountCounts DEF CancelledJob, Downloading
<1>5. CASE SkippedJob
  BY <1>0, <1>5, CountCounts DEF SkippedJob, Downloading
<1>6. CASE StartJob
  <2>1. current' # NoJob
    BY <1>6, TailTyped, NoJobIsNone DEF StartJob, Downloading, TInv
  <2>2. Ended' = Ended
    BY <1>6 DEF StartJob, Ended
  <2> QED
    BY <1>6, <2>1, <2>2 DEF StartJob, Downloading
<1>7. CASE Downloaded
  BY <1>0, <1>7, CountCounts DEF Downloaded
<1>8. ASSUME NEW status \in {"failed", "cancelled", "unavailable"}, NotDownloaded(status)
      PROVE  CountStep
  BY <1>0, <1>8, CountCounts DEF NotDownloaded
<1>9. ASSUME NEW status \in {"skipped", "unavailable"}, LinkedFileUnavailable(status)
      PROVE  CountStep
  <2>1. report \in [Counters -> Nat]
    BY DEF TInv, TypeOK
  <2>2. report' = [report EXCEPT ![status] = @ + 1, !.linkedUnavailable = @ + 1]
    BY <1>9 DEF LinkedFileUnavailable
  <2>3. \A c \in Counters : report[c] \in Nat /\
          report'[c] = IF c \in {status, "linkedUnavailable"} THEN report[c] + 1 ELSE report[c]
    BY <1>0, <2>1, <2>2
  <2>4. Ended' = Ended + 1
    BY <1>0, <2>3 DEF Ended
  <2> QED
    BY <1>9, <2>4 DEF LinkedFileUnavailable
<1>10. CASE JobEnds
  BY <1>7, <1>8, <1>9, <1>10 DEF JobEnds
<1>11. ASSUME NEW u \in Urls, AlreadyKnown(u) \/ LookupFails(u) PROVE CountStep
  BY <1>1, <1>11 DEF AlreadyKnown, LookupFails
<1>12. ASSUME NEW u \in Urls, LinkUnavailable(u) PROVE CountStep
  BY <1>2, <1>12 DEF LinkUnavailable
<1>13. ASSUME NEW u \in Urls, LinkFound(u) PROVE CountStep
  <2>1. UNCHANGED <<current, report>>
    BY <1>13 DEF LinkFound
  <2>2. Original[u] \in Urls /\ PathOf[Original[u]] \in Paths
    BY <1>13, MappingAssumption DEF LinkFound
  <2>3. Job(Original[u], PathOf[Original[u]]) \in [url : Urls, path : Paths]
    BY <2>2 DEF Job
  <2>4. jobs' = jobs \/ jobs' = Append(jobs, Job(Original[u], PathOf[Original[u]]))
    BY <1>13 DEF LinkFound
  <2>5. Ended' = Ended
    BY <2>1 DEF Ended
  <2> QED
    BY <2>1, <2>3, <2>4, <2>5
<1>14. CASE AssetRecovered \/ AssetUnavailable
  BY <1>2, <1>14 DEF AssetRecovered, AssetUnavailable
<1>15. ASSUME NEW t \in Paths,
              StartAsset(t) \/ RequestUnconfirmed(t) \/ RequestConfirmed(t)
      PROVE  CountStep
  BY <1>1, <1>15 DEF StartAsset, RequestUnconfirmed, RequestConfirmed
<1>16. ASSUME NEW t \in Paths, AliasAsset(t) PROVE CountStep
  BY <1>1, <1>2, <1>16 DEF AliasAsset, Copy
<1>17. CASE RequestCopied
  BY <1>2, <1>17 DEF RequestCopied, Copy
<1>18. CASE Finish
  BY <1>18 DEF Finish
<1> QED
  BY <1>3, <1>4, <1>5, <1>6, <1>10, <1>11, <1>12, <1>13, <1>14, <1>15, <1>16, <1>17, <1>18 DEF Next, Work

LEMMA CountsInitial == MCInit => CountInv
<1> SUFFICES ASSUME MCInit PROVE CountInv
  OBVIOUS
<1>1. Len(PrimaryJobs) \in Nat /\ Len(Discovered) \in Nat /\ Len(PrimaryJobs) <= Len(Discovered)
  BY PrimaryJobsProperties, ListingAssumption DEF Jobs
<1>2. \A c \in Counters : report[c] = IF c = "skipped" THEN Len(Discovered) - Len(PrimaryJobs) ELSE 0
  BY DEF MCInit, Init, Counters
<1>3. Ended = Len(Discovered) - Len(PrimaryJobs)
  BY <1>1, <1>2 DEF Ended, Counters
<1>4. InHand = Len(PrimaryJobs)
  BY <1>1 DEF InHand, MCInit, Init
<1> QED
  <2>1. queued = 0 /\ cutShort = FALSE /\ phase = "primary"
    BY DEF MCInit, Init
  <2>2. Stopped = 0
    BY <2>1 DEF Stopped
  <2>3. Ended + InHand = Len(Discovered) + queued + Stopped /\ queued \in Nat
    BY <1>1, <1>3, <1>4, <2>1, <2>2
  <2> QED
    BY <2>1, <2>3 DEF CountInv

(* A run that is done takes no step.                                        *)
LEMMA DoneIsLast == TInv /\ Next => phase # "done"
<1> SUFFICES ASSUME TInv, Next, phase = "done" PROVE FALSE
  OBVIOUS
<1>1. current = NoJob /\ jobs = <<>> /\ asset = None
  BY DEF TInv, StageInv
<1>2. ~ (Cancel \/ CancelledJob \/ SkippedJob \/ StartJob \/ PassEnds \/ NextWave \/ WavesEnd
         \/ WaveResolved \/ PageAliases \/ AssetsEnd \/ RequestsEnd \/ AliasPassFails \/ Finish)
  BY DEF Cancel, CancelledJob, SkippedJob, StartJob, Downloading, PassEnds, NextWave, WavesEnd,
         WaveResolved, PageAliases, AssetsEnd, RequestsEnd, AliasPassFails, Finish
<1>3. ~ (JobEnds \/ AssetRecovered \/ AssetUnavailable \/ AssetFails \/ RequestCopied
         \/ SourceUnavailable)
  BY <1>1 DEF JobEnds, Downloaded, NotDownloaded, LinkedFileUnavailable, AssetRecovered,
              AssetUnavailable, AssetFails, RequestCopied, SourceUnavailable
<1>4. \A u \in Urls : ~ (AlreadyKnown(u) \/ LinkFound(u) \/ LinkUnavailable(u) \/ LookupFails(u))
  BY DEF AlreadyKnown, LinkFound, LinkUnavailable, LookupFails, Resolving
<1>5. \A t \in Paths : ~ (StartAsset(t) \/ RequestUnconfirmed(t) \/ RequestConfirmed(t)
                          \/ AliasAsset(t))
  BY DEF StartAsset, RequestUnconfirmed, RequestConfirmed, Request, AliasAsset
<1> QED
  BY <1>2, <1>3, <1>4, <1>5 DEF Next, Work

(* A run is done when its listing has been cancelled, and when every pass is.*)
LEMMA TwoEndings ==
  ASSUME TInv, Next, phase' = "done"
  PROVE  \/ PassEnds /\ phase = "primary" /\ report.cancelled > 0
         \/ Finish
<1>0. phase # "done"
  BY DoneIsLast
<1>1. ~ (Cancel \/ CancelledJob \/ SkippedJob \/ StartJob \/ NextWave \/ WavesEnd
         \/ WaveResolved \/ PageAliases \/ AssetsEnd \/ RequestsEnd \/ AliasPassFails)
  BY <1>0 DEF Cancel, CancelledJob, SkippedJob, StartJob, NextWave, WavesEnd, WaveResolved,
              PageAliases, AssetsEnd, RequestsEnd, AliasPassFails, Abort
<1>2. ~ (JobEnds \/ AssetRecovered \/ AssetUnavailable \/ AssetFails \/ RequestCopied
         \/ SourceUnavailable)
  BY <1>0 DEF JobEnds, Downloaded, NotDownloaded, LinkedFileUnavailable, AssetRecovered,
              AssetUnavailable, AssetFails, TransferFails, Abort, RequestCopied, SourceUnavailable
<1>3. \A u \in Urls : ~ (AlreadyKnown(u) \/ LinkFound(u) \/ LinkUnavailable(u) \/ LookupFails(u))
  BY <1>0 DEF AlreadyKnown, LinkFound, LinkUnavailable, LookupFails, Abort
<1>4. \A t \in Paths : ~ (StartAsset(t) \/ RequestUnconfirmed(t) \/ RequestConfirmed(t)
                          \/ AliasAsset(t))
  BY <1>0 DEF StartAsset, RequestUnconfirmed, RequestConfirmed, AliasAsset
<1>5. PassEnds => phase = "primary" /\ report.cancelled > 0
  BY DEF PassEnds
<1> QED
  BY <1>1, <1>2, <1>3, <1>4, <1>5 DEF Next, Work

(* The last step counts the cancellation.                                   *)
LEMMA FinishCounts ==
  ASSUME TInv, Finish
  PROVE  /\ phase = "asset aliases" /\ phase' = "done" /\ UNCHANGED <<jobs, current, cancelled>>
         /\ report'.cancelled = IF cancelled THEN report.cancelled + 1 ELSE report.cancelled
         /\ Ended' = IF cancelled THEN Ended + 1 ELSE Ended
<1>1. report \in [Counters -> Nat]
  BY DEF TInv, TypeOK
<1>2. {"downloaded", "skipped", "failed", "unavailable", "cancelled", "assetsUnavailable"} \subseteq Counters
  BY DEF Counters
<1>3. \A c \in Counters : report[c] \in Nat /\
        (c # "assetsUnavailable" =>
           report'[c] = IF c = "cancelled" /\ cancelled THEN report[c] + 1 ELSE report[c])
  BY <1>1 DEF Finish
<1>4. /\ report'.downloaded = report.downloaded /\ report'.skipped = report.skipped
      /\ report'.failed = report.failed /\ report'.unavailable = report.unavailable
      /\ report'.cancelled = IF cancelled THEN report.cancelled + 1 ELSE report.cancelled
  BY <1>2, <1>3
<1>5. /\ report.downloaded \in Nat /\ report.skipped \in Nat /\ report.failed \in Nat
      /\ report.unavailable \in Nat /\ report.cancelled \in Nat
  BY <1>2, <1>3
<1>6. Ended' = IF cancelled THEN Ended + 1 ELSE Ended
  BY <1>4, <1>5 DEF Ended
<1> QED
  BY <1>4, <1>6 DEF Finish

LEMMA CountsTyped ==
  ASSUME TInv
  PROVE  Ended \in Nat /\ jobs \in Seq([url : Urls, path : Paths]) /\ Len(jobs) \in Nat
<1>1. jobs \in Seq([url : Urls, path : Paths]) /\ report \in [Counters -> Nat]
  BY DEF TInv, TypeOK
<1>2. \A c \in Counters : report[c] \in Nat
  BY <1>1
<1>3. Ended \in Nat
  BY <1>2 DEF Ended, Counters
<1>4. Len(jobs) \in Nat
  BY <1>1
<1> QED
  BY <1>1, <1>3, <1>4

LEMMA CountsStep == TInv /\ CountInv /\ [MCNext]_mcVars => CountInv'
<1> SUFFICES ASSUME TInv, CountInv, [MCNext]_mcVars PROVE CountInv'
  OBVIOUS
<1>1. Ended \in Nat /\ Len(jobs) \in Nat /\ Len(Discovered) \in Nat /\ queued \in Nat
  BY CountsTyped, ListingAssumption DEF CountInv
<1>2. CASE UNCHANGED mcVars
  BY <1>2 DEF mcVars, vars, observers, CountInv, Ended, InHand, Stopped
<1>3. CASE MCNext
  <2>1. queued' = IF Len(jobs') > Len(jobs) THEN queued + 1 ELSE queued
    BY <1>3 DEF MCNext, Observe
  <2>2. /\ phase # "done" /\ ~ cutShort /\ Stopped = 0
        /\ cutShort' = (phase = "primary" /\ phase' = "done")
    BY <1>3, DoneIsLast DEF MCNext, Observe, CountInv, Stopped
  <2>0. ASSUME ~ Finish PROVE Stopped' = 0
    BY <1>3, <2>0, <2>2, TwoEndings DEF MCNext, Stopped
  <2>7. CASE Finish
    <3>1. queued' = queued /\ InHand' = InHand
      <4>1. UNCHANGED <<jobs, current>>
        BY <2>7, FinishCounts
      <4> QED
        BY <1>1, <2>1, <4>1 DEF InHand
    <3>2. ~ cutShort' /\ Stopped' = IF cancelled THEN 1 ELSE 0
      <4>1. phase = "asset aliases" /\ phase' = "done" /\ cancelled' = cancelled
        BY <2>7, FinishCounts
      <4> QED
        BY <2>2, <4>1 DEF Stopped
    <3>3. Ended' + InHand' = Ended + InHand + Stopped'
      <4>1. Ended' = IF cancelled THEN Ended + 1 ELSE Ended
        BY <2>7, FinishCounts
      <4>2. InHand \in Nat
        BY <1>1 DEF InHand
      <4> QED
        BY <1>1, <3>1, <3>2, <4>1, <4>2
    <3>4. Ended' + InHand' = Len(Discovered) + queued' + Stopped'
      BY <1>1, <2>2, <3>1, <3>2, <3>3 DEF CountInv
    <3>5. cutShort' \in BOOLEAN
      BY <3>2, <2>2
    <3> QED
      BY <1>1, <3>1, <3>2, <3>4, <3>5 DEF CountInv
  <2>3. CountStep
    BY <1>3, StepsOfTheCounts DEF MCNext
  <2>8. ASSUME ~ Finish, Ended' + InHand' = Ended + InHand + (queued' - queued), queued' \in Nat
        PROVE  CountInv'
    <3>1. Ended' + InHand' = Len(Discovered) + queued' + Stopped'
      BY <1>1, <2>0, <2>2, <2>8 DEF CountInv, InHand
    <3>2. cutShort' \in BOOLEAN /\ (cutShort' => phase' = "done")
      BY <2>2
    <3> QED
      BY <2>8, <3>1, <3>2 DEF CountInv
  <2>9. Finish => jobs' = jobs
    BY FinishCounts
  <2>4. CASE jobs # <<>> /\ jobs' = Tail(jobs)
    <3>1. Len(jobs') = Len(jobs) - 1
      BY <2>4, CountsTyped, TailIsSeq
    <3>2. queued' = queued
      BY <1>1, <2>1, <3>1
    <3>3. ~ \E job \in [url : Urls, path : Paths] : jobs' = Append(jobs, job)
      BY <1>1, <3>1, CountsTyped, AppendIsSeq
    <3>4. jobs' # jobs
      BY <1>1, <3>1
    <3>5. Ended' + InHand' = Ended + InHand
      BY <1>1, <2>3, <3>1, <3>3, <3>4 DEF CountStep, InHand
    <3> QED
      BY <1>1, <2>8, <2>9, <3>2, <3>4, <3>5 DEF InHand
  <2>5. CASE \E job \in [url : Urls, path : Paths] : jobs' = Append(jobs, job)
    <3>1. Len(jobs') = Len(jobs) + 1
      BY <2>5, CountsTyped, AppendIsSeq
    <3>2. queued' = queued + 1
      BY <1>1, <2>1, <3>1
    <3>3. ~ (jobs # <<>> /\ jobs' = Tail(jobs))
      BY <1>1, <3>1, CountsTyped, TailIsSeq
    <3>4. jobs' # jobs
      BY <1>1, <3>1
    <3>5. Ended' + InHand' = Ended + InHand + 1
      BY <1>1, <2>3, <3>1, <3>3, <3>4 DEF CountStep, InHand
    <3> QED
      BY <1>1, <2>8, <2>9, <3>2, <3>4, <3>5 DEF InHand
  <2>6. CASE jobs' = jobs /\ ~ Finish
    <3>1. queued' = queued
      BY <1>1, <2>1, <2>6
    <3>2. ~ (jobs # <<>> /\ jobs' = Tail(jobs))
      BY <2>6, CountsTyped, TailIsSeq
    <3>3. ~ \E job \in [url : Urls, path : Paths] : jobs' = Append(jobs, job)
      BY <1>1, <2>6, CountsTyped, AppendIsSeq
    <3>4. Ended' + InHand' = Ended + InHand
      BY <1>1, <2>3, <2>6, <3>2, <3>3 DEF CountStep, InHand
    <3> QED
      BY <1>1, <2>6, <2>8, <3>1, <3>4 DEF InHand
  <2> QED
    BY <2>3, <2>4, <2>5, <2>6, <2>7 DEF CountStep
<1> QED
  BY <1>2, <1>3

(* The report of every run that ends has each URL of the listing and each   *)
(* linked file in exactly one of its counts, whichever were skipped, failed *)
(* or found unavailable and whenever the run was cancelled, in the listing  *)
(* or after it (download_site).                                             *)
THEOREM ReportAddsUp == MCSpec => []EveryJobCounted
<1>1. MCInit => TInv /\ CountInv
  BY InitTyped, CountsInitial DEF MCInit
<1>2. TInv /\ CountInv /\ [MCNext]_mcVars => TInv' /\ CountInv'
  BY StepTyped, CountsStep DEF MCNext, mcVars, vars
<1>3. TInv /\ CountInv => EveryJobCounted
  <2> SUFFICES ASSUME TInv, CountInv, phase = "done" PROVE EveryJobCounted
    BY DEF EveryJobCounted
  <2>1. Ended \in Nat /\ queued \in Nat /\ Len(Discovered) \in Nat
    BY CountsTyped, ListingAssumption DEF CountInv
  <2>2. InHand = 0
    BY DEF TInv, StageInv, InHand
  <2>3. Ended = Len(Discovered) + queued + Stopped
    BY <2>1, <2>2 DEF CountInv
  <2> QED
    BY <2>3 DEF EveryJobCounted, Ended, Stopped
<1> QED
  BY <1>1, <1>2, <1>3, PTL DEF MCSpec

(* A report that counts nothing as cancelled is that of a run that nobody   *)
(* cancelled, at whatever moment of the run (download_site).                *)
THEOREM CancelledRunsAreTold == MCSpec => []CancelledRunsSaySo
<1>1. MCInit => TInv /\ CancelledRunsSaySo
  BY InitTyped DEF MCInit, Init, CancelledRunsSaySo
<1>2. TInv /\ CancelledRunsSaySo /\ [MCNext]_mcVars => TInv' /\ CancelledRunsSaySo'
  <2> SUFFICES ASSUME TInv, CancelledRunsSaySo, [MCNext]_mcVars PROVE CancelledRunsSaySo'
    BY StepTyped DEF MCNext, mcVars, vars
  <2>1. CASE UNCHANGED mcVars
    BY <2>1 DEF mcVars, vars, CancelledRunsSaySo
  <2>2. CASE MCNext /\ phase' # "done"
    BY <2>2 DEF CancelledRunsSaySo
  <2>3. CASE PassEnds /\ report.cancelled > 0
    BY <2>3 DEF PassEnds, CancelledRunsSaySo, TInv, StageInv
  <2>4. CASE Finish
    <3>1. report.cancelled \in Nat /\ (report.cancelled > 0 => cancelled)
      BY DEF TInv, TypeOK, StageInv, Counters
    <3>2. /\ cancelled' = cancelled
          /\ report'.cancelled = IF cancelled THEN report.cancelled + 1 ELSE report.cancelled
      BY <2>4, FinishCounts
    <3>3. report'.cancelled > 0 <=> cancelled
      BY <3>1, <3>2
    <3> QED
      BY <3>2, <3>3 DEF CancelledRunsSaySo
  <2> QED
    BY <2>1, <2>2, <2>3, <2>4, TwoEndings DEF MCNext
<1> QED
  BY <1>1, <1>2, PTL DEF MCSpec
=============================================================================
