------------------------------ MODULE SiteMapper ------------------------------
(***************************************************************************)
(* Where a capture is stored and what a reference to it becomes:            *)
(* src/src/pathmap.rs with the decisions of noise.rs, rewrite.rs,           *)
(* download_refs.rs and link_validation.rs that are taken from a URL alone. *)
(*                                                                          *)
(* A URL is parsed: [scheme, host, port, segs, slash, query], its host a    *)
(* sequence of labels, its path the non-empty segments and whether a "/"    *)
(* ends it. A segment is a sequence of parts, those between its dots. A     *)
(* query is None or a set of [key, value] pairs, in lower case and without  *)
(* a stray "amp;" before the key.                                           *)
(* A local path is a sequence of names [parts, hash]; the hash stands for   *)
(* "__q_" and the FNV hash of a query, which is taken to be injective.      *)
(***************************************************************************)
EXTENDS Naturals, Sequences, FiniteSets

CONSTANTS
  None,
  RootHost,   \* the host of the target URL
  Clean(_),   \* sanitize_segment of one part of a name
  Decoded(_), \* percent_decode of one part of a name
  Encoded(_)  \* path_segments_mut().extend of one part of a name

ASSUME RootHostAssumption == RootHost \in Seq(STRING) /\ RootHost # <<>>

(* Decoding leaves a part without escapes as it is.                         *)
ASSUME DecodingAssumption == Decoded("html") = "html"

Schemes == {"http", "https"}
FrontOf(s) == SubSeq(s, 1, Len(s) - 1)
LastOf(s) == s[Len(s)]
EndsWith(s, t) == Len(t) <= Len(s) /\ SubSeq(s, Len(s) - Len(t) + 1, Len(s)) = t

IsSequence(s) == s \in Seq({s[i] : i \in DOMAIN s})

-----------------------------------------------------------------------------
\* Hosts and queries.
Bare(host) == IF Head(host) = "www" THEN Tail(host) ELSE host
PrimaryHosts == {RootHost, IF Head(RootHost) = "www" THEN Tail(RootHost)
                           ELSE <<"www">> \o RootHost}
IsPrimary(host) == host \in PrimaryHosts
IsRelated(host) ==
  \/ IsPrimary(host)
  \/ Len(host) > Len(Bare(RootHost)) /\ EndsWith(host, Bare(RootHost))

VolatileKeys ==
  {"sid", "sessionid", "session_id", "phpsessid", "jsessionid", "aspsessionid", "cfid",
   "cftoken", "cron_type", "amp", "highlight", "mark", "postdays", "postorder", "sd", "sk",
   "ticket", "st", "view"}

CanonicalQuery(query) ==
  IF query = None \/ \A pair \in query : pair.key \in VolatileKeys THEN None
  ELSE {pair \in query : pair.key \notin VolatileKeys}

Normalized(url) == [url EXCEPT !.query = CanonicalQuery(@)]

-----------------------------------------------------------------------------
\* The local path of a capture.
Name(parts) == [parts |-> parts, hash |-> None]
IndexHtml == Name(<<"index", "html">>)
IndexHtm == Name(<<"index", "htm">>)
HostsDir == Name(<<"_hosts">>)

Extension(parts) == IF Len(parts) > 1 THEN LastOf(parts) ELSE None
HtmlExtensions == {"html", "htm", "xhtml"}
HtmlTypes == {"text/html", "application/xhtml+xml"}
OctetStream == "application/octet-stream"

(* The extensions a MIME type may have; the first is the one appended.      *)
ExtensionsFor(mime) ==
  CASE mime \in {"application/atom+xml", "application/rss+xml", "application/xml", "text/xml"}
         -> <<"xml", "rss", "atom">>
    [] mime \in {"application/javascript", "application/x-javascript", "text/javascript"}
         -> <<"js", "mjs">>
    [] mime \in {"image/jpeg", "image/jpg"} -> <<"jpg", "jpeg", "jpe">>
    [] mime = "application/json" -> <<"json">>
    [] mime = "application/pdf" -> <<"pdf">>
    [] mime = "font/ttf" -> <<"ttf">>
    [] mime = "font/woff" -> <<"woff">>
    [] mime = "font/woff2" -> <<"woff2">>
    [] mime = "image/gif" -> <<"gif">>
    [] mime = "image/png" -> <<"png">>
    [] mime = "image/svg+xml" -> <<"svg">>
    [] mime = "image/webp" -> <<"webp">>
    [] mime = "image/x-icon" -> <<"ico">>
    [] mime = "text/css" -> <<"css">>
    [] mime = "text/plain" -> <<"txt">>
    [] OTHER -> <<>>

WithExtension(parts, mime) ==
  LET own == {ExtensionsFor(mime)[i] : i \in DOMAIN ExtensionsFor(mime)}
  IN  IF mime \in HtmlTypes
      THEN IF Extension(parts) \in HtmlExtensions THEN parts ELSE Append(parts, "html")
      ELSE IF own = {} \/ Extension(parts) \in own THEN parts
      ELSE Append(parts, ExtensionsFor(mime)[1])

CleanName(seg) == [i \in DOMAIN seg |-> Clean(seg[i])]

HostDirs(host) == IF IsPrimary(host) THEN <<>> ELSE <<HostsDir, Name(host)>>

LocalPath(url, mime) ==
  LET segs == [i \in DOMAIN url.segs |-> CleanName(url.segs[i])]
      index == \/ url.segs = <<>> \/ url.slash
               \/ mime \in HtmlTypes /\ Extension(LastOf(segs)) = None
      dirs == IF index THEN segs ELSE FrontOf(segs)
      file == IF index THEN IndexHtml ELSE Name(WithExtension(LastOf(segs), mime))
  IN  HostDirs(url.host) \o [i \in DOMAIN dirs |-> Name(dirs[i])]
        \o <<[file EXCEPT !.hash = CanonicalQuery(url.query)]>>

(* records_to_paths: known paths by normalised URL; the last record wins.   *)
RecordsToPaths(records) ==
  LET keys == {Normalized(records[i].url) : i \in DOMAIN records}
      last(k) == CHOOSE i \in DOMAIN records :
                   /\ Normalized(records[i].url) = k
                   /\ \A j \in DOMAIN records : Normalized(records[j].url) = k => j <= i
  IN  [k \in keys |-> LocalPath(records[last(k)].url, records[last(k)].mime)]

(* known_path_for_url: the exact URL, else the other spellings if they agree.*)
Spellings(url) ==
  LET hosts == IF IsPrimary(url.host) THEN PrimaryHosts ELSE {url.host}
  IN  {Normalized([url EXCEPT !.host = h, !.scheme = s]) : h \in hosts, s \in Schemes}
KnownPath(url, known) ==
  LET found == {known[v] : v \in Spellings(url) \cap DOMAIN known}
  IN  IF Normalized(url) \in DOMAIN known THEN known[Normalized(url)]
      ELSE IF IsRelated(url.host) /\ url.port = None /\ Cardinality(found) = 1
           THEN CHOOSE p \in found : TRUE
      ELSE None

(* original_url_candidates_for_local_path, with a query put back.           *)
Candidates(path, query) ==
  LET elsewhere == Len(path) >= 3 /\ path[1] = HostsDir
      hosts == IF elsewhere THEN {path[2].parts} ELSE PrimaryHosts
      names == IF elsewhere THEN SubSeq(path, 3, Len(path)) ELSE path
      segs == [i \in DOMAIN names |->
                 [j \in DOMAIN names[i].parts |-> Encoded(names[i].parts[j])]]
  IN  {[scheme |-> s, host |-> h, port |-> None, segs |-> segs, slash |-> FALSE,
        query |-> query] : s \in Schemes, h \in hosts}

-----------------------------------------------------------------------------
\* References: an absolute URL, or one relative to a page or to the root.
Absolute(url) == [kind |-> "absolute", url |-> url]
Local(rooted, up, down, query) ==
  [kind |-> "local", rooted |-> rooted, up |-> up, down |-> down, slash |-> FALSE,
   query |-> query]

(* Url::join.                                                               *)
Join(base, ref) ==
  LET dir == IF base.slash THEN base.segs ELSE FrontOf(base.segs)
      from == IF ref.rooted THEN <<>> ELSE SubSeq(dir, 1, Len(dir) - ref.up)
  IN  IF ref.kind = "absolute" THEN ref.url
      ELSE [base EXCEPT !.segs = from \o [i \in DOMAIN ref.down |-> ref.down[i].parts],
                        !.slash = ref.slash, !.query = ref.query]

(* How far two paths agree.                                                 *)
Common(from, to) ==
  CHOOSE k \in 0..Len(from) :
    /\ k <= Len(to) /\ \A i \in 1..k : from[i] = to[i]
    /\ k = Len(from) \/ k = Len(to) \/ from[k + 1] # to[k + 1]

(* relative_link from one file to another.                                  *)
RelativeLink(from, to) ==
  LET dir == FrontOf(from)
      k == Common(dir, to)
  IN  Local(FALSE, Len(dir) - k, SubSeq(to, k + 1, Len(to)), None)

DecodedName(name) ==
  [name EXCEPT !.parts = [i \in DOMAIN name.parts |-> Decoded(name.parts[i])]]

(* resolve_local_reference: the file a browser opens, None outside the root.*)
ResolveLocal(from, ref) ==
  LET dir == FrontOf(from)
  IN  IF ref.kind = "absolute" \/ (~ ref.rooted /\ ref.up > Len(dir)) THEN None
      ELSE (IF ref.rooted THEN <<>> ELSE SubSeq(dir, 1, Len(dir) - ref.up))
             \o [i \in DOMAIN ref.down |-> DecodedName(ref.down[i])]

(* target_exists_for_static_host.                                           *)
TargetExists(files, target) ==
  target \in files \/ \E index \in {IndexHtml, IndexHtm} : Append(target, index) \in files

-----------------------------------------------------------------------------
\* What a URL, a path and a reference are made of.
IsUrl(url) ==
  /\ url = [scheme |-> url.scheme, host |-> url.host, port |-> url.port,
            segs |-> url.segs, slash |-> url.slash, query |-> url.query]
  /\ IsSequence(url.host)
  /\ IsSequence(url.segs) /\ \A i \in DOMAIN url.segs : IsSequence(url.segs[i])

IsName(name) ==
  name = [parts |-> name.parts, hash |-> name.hash] /\ IsSequence(name.parts)
AreNames(names) == IsSequence(names) /\ \A i \in DOMAIN names : IsName(names[i])
IsPath(path) == AreNames(path) /\ path # <<>>

IsReference(ref) ==
  \/ ref.kind = "absolute" /\ ref = Absolute(ref.url) /\ IsUrl(ref.url)
  \/ /\ ref.kind = "local"
     /\ ref = [Local(ref.rooted, ref.up, ref.down, ref.query) EXCEPT !.slash = ref.slash]
     /\ ref.rooted \in BOOLEAN /\ ref.up \in Nat /\ AreNames(ref.down)

-----------------------------------------------------------------------------
\* Noise: URLs that are never worth a capture of their own.
StaticTypes ==
  {"image/gif", "image/jpeg", "image/jpg", "image/png", "image/svg+xml", "image/webp",
   "image/x-icon", "font/ttf", "font/woff", "font/woff2", "audio/mpeg", "video/mp4",
   "application/atom+xml", "application/javascript", "application/json",
   "application/octet-stream", "application/pdf", "application/rss+xml",
   "application/x-javascript", "application/xml", "text/css", "text/javascript", "text/xml"}

StaticHints ==
  {"css", "js", "mjs", "gif", "jpg", "jpeg", "jpe", "png", "svg", "webp", "ico", "ttf",
   "woff", "woff2", "mp3", "wav", "ogg", "mp4", "webm", "mov", "pdf", "rss", "atom", "xml"}

Actions == {"add", "remove", "delete", "checkout", "purchase", "logout", "empty", "setcurrency"}

FileName(url) == IF url.slash \/ url.segs = <<>> THEN <<>> ELSE LastOf(url.segs)

PlaceholderPath(url) ==
  \/ /\ url.segs # <<>>
     /\ Head(url.segs) \in {<<"cgi-sys">>, <<"img-sys">>, <<"sys_cpanel">>}
     /\ Len(url.segs) > 1 \/ url.slash
  \/ url.segs = <<<<"welcome", "png">>>> /\ ~ url.slash
  \/ FileName(url) \in {<<"defaultwebpage", "cgi">>, <<"resellerpurchase", "cgi">>}

ChangesState(pair) ==
  \/ pair.key = "action" /\ pair.value \in Actions
  \/ pair.key = "mark" /\ pair.value \in {"topics", "forums", "all"}

(* A query that selects nothing, or a topic page without one.               *)
NoiseQuery(url) ==
  IF url.query = None
  THEN FileName(url) \in {<<"viewforum", "php">>, <<"viewtopic", "php">>}
  ELSE CanonicalQuery(url.query) = None \/ \E pair \in url.query : ChangesState(pair)

IsNoise(url, mime) == PlaceholderPath(url) \/ (mime \notin StaticTypes /\ NoiseQuery(url))

IsNoiseReference(url) ==
  PlaceholderPath(url) \/ (Extension(FileName(url)) \notin StaticHints /\ NoiseQuery(url))

-----------------------------------------------------------------------------
\* What references become, and which are followed.
DownloadableExtensions ==
  {"7z", "apk", "bin", "bz2", "deb", "dmg", "exe", "gz", "iso", "jar", "msi", "pkg", "rar",
   "rpm", "sit", "sitx", "tar", "tgz", "xz", "zip"}
ResourceExtensions ==
  {"atom", "bmp", "css", "eot", "gif", "ico", "jpe", "jpeg", "jpg", "js", "json", "m4a", "mid",
   "midi", "mjs", "mov", "mp3", "mp4", "ogg", "otf", "pdf", "png", "rss", "svg", "swf", "ttf",
   "txt", "wav", "webm", "webp", "woff", "woff2", "xml"}
IsDownloadable(url) == Extension(FileName(url)) \in DownloadableExtensions
IsExtraFile(url) == IsDownloadable(url) \/ Extension(FileName(url)) \in ResourceExtensions

(* The MIME type a reference is guessed to have while it has no record.     *)
GuessedType(page, url, kind) ==
  IF \/ kind = "resource" \/ IsDownloadable(url)
     \/ IsExtraFile(url) /\ Bare(url.host) # Bare(page.host)
  THEN OctetStream ELSE "text/html"

\* Not the code: the known paths are not asked.
GuessedTarget(page, url, kind, known) ==
  IF IsNoiseReference(url) \/ ~ IsRelated(url.host) THEN None
  ELSE LocalPath(url, GuessedType(page, url, kind))

(* rewrite_url_reference_as: the path a reference is pointed to, or None if *)
(* it is left as it is. Pages are of related hosts and a mapper is given.   *)
LinkTarget(page, url, kind, known) ==
  IF KnownPath(url, known) # None THEN KnownPath(url, known)
  ELSE IF IsNoiseReference(url) \/ ~ IsRelated(url.host) THEN None
  ELSE LocalPath(url, GuessedType(page, url, kind))

Rewrite(page, file, ref, kind, known) ==
  LET target == LinkTarget(page, Join(page, ref), kind, known)
  IN  IF target = None THEN ref ELSE RelativeLink(file, target)

(* extract_related_references: what a page refers to that may be archived.  *)
WorthFollowing(urls) == {u \in urls : IsRelated(u.host) /\ ~ IsNoiseReference(u)}
RelatedReferences(page, refs) == WorthFollowing({Join(page, ref) : ref \in refs})
=============================================================================
