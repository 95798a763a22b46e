--------------------------- MODULE ResumedRun_proofs ---------------------------
(***************************************************************************)
(* For every site, listing and archive and for any number of runs and       *)
(* incidents: facts about the mapping of URLs to paths and about topic      *)
(* aliases, and from them TypeOK, EvidenceHolds, ListedPagesArrive,         *)
(* RepairSettles, LinksArrive, ResumeLosesNothing and AliasesFillGaps as    *)
(* invariants of ResumedRun.                                                *)
(***************************************************************************)
EXTENDS ResumedRun, OrderFacts, SequenceTheorems

LEMMA FrontIsSeq ==
  ASSUME NEW N, NEW s \in Seq(N), s # <<>>
  PROVE  FrontOf(s) \in Seq(N)
BY DEF FrontOf

(* Two paths have a first place where they differ or one of them ends.      *)
LEMMA CommonPrefix ==
  ASSUME NEW N, NEW s \in Seq(N), NEW t \in Seq(N)
  PROVE  /\ Common(s, t) \in 0..Len(s)
         /\ Common(s, t) <= Len(t)
         /\ \A i \in 1..Common(s, t) : s[i] = t[i]
<1> DEFINE T == {k \in Nat : k = Len(s) \/ k = Len(t) \/ s[k + 1] # t[k + 1]}
<1>1. T # {}
  BY DEF T
<1>2. PICK m \in T : \A k \in T : m <= k
  BY <1>1, LeastNumber
<1>3. m \in 0..Len(s) /\ m <= Len(t)
  BY <1>2
<1>4. \A i \in 1..m : s[i] = t[i]
  <2> SUFFICES ASSUME NEW i \in 1..m PROVE s[i] = t[i]
    OBVIOUS
  <2>1. i - 1 \in Nat /\ i - 1 \notin T
    BY <1>2, <1>3
  <2> QED
    BY <2>1
<1>5. m = Len(s) \/ m = Len(t) \/ s[m + 1] # t[m + 1]
  BY <1>2
<1> HIDE DEF T
<1> QED
  BY <1>3, <1>4, <1>5 DEF Common

(* A rewritten link leads to the file it was made for, from any page to any *)
(* path whose names hold no percent escapes: relative_link and              *)
(* resolve_local_reference are inverse (src/src/pathmap.rs:332-360,         *)
(* src/src/link_validation.rs:562-588).                                     *)
THEOREM LinkReachesTarget ==
  ASSUME NEW N, NEW from \in Seq(N), NEW to \in Seq(N), from # <<>>,
         \A i \in DOMAIN to : DecodedName(to[i]) = to[i]
  PROVE  ResolveLocal(from, RelativeLink(from, to)) = to
<1>1. PICK dir : dir = FrontOf(from)
  OBVIOUS
<1>2. dir \in Seq(N)
  BY <1>1, FrontIsSeq
<1>3. PICK k : k = Common(dir, to)
  OBVIOUS
<1>4. k \in 0..Len(dir) /\ k <= Len(to) /\ \A i \in 1..k : dir[i] = to[i]
  BY <1>2, <1>3, CommonPrefix
<1>5. PICK rest : rest = SubSeq(to, k + 1, Len(to))
  OBVIOUS
<1>6. /\ rest \in Seq(N)
      /\ Len(rest) = Len(to) - k
      /\ \A i \in 1..Len(rest) : rest[i] = to[k + i]
  BY <1>4, <1>5
<1>7. PICK link : link = Local(FALSE, Len(dir) - k, rest, None)
  OBVIOUS
<1>8. RelativeLink(from, to) = link
  BY <1>1, <1>3, <1>5, <1>7 DEF RelativeLink
<1>9. /\ link.kind = "local" /\ link.rooted = FALSE
      /\ link.up = Len(dir) - k /\ link.down = rest
  BY <1>7 DEF Local
<1>10. \A i \in DOMAIN rest : DecodedName(rest[i]) = rest[i]
  <2>1. \A i \in DOMAIN rest : k + i \in DOMAIN to
    BY <1>4, <1>6
  <2> QED
    BY <1>6, <2>1
<1>11. [i \in DOMAIN rest |-> DecodedName(rest[i])] = rest
  <2>1. [i \in DOMAIN rest |-> DecodedName(rest[i])] = [i \in DOMAIN rest |-> rest[i]]
    BY <1>10
  <2>2. [i \in DOMAIN rest |-> rest[i]] = rest
    BY <1>6
  <2> QED
    BY <2>1, <2>2
<1>12. ~ (link.up > Len(dir)) /\ Len(dir) - link.up = k
  BY <1>2, <1>4, <1>9
<1>13. ResolveLocal(from, link) = SubSeq(dir, 1, k) \o rest
  BY <1>1, <1>9, <1>11, <1>12 DEF ResolveLocal
<1>14. PICK head : head = SubSeq(dir, 1, k)
  OBVIOUS
<1>15. head \in Seq(N) /\ Len(head) = k /\ \A i \in 1..k : head[i] = to[i]
  BY <1>2, <1>4, <1>14
<1>16. PICK whole : whole = head \o rest
  OBVIOUS
<1>17. /\ whole \in Seq(N) /\ Len(whole) = Len(to)
       /\ \A i \in 1..Len(to) : whole[i] = to[i]
  <2>1. whole \in Seq(N) /\ Len(whole) = Len(to)
    <3>1. whole \in Seq(N) /\ Len(whole) = Len(head) + Len(rest)
      BY <1>6, <1>15, <1>16, ConcatProperties
    <3> QED
      BY <1>4, <1>6, <1>15, <3>1
  <2>2. \A i \in 1..k : whole[i] = to[i]
    BY <1>4, <1>6, <1>15, <1>16
  <2>3. \A i \in (k + 1)..Len(to) : whole[i] = to[i]
    <3> SUFFICES ASSUME NEW i \in (k + 1)..Len(to) PROVE whole[i] = to[i]
      OBVIOUS
    <3>1. i - k \in 1..Len(rest) /\ k + (i - k) = i
      BY <1>4, <1>6
    <3>2. rest[i - k] = to[i]
      BY <1>6, <3>1
    <3>3. whole[i] = rest[i - k]
      BY <1>4, <1>6, <1>15, <1>16, <3>1
    <3> QED
      BY <3>2, <3>3
  <2> QED
    BY <1>4, <2>1, <2>2, <2>3
<1>18. whole = to
  BY <1>17, SeqEqual
<1> QED
  BY <1>8, <1>13, <1>14, <1>16, <1>18

(* The pairs of a query that select a page.                                 *)
Selecting(query) ==
  IF query = None THEN {} ELSE {pair \in query : pair.key \notin VolatileKeys}

LEMMA CanonicalSelects ==
  ASSUME NEW query
  PROVE  CanonicalQuery(query) = IF Selecting(query) = {} THEN None ELSE Selecting(query)
<1>1. CASE query = None
  BY <1>1 DEF CanonicalQuery, Selecting
<1>2. CASE query # None
  <2>1. PICK kept : kept = {pair \in query : pair.key \notin VolatileKeys}
    OBVIOUS
  <2>2. (\A pair \in query : pair.key \in VolatileKeys) <=> kept = {}
    <3> HIDE DEF VolatileKeys
    <3> QED
      BY <2>1
  <2>3. Selecting(query) = kept
    BY <1>2, <2>1 DEF Selecting
  <2>4. CanonicalQuery(query) = IF kept = {} THEN None ELSE kept
    BY <1>2, <2>1, <2>2 DEF CanonicalQuery
  <2> QED
    BY <2>3, <2>4
<1> QED
  BY <1>1, <1>2

(* A page of the primary site has one file under all its spellings: http or *)
(* https, the www or the bare host, any port, and whatever session, sort    *)
(* order, highlighting or other volatile pairs its query holds, one that    *)
(* holds nothing else being none (src/src/pathmap.rs:63-118).               *)
THEOREM SpellingsShareAPath ==
  ASSUME NEW url, NEW other, NEW mime,
         IsPrimary(url.host), IsPrimary(other.host),
         url.segs = other.segs, url.slash = other.slash,
         Selecting(url.query) = Selecting(other.query)
  PROVE  LocalPath(url, mime) = LocalPath(other, mime)
<1>1. CanonicalQuery(url.query) = CanonicalQuery(other.query)
  BY CanonicalSelects
<1>2. HostDirs(url.host) = HostDirs(other.host)
  BY DEF HostDirs
<1> QED
  BY <1>1, <1>2 DEF LocalPath

(* The source of a topic alias is a page beside it, so that the condition   *)
(* that create_missing_topic_aliases ensures never fails                    *)
(* (src/src/alias_repair.rs:72-85).                                         *)
LEMMA SourceIsBeside ==
  ASSUME NEW files, NEW pages, NEW page, NEW link, NEW target,
         AliasSource(files, pages, page, link, target) # None
  PROVE  /\ FrontOf(AliasSource(files, pages, page, link, target)) = FrontOf(target)
         /\ page \in DOMAIN pages =>
              AliasSource(files, pages, page, link, target) \in DOMAIN pages
<1> DEFINE dir == FrontOf(target)
           holders == HoldersOf(pages, dir, link.post)
           titled == Titled(pages, dir, link.text)
           told == ToldBySibling(files, pages, page, link, titled, dir)
<1>1. \A p \in Topics(pages, dir) : FrontOf(p) = dir /\ p \in DOMAIN pages
  BY DEF Topics
<1>2. \A S \in SUBSET Topics(pages, dir) : S # {} => First(S) \in Topics(pages, dir)
  BY DEF First
<1>3. holders \subseteq Topics(pages, dir)
  BY DEF HoldersOf
<1>4. titled \subseteq Topics(pages, dir)
  BY DEF Titled
<1>5. told \subseteq Topics(pages, dir)
  BY <1>4 DEF ToldBySibling
<1>6. Cardinality(titled) = 1 => titled # {}
  BY FS_EmptySet
<1> HIDE DEF dir, holders, titled, told
<1>7. PICK source : source = AliasSource(files, pages, page, link, target)
  OBVIOUS
<1>8. \/ source = page /\ FrontOf(page) = dir
      \/ source = First(holders) /\ holders # {}
      \/ source = First(titled) /\ Cardinality(titled) = 1
      \/ source = First(told) /\ told # {}
  BY <1>7 DEF AliasSource, dir, holders, titled, told
<1>9. source \in Topics(pages, dir) \/ (source = page /\ FrontOf(source) = dir)
  BY <1>2, <1>3, <1>4, <1>5, <1>6, <1>8
<1>10. FrontOf(source) = dir /\ (page \in DOMAIN pages => source \in DOMAIN pages)
  BY <1>1, <1>9
<1> QED
  BY <1>7, <1>10 DEF dir

(* An alias keeps the relative links of its source: each opens from the     *)
(* alias what it opens from the source (src/src/alias_repair.rs:44-46).     *)
THEOREM AliasesKeepRelativeLinks ==
  ASSUME NEW files, NEW pages, NEW copy \in TopicAliases(files, pages), NEW ref
  PROVE  ResolveLocal(copy.to, ref) = ResolveLocal(copy.from, ref)
<1>1. PICK pl \in LinksOf(pages) :
        /\ copy.to = MissingTopic(files, pl[1], pl[2])
        /\ copy.from = AliasSource(files, pages, pl[1], pl[2], copy.to)
  BY DEF TopicAliases
<1>2. copy.from # None
  BY DEF TopicAliases
<1>3. FrontOf(copy.from) = FrontOf(copy.to)
  BY <1>1, <1>2, SourceIsBeside
<1> QED
  BY <1>3 DEF ResolveLocal

-----------------------------------------------------------------------------
(* Sequences whose elements are of no set known beforehand.                 *)
LEMMA SequenceProperties ==
  ASSUME NEW s, IsSequence(s)
  PROVE  /\ Len(s) \in Nat /\ DOMAIN s = 1 .. Len(s)
         /\ \A i \in 1 .. Len(s) : s[i] \in {s[j] : j \in DOMAIN s}
         /\ s # <<>> => Len(s) > 0
BY DEF IsSequence

LEMMA FunctionIsSequence ==
  ASSUME NEW n \in Nat, NEW f, f = [i \in 1 .. n |-> f[i]]
  PROVE  IsSequence(f) /\ Len(f) = n
<1> DEFINE R == {f[i] : i \in DOMAIN f}
<1>1. DOMAIN f = 1 .. n
  OBVIOUS
<1>2. \A i \in 1 .. n : f[i] \in R
  BY <1>1
<1> HIDE DEF R
<1>3. f \in [1 .. n -> R]
  BY <1>2
<1>4. f \in Seq(R) /\ Len(f) = n
  BY <1>3
<1> QED
  BY <1>4 DEF IsSequence, R

LEMMA MemberIsSequence ==
  ASSUME NEW S, NEW s \in Seq(S)
  PROVE  IsSequence(s)
<1>1. Len(s) \in Nat /\ s = [i \in 1 .. Len(s) |-> s[i]]
  OBVIOUS
<1> QED
  BY <1>1, FunctionIsSequence

LEMMA CommonElements ==
  ASSUME NEW s, NEW t, IsSequence(s), IsSequence(t)
  PROVE  \E N : s \in Seq(N) /\ t \in Seq(N)
<1> DEFINE A == {s[i] : i \in DOMAIN s}
           B == {t[i] : i \in DOMAIN t}
<1>1. s \in Seq(A) /\ t \in Seq(B)
  BY DEF IsSequence
<1> HIDE DEF A, B
<1>2. \A i \in 1 .. Len(s) : s[i] \in A
  BY <1>1
<1>3. \A i \in 1 .. Len(t) : t[i] \in B
  BY <1>1
<1>4. PICK N : N = A \cup B
  OBVIOUS
<1>5. s \in [1 .. Len(s) -> N] /\ Len(s) \in Nat
  BY <1>1, <1>2, <1>4
<1>6. t \in [1 .. Len(t) -> N] /\ Len(t) \in Nat
  BY <1>1, <1>3, <1>4
<1>7. s \in Seq(N)
  BY <1>5
<1>8. t \in Seq(N)
  BY <1>6
<1> QED
  BY <1>7, <1>8

LEMMA ConcatSequences ==
  ASSUME NEW s, NEW t, IsSequence(s), IsSequence(t)
  PROVE  /\ IsSequence(s \o t) /\ Len(s \o t) = Len(s) + Len(t)
         /\ \A i \in 1 .. Len(s) : (s \o t)[i] = s[i]
         /\ \A i \in 1 .. Len(t) : (s \o t)[Len(s) + i] = t[i]
<1>1. PICK N : s \in Seq(N) /\ t \in Seq(N)
  BY CommonElements
<1>2. /\ s \o t \in Seq(N) /\ Len(s \o t) = Len(s) + Len(t)
      /\ \A i \in 1 .. Len(s) + Len(t) :
           (s \o t)[i] = IF i <= Len(s) THEN s[i] ELSE t[i - Len(s)]
  BY <1>1, ConcatProperties
<1>3. Len(s) \in Nat /\ Len(t) \in Nat
  BY <1>1
<1>4. \A i \in 1 .. Len(s) : (s \o t)[i] = s[i]
  BY <1>2, <1>3
<1>5. \A i \in 1 .. Len(t) : (s \o t)[Len(s) + i] = t[i]
  <2> SUFFICES ASSUME NEW i \in 1 .. Len(t) PROVE (s \o t)[Len(s) + i] = t[i]
    OBVIOUS
  <2>1. /\ Len(s) + i \in 1 .. Len(s) + Len(t) /\ ~ (Len(s) + i <= Len(s))
        /\ (Len(s) + i) - Len(s) = i
    BY <1>3
  <2> QED
    BY <1>2, <2>1
<1> QED
  BY <1>1, <1>2, <1>4, <1>5, MemberIsSequence

LEMMA AppendSequence ==
  ASSUME NEW s, NEW x, IsSequence(s)
  PROVE  /\ IsSequence(Append(s, x)) /\ Len(Append(s, x)) = Len(s) + 1
         /\ Append(s, x) # <<>>
         /\ Append(s, x)[Len(s) + 1] = x
         /\ \A i \in 1 .. Len(s) : Append(s, x)[i] = s[i]
<1> DEFINE A == {s[i] : i \in DOMAIN s} \cup {x}
<1>1. s \in Seq(A) /\ x \in A
  <2>1. Len(s) \in Nat /\ s = [i \in 1 .. Len(s) |-> s[i]] /\ \A i \in 1 .. Len(s) : s[i] \in A
    BY DEF IsSequence
  <2> HIDE DEF A
  <2>2. s \in [1 .. Len(s) -> A]
    BY <2>1
  <2> QED
    BY <2>1, <2>2 DEF A
<1> HIDE DEF A
<1>2. Append(s, x) \in Seq(A) /\ Len(Append(s, x)) = Len(s) + 1
  BY <1>1
<1>3. /\ Append(s, x)[Len(s) + 1] = x
      /\ \A i \in 1 .. Len(s) : Append(s, x)[i] = s[i]
  BY <1>1
<1>4. Len(s) + 1 # 0 /\ Len(<<>>) = 0
  BY <1>1
<1> QED
  BY <1>2, <1>3, <1>4, MemberIsSequence

(* A part of a sequence, from its start or from any place.                  *)
LEMMA PartOfSequence ==
  ASSUME NEW s, IsSequence(s), NEW m \in Nat, m > 0, NEW n \in Int, n <= Len(s)
  PROVE  /\ IsSequence(SubSeq(s, m, n))
         /\ Len(SubSeq(s, m, n)) = IF m <= n THEN n - m + 1 ELSE 0
         /\ \A i \in 1 .. Len(SubSeq(s, m, n)) : SubSeq(s, m, n)[i] = s[m + i - 1]
<1> DEFINE A == {s[i] : i \in DOMAIN s}
<1>1. s \in Seq(A)
  BY DEF IsSequence
<1> HIDE DEF A
<1>2. CASE m <= n
  <2>1. n \in Nat /\ Len(s) \in Nat
    BY <1>1, <1>2
  <2>2. SubSeq(s, m, n) \in Seq(A) /\ Len(SubSeq(s, m, n)) = n - m + 1
    BY <1>1, <1>2, <2>1
  <2>3. \A i \in 1 .. n - m + 1 : SubSeq(s, m, n)[i] = s[m + i - 1]
    BY <1>1, <1>2, <2>1
  <2> QED
    BY <1>2, <2>2, <2>3, MemberIsSequence
<1>3. CASE m > n
  <2>1. SubSeq(s, m, n) = <<>>
    BY <1>1, <1>3
  <2>2. IsSequence(<<>>)
    BY DEF IsSequence
  <2> QED
    BY <1>3, <2>1, <2>2
<1> QED
  BY <1>2, <1>3

(* Shapes: what the mapper is given and what it makes are paths and         *)
(* references made of sequences of names.                                   *)
LEMMA NoNames == AreNames(<<>>)
BY DEF AreNames, IsSequence

LEMMA NamesFrom ==
  ASSUME NEW n \in Nat, NEW f, f = [i \in 1 .. n |-> f[i]],
         \A i \in 1 .. n : IsName(f[i])
  PROVE  AreNames(f) /\ Len(f) = n
<1>1. IsSequence(f) /\ Len(f) = n /\ DOMAIN f = 1 .. n
  BY FunctionIsSequence
<1> QED
  BY <1>1 DEF AreNames

LEMMA ConcatNames ==
  ASSUME NEW s, NEW t, AreNames(s), AreNames(t)
  PROVE  /\ AreNames(s \o t) /\ Len(s \o t) = Len(s) + Len(t)
         /\ t # <<>> => (s \o t # <<>> /\ LastOf(s \o t) = LastOf(t))
<1>1. /\ IsSequence(s) /\ Len(s) \in Nat /\ DOMAIN s = 1 .. Len(s)
      /\ IsSequence(t) /\ Len(t) \in Nat /\ DOMAIN t = 1 .. Len(t)
      /\ t # <<>> => Len(t) > 0
  BY SequenceProperties DEF AreNames
<1>2. /\ IsSequence(s \o t) /\ Len(s \o t) = Len(s) + Len(t)
      /\ \A i \in 1 .. Len(s) : (s \o t)[i] = s[i]
      /\ \A i \in 1 .. Len(t) : (s \o t)[Len(s) + i] = t[i]
  BY <1>1, ConcatSequences
<1>3. DOMAIN (s \o t) = 1 .. Len(s) + Len(t)
  BY <1>2, SequenceProperties
<1>4. ASSUME NEW i \in 1 .. Len(s) + Len(t) PROVE IsName((s \o t)[i])
  <2>1. CASE i <= Len(s)
    <3>1. i \in 1 .. Len(s)
      BY <1>1, <2>1
    <3> QED
      BY <1>1, <1>2, <3>1 DEF AreNames
  <2>2. CASE ~ (i <= Len(s))
    <3>1. i - Len(s) \in 1 .. Len(t) /\ Len(s) + (i - Len(s)) = i
      BY <1>1, <2>2
    <3> QED
      BY <1>1, <1>2, <3>1 DEF AreNames
  <2> QED
    BY <2>1, <2>2
<1>5. ASSUME t # <<>> PROVE s \o t # <<>> /\ LastOf(s \o t) = LastOf(t)
  <2>1. Len(t) \in 1 .. Len(t) /\ Len(s \o t) # 0 /\ Len(<<>>) = 0
    BY <1>1, <1>2, <1>5
  <2> QED
    BY <1>2, <2>1 DEF LastOf
<1> QED
  BY <1>2, <1>3, <1>4, <1>5 DEF AreNames

LEMMA AppendName ==
  ASSUME NEW s, NEW x, AreNames(s), IsName(x)
  PROVE  IsPath(Append(s, x))
<1>1. /\ IsSequence(s) /\ Len(s) \in Nat /\ DOMAIN s = 1 .. Len(s)
  BY SequenceProperties DEF AreNames
<1>2. /\ IsSequence(Append(s, x)) /\ Len(Append(s, x)) = Len(s) + 1
      /\ Append(s, x) # <<>>
      /\ Append(s, x)[Len(s) + 1] = x
      /\ \A i \in 1 .. Len(s) : Append(s, x)[i] = s[i]
  BY <1>1, AppendSequence
<1>3. DOMAIN Append(s, x) = 1 .. Len(s) + 1
  BY <1>2, SequenceProperties
<1>4. ASSUME NEW i \in 1 .. Len(s) + 1 PROVE IsName(Append(s, x)[i])
  <2>1. i = Len(s) + 1 \/ i \in 1 .. Len(s)
    BY <1>1
  <2> QED
    BY <1>1, <1>2, <2>1 DEF AreNames
<1> QED
  BY <1>2, <1>3, <1>4 DEF AreNames, IsPath

LEMMA PartOfNames ==
  ASSUME NEW s, AreNames(s), NEW m \in Nat, m > 0, NEW n \in Int, n <= Len(s)
  PROVE  /\ AreNames(SubSeq(s, m, n))
         /\ Len(SubSeq(s, m, n)) = IF m <= n THEN n - m + 1 ELSE 0
<1>1. /\ IsSequence(s) /\ Len(s) \in Nat /\ DOMAIN s = 1 .. Len(s)
  BY SequenceProperties DEF AreNames
<1>2. PICK part : part = SubSeq(s, m, n)
  OBVIOUS
<1>3. /\ IsSequence(part)
      /\ Len(part) = IF m <= n THEN n - m + 1 ELSE 0
      /\ \A i \in 1 .. Len(part) : part[i] = s[m + i - 1]
  BY <1>1, <1>2, PartOfSequence
<1>4. DOMAIN part = 1 .. Len(part)
  BY <1>3, SequenceProperties
<1>5. ASSUME NEW i \in 1 .. Len(part) PROVE IsName(part[i])
  <2>1. m + i - 1 \in 1 .. Len(s)
    BY <1>1, <1>3
  <2> QED
    BY <1>1, <1>3, <2>1 DEF AreNames
<1> QED
  BY <1>2, <1>3, <1>4, <1>5 DEF AreNames

(* The directory of a path and the name of its file.                        *)
LEMMA DirectoryShape ==
  ASSUME NEW path, IsPath(path)
  PROVE  /\ Len(path) \in Nat /\ Len(path) > 0
         /\ AreNames(FrontOf(path)) /\ Len(FrontOf(path)) = Len(path) - 1
         /\ IsName(LastOf(path))
<1>1. IsSequence(path) /\ Len(path) \in Nat /\ Len(path) > 0 /\ DOMAIN path = 1 .. Len(path)
  BY SequenceProperties DEF AreNames, IsPath
<1>2. Len(path) - 1 \in Int /\ Len(path) - 1 <= Len(path) /\ 1 \in Nat /\ 1 > 0
  BY <1>1
<1>3. AreNames(SubSeq(path, 1, Len(path) - 1))
  BY <1>2, PartOfNames DEF IsPath
<1>4. Len(SubSeq(path, 1, Len(path) - 1)) =
        IF 1 <= Len(path) - 1 THEN (Len(path) - 1) - 1 + 1 ELSE 0
  BY <1>2, PartOfNames DEF IsPath
<1>5. IsName(path[Len(path)])
  BY <1>1 DEF IsPath, AreNames
<1> QED
  BY <1>1, <1>3, <1>4, <1>5 DEF FrontOf, LastOf

LEMMA NameShape ==
  ASSUME NEW parts, IsSequence(parts), NEW hash
  PROVE  IsName(Name(parts)) /\ IsName([Name(parts) EXCEPT !.hash = hash])
BY DEF IsName, Name

LEMMA ExtensionShape ==
  ASSUME NEW parts, IsSequence(parts), NEW mime
  PROVE  IsSequence(WithExtension(parts, mime))
<1>1. \A x : IsSequence(Append(parts, x))
  BY AppendSequence
<1> QED
  BY <1>1 DEF WithExtension

LEMMA LocalPathShape ==
  ASSUME NEW url, IsUrl(url), NEW mime
  PROVE  IsPath(LocalPath(url, mime))
<1> DEFINE segs == [i \in DOMAIN url.segs |-> CleanName(url.segs[i])]
           index == \/ url.segs = <<>> \/ url.slash
                    \/ mime \in HtmlTypes /\ Extension(LastOf(segs)) = None
           dirs == IF index THEN segs ELSE FrontOf(segs)
           names == [i \in DOMAIN dirs |-> Name(dirs[i])]
           file == IF index THEN IndexHtml ELSE Name(WithExtension(LastOf(segs), mime))
           last == [file EXCEPT !.hash = CanonicalQuery(url.query)]
<1>1. /\ IsSequence(url.segs) /\ Len(url.segs) \in Nat /\ DOMAIN url.segs = 1 .. Len(url.segs)
      /\ url.segs # <<>> => Len(url.segs) > 0
      /\ \A i \in 1 .. Len(url.segs) : IsSequence(url.segs[i])
  BY SequenceProperties DEF IsUrl
<1>2. ASSUME NEW seg, IsSequence(seg) PROVE IsSequence(CleanName(seg))
  <2>1. Len(seg) \in Nat /\ DOMAIN seg = 1 .. Len(seg)
    BY <1>2, SequenceProperties
  <2> QED
    BY <2>1, FunctionIsSequence DEF CleanName
<1>3. /\ IsSequence(segs) /\ Len(segs) = Len(url.segs)
      /\ DOMAIN segs = 1 .. Len(url.segs)
      /\ \A i \in 1 .. Len(url.segs) : IsSequence(segs[i])
  <2>1. segs = [i \in 1 .. Len(url.segs) |-> segs[i]]
    BY <1>1
  <2>2. IsSequence(segs) /\ Len(segs) = Len(url.segs)
    BY <1>1, <2>1, FunctionIsSequence
  <2> QED
    BY <1>1, <1>2, <2>2
<1> HIDE DEF segs
<1>4. /\ IsSequence(dirs) /\ Len(dirs) \in Nat /\ DOMAIN dirs = 1 .. Len(dirs)
      /\ \A i \in 1 .. Len(dirs) : IsSequence(dirs[i])
  <2>1. CASE index
    BY <1>1, <1>3, <2>1
  <2>2. CASE ~ index
    <3>1. Len(segs) - 1 \in Int /\ Len(segs) - 1 <= Len(segs) /\ 1 \in Nat /\ 1 > 0
      BY <1>1, <1>3
    <3>2. PICK front : front = SubSeq(segs, 1, Len(segs) - 1)
      OBVIOUS
    <3>3. /\ IsSequence(front)
          /\ Len(front) = IF 1 <= Len(segs) - 1 THEN (Len(segs) - 1) - 1 + 1 ELSE 0
          /\ \A i \in 1 .. Len(front) : front[i] = segs[1 + i - 1]
      BY <1>3, <3>1, <3>2, PartOfSequence
    <3>4. /\ Len(front) \in Nat /\ DOMAIN front = 1 .. Len(front)
      BY <3>3, SequenceProperties
    <3>5. ASSUME NEW i \in 1 .. Len(front) PROVE IsSequence(front[i])
      <4>1. i \in 1 .. Len(segs) /\ 1 + i - 1 = i
        BY <1>1, <1>3, <3>3, <3>4
      <4> QED
        BY <1>3, <3>3, <4>1
    <3>6. dirs = front
      BY <2>2, <3>2 DEF FrontOf
    <3> QED
      BY <3>3, <3>4, <3>5, <3>6
  <2> QED
    BY <2>1, <2>2
<1>5. AreNames(names)
  <2> HIDE DEF dirs
  <2>1. \A i \in 1 .. Len(dirs) : IsName(names[i])
    BY <1>4, NameShape
  <2>2. names = [i \in 1 .. Len(dirs) |-> names[i]]
    BY <1>4
  <2> QED
    BY <1>4, <2>1, <2>2, NamesFrom
<1>6. IsName(last)
  <2>1. CASE index
    <3>1. IsSequence(<<"index", "html">>)
      BY DEF IsSequence
    <3> QED
      BY <2>1, <3>1, NameShape DEF IndexHtml
  <2>2. CASE ~ index
    <3>1. Len(segs) \in 1 .. Len(segs)
      BY <1>1, <1>3, <2>2
    <3>2. IsSequence(WithExtension(LastOf(segs), mime))
      BY <1>3, <3>1, ExtensionShape DEF LastOf
    <3> QED
      BY <2>2, <3>2, NameShape
  <2> QED
    BY <2>1, <2>2
<1>7. AreNames(HostDirs(url.host))
  <2>1. CASE IsPrimary(url.host)
    BY <2>1, NoNames DEF HostDirs
  <2>2. CASE ~ IsPrimary(url.host)
    <3>1. IsSequence(<<"_hosts">>) /\ IsSequence(url.host)
      BY DEF IsSequence, IsUrl
    <3>2. IsName(HostsDir) /\ IsName(Name(url.host))
      BY <3>1, NameShape DEF HostsDir
    <3>3. PICK host : host = <<HostsDir, Name(url.host)>>
      OBVIOUS
    <3>4. host = [i \in 1 .. 2 |-> host[i]] /\ host[1] = HostsDir /\ host[2] = Name(url.host)
      BY <3>3
    <3>5. \A i \in 1 .. 2 : i = 1 \/ i = 2
      OBVIOUS
    <3>6. AreNames(host)
      BY <3>2, <3>4, <3>5, NamesFrom
    <3> QED
      BY <2>2, <3>3, <3>6 DEF HostDirs
  <2> QED
    BY <2>1, <2>2
<1> HIDE DEF names, last
<1>8. IsPath(<<last>>)
  <2>1. <<last>> = Append(<<>>, last)
    OBVIOUS
  <2> QED
    BY <1>6, <2>1, NoNames, AppendName
<1>9. AreNames(HostDirs(url.host) \o names)
  BY <1>5, <1>7, ConcatNames
<1>10. IsPath((HostDirs(url.host) \o names) \o <<last>>)
  BY <1>8, <1>9, ConcatNames DEF IsPath
<1>11. LocalPath(url, mime) = (HostDirs(url.host) \o names) \o <<last>>
  BY DEF LocalPath, names, last, segs
<1> QED
  BY <1>10, <1>11

LEMMA JoinShape ==
  ASSUME NEW base, IsUrl(base), NEW ref, IsReference(ref)
  PROVE  IsUrl(Join(base, ref))
<1>1. CASE ref.kind = "absolute"
  BY <1>1 DEF IsReference, Join
<1>2. CASE ref.kind # "absolute"
  <2> DEFINE dir == IF base.slash THEN base.segs ELSE FrontOf(base.segs)
             from == IF ref.rooted THEN <<>> ELSE SubSeq(dir, 1, Len(dir) - ref.up)
             down == [i \in DOMAIN ref.down |-> ref.down[i].parts]
  <2>1. ref.up \in Nat /\ AreNames(ref.down)
    BY <1>2 DEF IsReference
  <2>2. ASSUME NEW s, IsSequence(s), \A i \in DOMAIN s : IsSequence(s[i]),
               NEW n \in Int, n <= Len(s)
        PROVE  /\ IsSequence(SubSeq(s, 1, n))
               /\ \A i \in DOMAIN SubSeq(s, 1, n) : IsSequence(SubSeq(s, 1, n)[i])
    <3>1. PICK part : part = SubSeq(s, 1, n)
      OBVIOUS
    <3>2. 1 \in Nat /\ 1 > 0 /\ Len(s) \in Nat /\ DOMAIN s = 1 .. Len(s)
      BY <2>2, SequenceProperties
    <3>3. /\ IsSequence(part)
          /\ Len(part) = IF 1 <= n THEN n - 1 + 1 ELSE 0
          /\ \A i \in 1 .. Len(part) : part[i] = s[1 + i - 1]
      BY <2>2, <3>1, <3>2, PartOfSequence
    <3>4. DOMAIN part = 1 .. Len(part) /\ Len(part) \in Nat
      BY <3>3, SequenceProperties
    <3>5. ASSUME NEW i \in 1 .. Len(part) PROVE IsSequence(part[i])
      <4>1. i \in 1 .. Len(s) /\ 1 + i - 1 = i
        BY <2>2, <3>2, <3>3, <3>4
      <4> QED
        BY <2>2, <3>2, <3>3, <4>1
    <3> QED
      BY <3>1, <3>3, <3>4, <3>5
  <2>3. IsSequence(base.segs) /\ \A i \in DOMAIN base.segs : IsSequence(base.segs[i])
    BY DEF IsUrl
  <2>4. IsSequence(dir) /\ \A i \in DOMAIN dir : IsSequence(dir[i])
    <3>1. Len(base.segs) - 1 \in Int /\ Len(base.segs) - 1 <= Len(base.segs)
      BY <2>3, SequenceProperties
    <3>2. PICK front : front = SubSeq(base.segs, 1, Len(base.segs) - 1)
      OBVIOUS
    <3>3. IsSequence(front) /\ \A i \in DOMAIN front : IsSequence(front[i])
      BY <2>2, <2>3, <3>1, <3>2
    <3> QED
      BY <2>3, <3>2, <3>3 DEF FrontOf
  <2> HIDE DEF dir
  <2>5. IsSequence(from) /\ \A i \in DOMAIN from : IsSequence(from[i])
    <3>1. Len(dir) - ref.up \in Int /\ Len(dir) - ref.up <= Len(dir)
      BY <2>1, <2>4, SequenceProperties
    <3>2. PICK part : part = SubSeq(dir, 1, Len(dir) - ref.up)
      OBVIOUS
    <3>3. IsSequence(part) /\ \A i \in DOMAIN part : IsSequence(part[i])
      BY <2>2, <2>4, <3>1, <3>2
    <3>4. IsSequence(<<>>) /\ \A i \in DOMAIN <<>> : IsSequence(<<>>[i])
      BY DEF IsSequence
    <3> QED
      BY <3>2, <3>3, <3>4
  <2>6. IsSequence(down) /\ \A i \in DOMAIN down : IsSequence(down[i])
    <3>1. /\ Len(ref.down) \in Nat /\ DOMAIN ref.down = 1 .. Len(ref.down)
          /\ \A i \in DOMAIN ref.down : IsSequence(ref.down[i].parts)
      BY <2>1, SequenceProperties DEF AreNames, IsName
    <3>2. down = [i \in 1 .. Len(ref.down) |-> down[i]] /\ DOMAIN down = 1 .. Len(ref.down)
      BY <3>1
    <3>3. IsSequence(down)
      BY <3>1, <3>2, FunctionIsSequence
    <3> QED
      BY <3>1, <3>2, <3>3
  <2> HIDE DEF from, down
  <2>7. PICK segs : segs = from \o down
    OBVIOUS
  <2>8. IsSequence(segs) /\ \A i \in DOMAIN segs : IsSequence(segs[i])
    <3>1. /\ Len(from) \in Nat /\ DOMAIN from = 1 .. Len(from)
          /\ Len(down) \in Nat /\ DOMAIN down = 1 .. Len(down)
      BY <2>5, <2>6, SequenceProperties
    <3>2. /\ IsSequence(segs) /\ Len(segs) = Len(from) + Len(down)
          /\ \A i \in 1 .. Len(from) : segs[i] = from[i]
          /\ \A i \in 1 .. Len(down) : segs[Len(from) + i] = down[i]
      BY <2>5, <2>6, <2>7, ConcatSequences
    <3>3. DOMAIN segs = 1 .. Len(from) + Len(down)
      BY <3>2, SequenceProperties
    <3>4. ASSUME NEW i \in 1 .. Len(from) + Len(down) PROVE IsSequence(segs[i])
      <4>1. CASE i \in 1 .. Len(from)
        BY <2>5, <3>1, <3>2, <4>1
      <4>2. CASE i \notin 1 .. Len(from)
        <5>1. i - Len(from) \in 1 .. Len(down) /\ Len(from) + (i - Len(from)) = i
          BY <3>1, <4>2
        <5> QED
          BY <2>6, <3>1, <3>2, <5>1
      <4> QED
        BY <4>1, <4>2
    <3> QED
      BY <3>2, <3>3, <3>4
  <2>9. Join(base, ref) = [base EXCEPT !.segs = segs, !.slash = ref.slash, !.query = ref.query]
    BY <1>2, <2>7 DEF Join, dir, from, down
  <2>10. Join(base, ref) =
           [scheme |-> base.scheme, host |-> base.host, port |-> base.port,
            segs |-> segs, slash |-> ref.slash, query |-> ref.query]
    BY <2>9 DEF IsUrl
  <2>11. IsSequence(base.host)
    BY DEF IsUrl
  <2> QED
    BY <2>8, <2>10, <2>11 DEF IsUrl
<1> QED
  BY <1>1, <1>2

LEMMA RelativeLinkShape ==
  ASSUME NEW from, IsPath(from), NEW to, IsPath(to)
  PROVE  IsReference(RelativeLink(from, to))
<1> DEFINE dir == FrontOf(from)
           k == Common(dir, to)
           rest == SubSeq(to, k + 1, Len(to))
<1>1. AreNames(dir) /\ AreNames(to) /\ IsSequence(dir) /\ IsSequence(to)
  BY DirectoryShape DEF IsPath, AreNames
<1>2. PICK N : dir \in Seq(N) /\ to \in Seq(N)
  BY <1>1, CommonElements
<1> HIDE DEF dir
<1>3. k \in 0 .. Len(dir) /\ Len(dir) \in Nat /\ Len(to) \in Nat
  BY <1>2, CommonPrefix
<1> HIDE DEF k
<1>4. Len(dir) - k \in Nat /\ k + 1 \in Nat /\ k + 1 > 0 /\ Len(to) \in Int /\ Len(to) <= Len(to)
  BY <1>3
<1>5. AreNames(rest)
  BY <1>1, <1>4, PartOfNames
<1> HIDE DEF rest
<1>6. PICK up : up = Len(dir) - k
  OBVIOUS
<1>7. PICK ref : ref = Local(FALSE, up, rest, None)
  OBVIOUS
<1>8. IsReference(ref)
  BY <1>4, <1>5, <1>6, <1>7 DEF IsReference, Local
<1>9. RelativeLink(from, to) = ref
  BY <1>6, <1>7 DEF RelativeLink, dir, k, rest
<1> QED
  BY <1>8, <1>9

(* The names of a reference as a browser reads them.                        *)
Read(down) == [i \in DOMAIN down |-> DecodedName(down[i])]

LEMMA ReadShape ==
  ASSUME NEW down, AreNames(down)
  PROVE  /\ AreNames(Read(down)) /\ Len(Read(down)) = Len(down)
         /\ \A i \in 1 .. Len(down) : Read(down)[i] = DecodedName(down[i])
<1>1. Len(down) \in Nat /\ DOMAIN down = 1 .. Len(down)
  BY SequenceProperties DEF AreNames
<1>2. ASSUME NEW name, IsName(name) PROVE IsName(DecodedName(name))
  <2> DEFINE parts == [i \in DOMAIN name.parts |-> Decoded(name.parts[i])]
  <2>1. Len(name.parts) \in Nat /\ DOMAIN name.parts = 1 .. Len(name.parts)
    BY <1>2, SequenceProperties DEF IsName
  <2>2. parts = [i \in 1 .. Len(name.parts) |-> parts[i]]
    BY <2>1
  <2>3. IsSequence(parts)
    BY <2>1, <2>2, FunctionIsSequence
  <2>4. DecodedName(name) = [name EXCEPT !.parts = parts]
    BY DEF DecodedName
  <2> HIDE DEF parts
  <2>5. DecodedName(name) = [parts |-> parts, hash |-> name.hash]
    BY <1>2, <2>4 DEF IsName
  <2> QED
    BY <2>3, <2>5 DEF IsName
<1>3. Read(down) = [i \in 1 .. Len(down) |-> Read(down)[i]]
  BY <1>1 DEF Read
<1>4. \A i \in 1 .. Len(down) : Read(down)[i] = DecodedName(down[i])
  BY <1>1 DEF Read
<1>5. \A i \in 1 .. Len(down) : IsName(Read(down)[i])
  BY <1>1, <1>2, <1>4 DEF AreNames
<1> QED
  BY <1>1, <1>3, <1>4, <1>5, NamesFrom

(* Where the names of a local reference start from.                         *)
StartDir(page, ref) ==
  IF ref.rooted THEN <<>> ELSE SubSeq(FrontOf(page), 1, Len(FrontOf(page)) - ref.up)

(* A reference that leads inside the root leads to its names below the      *)
(* directory it starts from.                                                *)
LEMMA ResolveShape ==
  ASSUME NEW page, IsPath(page), NEW ref, IsReference(ref), ResolveLocal(page, ref) # None
  PROVE  /\ ref.kind = "local" /\ AreNames(ref.down)
         /\ AreNames(StartDir(page, ref))
         /\ ResolveLocal(page, ref) = StartDir(page, ref) \o Read(ref.down)
         /\ AreNames(ResolveLocal(page, ref))
<1>1. /\ ref.kind # "absolute"
      /\ ~ (~ ref.rooted /\ ref.up > Len(FrontOf(page)))
      /\ ResolveLocal(page, ref) = StartDir(page, ref) \o Read(ref.down)
  BY DEF ResolveLocal, StartDir, Read
<1>2. ref.kind = "local" /\ AreNames(ref.down) /\ ref.up \in Nat
  BY <1>1 DEF IsReference
<1>3. PICK dir : dir = FrontOf(page)
  OBVIOUS
<1>4. AreNames(dir) /\ Len(dir) \in Nat
  BY <1>3, DirectoryShape, SequenceProperties DEF AreNames
<1>5. Len(dir) - ref.up \in Int /\ Len(dir) - ref.up <= Len(dir) /\ 1 \in Nat /\ 1 > 0
  BY <1>2, <1>4
<1>6. AreNames(StartDir(page, ref))
  BY <1>3, <1>4, <1>5, NoNames, PartOfNames DEF StartDir
<1> QED
  BY <1>1, <1>2, <1>6, ReadShape, ConcatNames

(* Paths are what the mapper knows: URLs and their paths.                   *)
PathsKnown(table) == \A k \in DOMAIN table : IsPath(table[k])

LEMMA KnownPathShape ==
  ASSUME NEW table, PathsKnown(table), NEW url, KnownPath(url, table) # None
  PROVE  \E k \in DOMAIN table : /\ KnownPath(url, table) = table[k]
                                /\ k \in {Normalized(url)} \cup Spellings(url)
<1> DEFINE found == {table[v] : v \in Spellings(url) \cap DOMAIN table}
<1>1. CASE Normalized(url) \in DOMAIN table
  BY <1>1 DEF KnownPath
<1>2. CASE Normalized(url) \notin DOMAIN table
  <2>1. Cardinality(found) = 1 /\ KnownPath(url, table) = CHOOSE p \in found : TRUE
    BY <1>2 DEF KnownPath
  <2> HIDE DEF found
  <2>2. found # {}
    BY <2>1, FS_EmptySet
  <2>3. KnownPath(url, table) \in found
    BY <2>1, <2>2
  <2> QED
    BY <2>3 DEF found
<1> QED
  BY <1>1, <1>2

(* What a reference of a page becomes in its file is a reference.           *)
LEMMA RewriteShape ==
  ASSUME NEW page, IsUrl(page), NEW file, IsPath(file), NEW ref, IsReference(ref),
         NEW kind, NEW table, PathsKnown(table)
  PROVE  IsReference(Rewrite(page, file, ref, kind, table))
<1>1. PICK url : url = Join(page, ref)
  OBVIOUS
<1>2. IsUrl(url)
  BY <1>1, JoinShape
<1>3. PICK target : target = LinkTarget(page, url, kind, table)
  OBVIOUS
<1>4. ASSUME target # None PROVE IsPath(target)
  <2>1. CASE KnownPath(url, table) # None
    BY <1>3, <2>1, KnownPathShape DEF LinkTarget, PathsKnown
  <2>2. CASE KnownPath(url, table) = None
    <3>1. target = LocalPath(url, GuessedType(page, url, kind))
      BY <1>3, <1>4, <2>2 DEF LinkTarget
    <3> QED
      BY <1>2, <3>1, LocalPathShape
  <2> QED
    BY <2>1, <2>2
<1>5. Rewrite(page, file, ref, kind, table) =
        IF target = None THEN ref ELSE RelativeLink(file, target)
  BY <1>1, <1>3 DEF Rewrite
<1> QED
  BY <1>4, <1>5, RelativeLinkShape

-----------------------------------------------------------------------------
(* The listing: its records are archived captures, and it has jobs for them.*)
LEMMA RecordsAreArchived == Records \in Seq(Archive)
<1> DEFINE N == Len(Listing)
           T == Seq(Archive)
           step == [k \in 1 .. N |-> [s \in T |-> AddRecord(s, Listing[k])]]
<1>1. N \in Nat /\ \A k \in 1 .. N : Listing[k] \in Archive
  BY ArchiveAssumption
<1>2. \A s \in T, c \in Archive : AddRecord(s, c) \in T
  BY DEF AddRecord
<1>3. step \in [1 .. N -> [T -> T]]
  <2>1. \A k \in 1 .. N : [s \in T |-> AddRecord(s, Listing[k])] \in [T -> T]
    BY <1>1, <1>2
  <2> HIDE DEF T
  <2> QED
    BY <2>1
<1>4. <<>> \in T
  OBVIOUS
<1> HIDE DEF T
<1>5. PICK f \in [0 .. N -> T] : Recurs(f, N, <<>>, step)
  <2> HIDE DEF step, N
  <2> QED
    BY <1>1, <1>3, <1>4, RecursionExists
<1>6. f = [k \in 0 .. N |-> IF k = 0 THEN <<>> ELSE AddRecord(f[k - 1], Listing[k])]
  <2>1. ASSUME NEW k \in 0 .. N
        PROVE  f[k] = IF k = 0 THEN <<>> ELSE AddRecord(f[k - 1], Listing[k])
    <3>1. CASE k = 0
      BY <1>5, <3>1 DEF Recurs
    <3>2. CASE k # 0
      <4>1. k \in 1 .. N /\ k - 1 \in 0 .. N
        BY <1>1, <3>2
      <4>2. f[k - 1] \in T
        BY <4>1
      <4> QED
        BY <1>5, <3>2, <4>1, <4>2 DEF Recurs
    <3> QED
      BY <3>1, <3>2
  <2> QED
    BY <2>1
<1>7. KeptRecords = [k \in 0 .. N |-> IF k = 0 THEN <<>> ELSE AddRecord(KeptRecords[k - 1], Listing[k])]
  BY <1>6, Zenon DEF KeptRecords
<1>8. KeptRecords[0] \in T
  BY <1>1, <1>4, <1>7
<1>9. ASSUME NEW k \in 1 .. N, KeptRecords[k - 1] \in T PROVE KeptRecords[k] \in T
  <2>1. k \in 0 .. N /\ k # 0
    BY <1>1
  <2>2. KeptRecords[k] = AddRecord(KeptRecords[k - 1], Listing[k])
    BY <1>7, <2>1
  <2> QED
    BY <1>1, <1>2, <1>9, <2>2
<1>10. \A k \in 0 .. N : KeptRecords[k] \in T
  <2> HIDE DEF N
  <2> QED
    BY <1>1, <1>8, <1>9, RecursionStays
<1>11. N \in 0 .. N
  BY <1>1
<1> QED
  BY <1>10, <1>11 DEF Records, T

(* A set of numbers below a bound has a greatest element.                   *)
LEMMA GreatestNumber ==
  ASSUME NEW n \in Nat, NEW S \in SUBSET (1 .. n), S # {}
  PROVE  \E m \in S : \A k \in S : k <= m
<1> DEFINE T == {n - k : k \in S}
<1>1. T \in SUBSET Nat /\ T # {}
  <2>1. \A k \in S : n - k \in Nat
    OBVIOUS
  <2> QED
    BY <2>1
<1> HIDE DEF T
<1>2. PICK t \in T : \A k \in T : t <= k
  BY <1>1, LeastNumber
<1>3. PICK m \in S : t = n - m
  BY <1>2 DEF T
<1>4. ASSUME NEW k \in S PROVE k <= m
  <2>1. n - k \in T
    BY DEF T
  <2>2. n - m <= n - k
    BY <1>2, <1>3, <2>1
  <2> QED
    BY <2>2
<1> QED
  BY <1>4

(* Each record has a path in the map, that of an archived capture.          *)
LEMMA ListedPathsProperties ==
  /\ \A i \in DOMAIN Records : Normalized(Records[i].url) \in DOMAIN ListedPaths
  /\ \A k \in DOMAIN ListedPaths :
       \E c \in Archive : ListedPaths[k] = PathOf(c) /\ Normalized(c.url) = k
<1> DEFINE last(k) == CHOOSE i \in DOMAIN Records :
                        /\ Normalized(Records[i].url) = k
                        /\ \A j \in DOMAIN Records : Normalized(Records[j].url) = k => j <= i
           keys == {Normalized(Records[i].url) : i \in DOMAIN Records}
<1>1. Len(Records) \in Nat /\ DOMAIN Records = 1 .. Len(Records)
      /\ \A i \in DOMAIN Records : Records[i] \in Archive
  BY RecordsAreArchived
<1>2. ListedPaths = [k \in keys |-> LocalPath(Records[last(k)].url, Records[last(k)].mime)]
  BY DEF ListedPaths, RecordsToPaths
<1>3. ASSUME NEW k \in keys PROVE last(k) \in DOMAIN Records /\ Normalized(Records[last(k)].url) = k
  <2> DEFINE S == {i \in DOMAIN Records : Normalized(Records[i].url) = k}
  <2>1. S \in SUBSET (1 .. Len(Records)) /\ S # {}
    BY <1>1
  <2>2. PICK m \in S : \A j \in S : j <= m
    <3> HIDE DEF S
    <3> QED
      BY <1>1, <2>1, GreatestNumber
  <2>3. \E i \in DOMAIN Records :
          /\ Normalized(Records[i].url) = k
          /\ \A j \in DOMAIN Records : Normalized(Records[j].url) = k => j <= i
    BY <2>2
  <2> QED
    BY <2>3
<1> HIDE DEF last
<1>4. \A k \in keys : /\ ListedPaths[k] = PathOf(Records[last(k)]) /\ Records[last(k)] \in Archive
                      /\ Normalized(Records[last(k)].url) = k
  BY <1>1, <1>2, <1>3 DEF PathOf
<1>5. DOMAIN ListedPaths = keys
  BY <1>2
<1> QED
  BY <1>4, <1>5

(* A job is for an archived capture and a path that the mapper knows.       *)
PossibleJobs == [record : Archive, path : {PathOf(c) : c \in Archive}]

LEMMA JobsAreSelected ==
  /\ SelectedJobs[0] = <<>>
  /\ \A k \in 1 .. Len(Records) : SelectedJobs[k] = AddJob(SelectedJobs[k - 1], Records[k])
  /\ \A k \in 0 .. Len(Records) : SelectedJobs[k] \in Seq(PossibleJobs)
<1> DEFINE N == Len(Records)
           T == Seq(PossibleJobs)
           step == [k \in 1 .. N |-> [s \in T |-> AddJob(s, Records[k])]]
<1>1. N \in Nat /\ \A k \in 1 .. N : Records[k] \in Archive
  BY RecordsAreArchived
<1>2. ASSUME NEW s \in T, NEW k \in 1 .. N PROVE AddJob(s, Records[k]) \in T
  <2>1. PICK path : path = ListedPaths[Normalized(Records[k].url)]
    OBVIOUS
  <2>2. path \in {PathOf(c) : c \in Archive}
    <3>1. k \in DOMAIN Records
      BY RecordsAreArchived
    <3> QED
      BY <2>1, <3>1, ListedPathsProperties
  <2>3. Job(Records[k], path) \in PossibleJobs
    BY <1>1, <2>2 DEF Job, PossibleJobs
  <2>4. Append(s, Job(Records[k], path)) \in T
    BY <2>3
  <2> QED
    BY <2>1, <2>4 DEF AddJob
<1>3. step \in [1 .. N -> [T -> T]]
  <2>1. \A k \in 1 .. N : [s \in T |-> AddJob(s, Records[k])] \in [T -> T]
    BY <1>2
  <2> HIDE DEF T
  <2> QED
    BY <2>1
<1>4. <<>> \in T
  OBVIOUS
<1> HIDE DEF T
<1>5. PICK f \in [0 .. N -> T] : Recurs(f, N, <<>>, step)
  <2> HIDE DEF step, N
  <2> QED
    BY <1>1, <1>3, <1>4, RecursionExists
<1>6. f = [k \in 0 .. N |-> IF k = 0 THEN <<>> ELSE AddJob(f[k - 1], Records[k])]
  <2>1. ASSUME NEW k \in 0 .. N
        PROVE  f[k] = IF k = 0 THEN <<>> ELSE AddJob(f[k - 1], Records[k])
    <3>1. CASE k = 0
      BY <1>5, <3>1 DEF Recurs
    <3>2. CASE k # 0
      <4>1. k \in 1 .. N /\ k - 1 \in 0 .. N
        BY <1>1, <3>2
      <4>2. f[k - 1] \in T
        BY <4>1
      <4> QED
        BY <1>5, <3>2, <4>1, <4>2 DEF Recurs
    <3> QED
      BY <3>1, <3>2
  <2> QED
    BY <2>1
<1>7. SelectedJobs = [k \in 0 .. N |-> IF k = 0 THEN <<>> ELSE AddJob(SelectedJobs[k - 1], Records[k])]
  BY <1>6, Zenon DEF SelectedJobs
<1>8. SelectedJobs[0] = <<>> /\ SelectedJobs[0] \in T
  BY <1>1, <1>4, <1>7
<1>9. ASSUME NEW k \in 1 .. N
      PROVE  SelectedJobs[k] = AddJob(SelectedJobs[k - 1], Records[k])
  <2>1. k \in 0 .. N /\ k # 0
    BY <1>1
  <2> QED
    BY <1>7, <2>1
<1>10. \A k \in 1 .. N : SelectedJobs[k - 1] \in T => SelectedJobs[k] \in T
  BY <1>2, <1>9
<1>11. \A k \in 0 .. N : SelectedJobs[k] \in T
  <2> HIDE DEF N
  <2> QED
    BY <1>1, <1>8, <1>10, RecursionStays
<1> QED
  BY <1>8, <1>9, <1>11 DEF T

LEMMA PrimaryJobsArePossible == PrimaryJobs \in Seq(PossibleJobs)
<1>1. Len(Records) \in 0 .. Len(Records)
  BY RecordsAreArchived
<1> QED
  BY <1>1, JobsAreSelected DEF PrimaryJobs

-----------------------------------------------------------------------------
(* Types, and the shapes of what is known and of what is on the disk.       *)
IsLink(link) ==
  /\ link = [was |-> link.was, text |-> link.text, post |-> link.post, row |-> link.row,
             ref |-> link.ref]
  /\ IsReference(link.ref)
IsFile(file) ==
  /\ file = [of |-> file.of, state |-> file.state, links |-> file.links]
  /\ file.of \in Archive
  /\ file.state \in {"whole", "torn", "empty"}
  /\ \A link \in file.links : IsLink(link)

JobsTyped == jobs \in Seq(PossibleJobs) /\ (phase = "recording" => jobs # <<>>)
FilesTyped == \A p \in DOMAIN disk : IsPath(p) /\ IsFile(disk[p])

(* What TypeOK says besides of jobs and files.                              *)
OtherTypes ==
  /\ phase \in Ended \cup {"jobs", "recording", "waves", "resolving", "topics", "directories",
                          "repairing"}
  /\ pass \in {"primary", "linked", "repair"}
  /\ shelf \subseteq DOMAIN disk
  /\ cancelled \in BOOLEAN
  /\ gaps \subseteq {"cancelled", "missed"}
  /\ evidence \in [Places -> Archive \cup {None}]
  /\ incidents \in 0 .. MaxIncidents
  /\ runs \in 0 .. MaxRuns

TInv == OtherTypes /\ JobsTyped /\ PathsKnown(known) /\ FilesTyped

LEMMA PathsOfCaptures ==
  /\ \A c \in Archive : IsPath(PathOf(c)) /\ PathOf(c) \in Places
  /\ PathsKnown(ListedPaths)
  /\ \A job \in PossibleJobs : job.record \in Archive /\ job.path \in Places /\ IsPath(job.path)
<1>1. \A c \in Archive : IsPath(PathOf(c)) /\ PathOf(c) \in Places
  BY SiteAssumption, LocalPathShape DEF PathOf, Places
<1>2. PathsKnown(ListedPaths)
  BY <1>1, ListedPathsProperties DEF PathsKnown
<1> QED
  BY <1>1, <1>2 DEF PossibleJobs

LEMMA FoundIsArchived ==
  ASSUME NEW url, Found(url) # None
  PROVE  Found(url) \in Archive
BY DEF Found, Answers

(* What is written for a job is a file.                                     *)
LEMMA SavedIsFile ==
  ASSUME NEW c \in Archive, NEW path, IsPath(path), NEW paths, PathsKnown(paths)
  PROVE  IsFile(Saved(c, path, paths))
<1> DEFINE made(link) ==
             [was |-> link, text |-> link.text, post |-> link.post, row |-> link.row,
              ref |-> Rewrite(c.url, path, link.ref, link.kind, paths)]
<1>1. ASSUME NEW link \in c.links PROVE IsLink(made(link))
  <2>1. IsUrl(c.url) /\ IsReference(link.ref)
    BY SiteAssumption
  <2>2. IsReference(Rewrite(c.url, path, link.ref, link.kind, paths))
    BY <2>1, RewriteShape
  <2> QED
    BY <2>2 DEF IsLink
<1>2. Saved(c, path, paths) =
        [of |-> c, state |-> "whole", links |-> {made(link) : link \in c.links}]
  BY DEF Saved
<1> HIDE DEF made
<1> QED
  BY <1>1, <1>2 DEF IsFile

(* An index.htm stands in for a link to the index.html beside it.           *)
LEMMA DirectoryCopies ==
  ASSUME NEW files, NEW pages, NEW copy \in DirectoryAliases(files, pages)
  PROVE  /\ copy.from \in DOMAIN pages
         /\ copy.from = Append(FrontOf(copy.to), IndexHtm)
         /\ \E pl \in LinksOf(pages) :
              copy.to = ResolveLocal(pl[1], pl[2].ref) /\ copy.to # None /\ copy.to # <<>>
<1> DEFINE targets == {ResolveLocal(pl[1], pl[2].ref) : pl \in LinksOf(pages)} \ {None, <<>>}
           beside(t) == Append(FrontOf(t), IndexHtm)
<1>1. PICK t \in targets : /\ copy = [from |-> beside(t), to |-> t]
                           /\ beside(t) \in DOMAIN pages
  <2> HIDE DEF targets, beside
  <2>1. DirectoryAliases(files, pages) =
          {[from |-> beside(t), to |-> t] :
             t \in {m \in targets : /\ LastOf(m) = IndexHtml /\ ~ TargetExists(files, m)
                                   /\ beside(m) \in DOMAIN pages /\ pages[beside(m)].usable}}
    BY DEF DirectoryAliases, targets, beside
  <2> QED
    BY <2>1
<1>2. copy.to = t /\ copy.from = beside(t)
  BY <1>1
<1> QED
  BY <1>1, <1>2

(* A copy is of a page on the disk, to a path.                              *)
LEMMA CopiesTyped ==
  ASSUME TInv, NEW copy \in Copies
  PROVE  copy.from \in DOMAIN disk /\ IsPath(copy.to)
<1>1. /\ DOMAIN Pages = shelf /\ shelf \subseteq DOMAIN disk
      /\ \A p \in shelf : Pages[p].links = disk[p].links
  BY DEF Pages, TInv, OtherTypes
<1>2. ASSUME NEW pl \in LinksOf(Pages)
      PROVE  pl[1] \in shelf /\ IsPath(pl[1]) /\ IsReference(pl[2].ref)
  BY <1>1 DEF LinksOf, TInv, FilesTyped, IsFile, IsLink
<1>3. CASE phase = "topics"
  <2>1. copy \in TopicAliases(DOMAIN disk, Pages)
    BY <1>3 DEF Copies
  <2>2. PICK pl \in LinksOf(Pages) :
          /\ MissingTopic(DOMAIN disk, pl[1], pl[2]) # None
          /\ copy.to = MissingTopic(DOMAIN disk, pl[1], pl[2])
          /\ copy.from = AliasSource(DOMAIN disk, Pages, pl[1], pl[2], copy.to)
          /\ copy.from # None
    BY <2>1 DEF TopicAliases
  <2>3. copy.from \in DOMAIN Pages
    BY <1>1, <1>2, <2>2, SourceIsBeside
  <2>4. /\ copy.to = ResolveLocal(pl[1], pl[2].ref) /\ copy.to # None /\ copy.to # <<>>
    BY <2>2 DEF MissingTopic
  <2>5. IsPath(copy.to)
    BY <1>2, <2>4, ResolveShape DEF IsPath
  <2> QED
    BY <1>1, <2>3, <2>5
<1>4. CASE phase = "directories"
  <2>1. copy \in DirectoryAliases(DOMAIN disk, Pages)
    BY <1>4 DEF Copies
  <2>2. PICK pl \in LinksOf(Pages) :
          copy.to = ResolveLocal(pl[1], pl[2].ref) /\ copy.to # None /\ copy.to # <<>>
    BY <2>1, DirectoryCopies
  <2>3. copy.from \in DOMAIN Pages
    BY <2>1, DirectoryCopies
  <2>4. IsPath(copy.to)
    BY <1>2, <2>2, ResolveShape DEF IsPath
  <2> QED
    BY <1>1, <2>3, <2>4
<1>5. CASE phase \notin {"topics", "directories"}
  BY <1>5 DEF Copies
<1> QED
  BY <1>3, <1>4, <1>5

LEMMA PutTyped ==
  ASSUME TInv, NEW path, IsPath(path), NEW file, IsFile(file), disk' = Put(path, file)
  PROVE  FilesTyped' /\ DOMAIN disk \subseteq DOMAIN disk'
<1>1. /\ DOMAIN disk' = DOMAIN disk \cup {path}
      /\ \A p \in DOMAIN disk' : disk'[p] = IF p = path THEN file ELSE disk[p]
  BY DEF Put
<1> QED
  BY <1>1 DEF TInv, FilesTyped

LEMMA TypesFollow == TInv => TypeOK
<1> SUFFICES ASSUME TInv PROVE TypeOK
  OBVIOUS
<1>1. \A i \in DOMAIN jobs : jobs[i] \in PossibleJobs
  BY DEF TInv, JobsTyped
<1>2. \A i \in DOMAIN jobs : jobs[i].record \in Archive /\ jobs[i].path \in Places
  BY <1>1, PathsOfCaptures
<1>3. \A p \in DOMAIN disk : disk[p].of \in Archive /\ disk[p].state \in {"whole", "torn", "empty"}
  BY DEF TInv, FilesTyped, IsFile
<1> QED
  BY <1>2, <1>3 DEF TInv, OtherTypes, TypeOK

LEMMA InitTyped == Init => TInv
<1> SUFFICES ASSUME Init PROVE TInv
  OBVIOUS
<1>1. OtherTypes
  <2>1. incidents \in 0 .. MaxIncidents /\ runs \in 0 .. MaxRuns
    BY ArchiveAssumption DEF Init
  <2>2. evidence \in [Places -> Archive \cup {None}]
    BY DEF Init
  <2> QED
    BY <2>1, <2>2 DEF Init, OtherTypes, Ended
<1>2. JobsTyped
  BY DEF Init, JobsTyped
<1>3. FilesTyped /\ PathsKnown(known)
  BY DEF Init, FilesTyped, PathsKnown
<1> QED
  BY <1>1, <1>2, <1>3 DEF TInv

(* An alias that is cut short has some of the links of its source.          *)
LEMMA CopyCutShort ==
  ASSUME TInv, KillWhileCopying
  PROVE  \E copy \in Copies : \E file :
           /\ disk' = Put(copy.to, file) /\ IsFile(file)
           /\ file.of = disk[copy.from].of /\ file.links \subseteq disk[copy.from].links
<1>1. PICK copy \in Copies : \E state \in {"empty", "torn"}, links \in SUBSET disk[copy.from].links :
        disk' = Put(copy.to, [disk[copy.from] EXCEPT !.state = state, !.links = links])
  BY DEF KillWhileCopying
<1>2. PICK state \in {"empty", "torn"}, links \in SUBSET disk[copy.from].links :
        disk' = Put(copy.to, [disk[copy.from] EXCEPT !.state = state, !.links = links])
  BY <1>1
<1>3. PICK source : source = disk[copy.from] /\ IsFile(source)
  BY CopiesTyped DEF TInv, FilesTyped
<1>4. PICK file : file = [source EXCEPT !.state = state, !.links = links]
  OBVIOUS
<1>5. file = [of |-> source.of, state |-> state, links |-> links] /\ source.of \in Archive
  BY <1>3, <1>4 DEF IsFile
<1>6. IsFile(file) /\ file.of = source.of /\ file.links \subseteq source.links
  BY <1>2, <1>3, <1>5 DEF IsFile
<1> QED
  BY <1>2, <1>3, <1>4, <1>6

(* The job in hand is of an archived capture, for a path of the mapper.     *)
LEMMA CurrentTyped ==
  ASSUME TInv, jobs # <<>>
  PROVE  /\ Current \in PossibleJobs /\ Tail(jobs) \in Seq(PossibleJobs)
         /\ Current.record \in Archive /\ Current.path \in Places /\ IsPath(Current.path)
<1>1. Current \in PossibleJobs /\ Tail(jobs) \in Seq(PossibleJobs)
  BY DEF TInv, JobsTyped, Current
<1> QED
  BY <1>1, PathsOfCaptures

(* A repaired link is one; a file keeps its capture when it is repaired.    *)
RepairedLink(link) == [link EXCEPT !.ref = RepairedRef(@)]

LEMMA RepairedLinkShape ==
  ASSUME NEW link, IsLink(link), link.ref.kind = "local", link.ref.down # <<>>
  PROVE  /\ IsLink(RepairedLink(link))
         /\ RepairedLink(link).ref = RepairedRef(link.ref)
         /\ RepairedRef(link.ref).kind = "local"
         /\ RepairedRef(link.ref).rooted = link.ref.rooted
         /\ RepairedRef(link.ref).up = link.ref.up
         /\ RepairedRef(link.ref).down = ToHtml(link.ref.down)
<1>1. PICK ref : ref = link.ref
  OBVIOUS
<1>2. /\ ref = [kind |-> "local", rooted |-> ref.rooted, up |-> ref.up, down |-> ref.down,
                slash |-> ref.slash, query |-> ref.query]
      /\ ref.rooted \in BOOLEAN /\ ref.up \in Nat /\ AreNames(ref.down)
  BY <1>1 DEF IsLink, IsReference, Local
<1>3. IsPath(ToHtml(ref.down))
  <2>1. IsPath(ref.down)
    BY <1>1, <1>2 DEF IsPath
  <2>2. AreNames(FrontOf(ref.down)) /\ IsName(LastOf(ref.down))
    BY <2>1, DirectoryShape
  <2>3. IsSequence(Append(LastOf(ref.down).parts, "html"))
    BY <2>2, AppendSequence DEF IsName
  <2>4. PICK last : last = LastOf(ref.down)
    OBVIOUS
  <2>5. AsHtml(last) = [parts |-> Append(last.parts, "html"), hash |-> last.hash]
    BY <2>2, <2>4 DEF AsHtml, IsName
  <2>6. IsName(AsHtml(last))
    BY <2>3, <2>4, <2>5 DEF IsName
  <2> QED
    BY <2>2, <2>4, <2>6, AppendName DEF ToHtml
<1>4. PICK down : down = ToHtml(ref.down)
  OBVIOUS
<1>5. RepairedRef(ref) = [kind |-> "local", rooted |-> ref.rooted, up |-> ref.up, down |-> down,
                          slash |-> ref.slash, query |-> None]
  <2>1. PICK rooted, up, old, slash, query :
          /\ ref = [kind |-> "local", rooted |-> rooted, up |-> up, down |-> old,
                    slash |-> slash, query |-> query]
          /\ rooted = ref.rooted /\ up = ref.up /\ slash = ref.slash
    BY <1>2
  <2>2. RepairedRef(ref) = [ref EXCEPT !.down = down, !.query = None]
    BY <1>4 DEF RepairedRef
  <2> QED
    BY <2>1, <2>2
<1>6. PICK fixed : fixed = RepairedRef(ref)
  OBVIOUS
<1>7. /\ fixed.kind = "local" /\ fixed.rooted = ref.rooted /\ fixed.up = ref.up
      /\ fixed.down = down /\ fixed.slash = ref.slash /\ fixed.query = None
  BY <1>5, <1>6
<1>8. IsReference(fixed)
  <2>1. fixed = [Local(fixed.rooted, fixed.up, fixed.down, fixed.query) EXCEPT !.slash = fixed.slash]
    BY <1>5, <1>6, <1>7 DEF Local
  <2>2. fixed.rooted \in BOOLEAN /\ fixed.up \in Nat /\ AreNames(fixed.down)
    BY <1>2, <1>3, <1>4, <1>7 DEF IsPath
  <2> QED
    BY <1>7, <2>1, <2>2 DEF IsReference
<1>9. RepairedLink(link) = [was |-> link.was, text |-> link.text, post |-> link.post,
                            row |-> link.row, ref |-> fixed]
  BY <1>1, <1>6 DEF RepairedLink, IsLink
<1>10. IsLink(RepairedLink(link)) /\ RepairedLink(link).ref = fixed
  BY <1>8, <1>9 DEF IsLink
<1> QED
  BY <1>1, <1>4, <1>6, <1>7, <1>10

LEMMA RepairsAreLocal ==
  ASSUME FilesTyped, NEW p \in DOMAIN disk, NEW link \in Repairs(p)
  PROVE  /\ IsLink(link) /\ link.ref.kind = "local" /\ link.ref.down # <<>>
         /\ link \in disk[p].links
<1>1. IsLink(link) /\ link \in disk[p].links /\ IsPath(p)
  BY DEF Repairs, FilesTyped, IsFile
<1>2. ResolveLocal(p, link.ref) # None /\ link.ref.down # <<>>
  BY DEF Repairs, Repairable
<1>3. link.ref.kind = "local"
  BY <1>1, <1>2, ResolveShape DEF IsLink
<1> QED
  BY <1>1, <1>2, <1>3

LEMMA RepairedFiles ==
  ASSUME TInv, RepairFile
  PROVE  /\ FilesTyped' /\ DOMAIN disk' = DOMAIN disk
         /\ \A q \in DOMAIN disk : disk'[q].state = disk[q].state /\ disk'[q].of = disk[q].of
         /\ First(shelf) \in shelf /\ shelf' = shelf \ {First(shelf)}
         /\ \A q \in DOMAIN disk \ {First(shelf)} : disk'[q] = disk[q]
         /\ disk'[First(shelf)].links =
              {IF link \in Repairs(First(shelf)) THEN RepairedLink(link) ELSE link :
                 link \in disk[First(shelf)].links}
<1>1. PICK p : p = First(shelf)
  OBVIOUS
<1>2. p \in shelf /\ p \in DOMAIN disk
  BY <1>1 DEF RepairFile, First, TInv, OtherTypes
<1>3. PICK links : links = {IF link \in Repairs(p) THEN RepairedLink(link) ELSE link :
                              link \in disk[p].links}
  OBVIOUS
<1>4. disk' = [disk EXCEPT ![p] = [of |-> @.of, state |-> @.state, links |-> links]]
      /\ shelf' = shelf \ {p}
  BY <1>1, <1>3 DEF RepairFile, RepairedLink
<1>5. /\ DOMAIN disk' = DOMAIN disk
      /\ \A q \in DOMAIN disk \ {p} : disk'[q] = disk[q]
      /\ disk'[p] = [of |-> disk[p].of, state |-> disk[p].state, links |-> links]
  BY <1>2, <1>4
<1>6. IsFile(disk'[p])
  <2>1. ASSUME NEW link \in disk[p].links
        PROVE  IsLink(IF link \in Repairs(p) THEN RepairedLink(link) ELSE link)
    <3>1. IsLink(link)
      BY <1>2 DEF TInv, FilesTyped, IsFile
    <3>2. link \in Repairs(p) => IsLink(RepairedLink(link))
      BY <1>2, RepairsAreLocal, RepairedLinkShape DEF TInv
    <3> QED
      BY <3>1, <3>2
  <2>2. \A link \in links : IsLink(link)
    BY <1>3, <2>1
  <2>3. disk[p].of \in Archive /\ disk[p].state \in {"whole", "torn", "empty"}
    BY <1>2 DEF TInv, FilesTyped, IsFile
  <2> QED
    BY <1>5, <2>2, <2>3 DEF IsFile
<1>7. FilesTyped'
  BY <1>5, <1>6 DEF TInv, FilesTyped
<1>8. \A q \in DOMAIN disk : disk'[q].state = disk[q].state /\ disk'[q].of = disk[q].of
  BY <1>5
<1> QED
  BY <1>1, <1>2, <1>3, <1>4, <1>5, <1>7, <1>8

LEMMA TypesStay == TInv /\ [Next]_vars => TInv'
<1> SUFFICES ASSUME TInv, [Next]_vars PROVE TInv'
  OBVIOUS
<1> USE DEF Ended
<1>1. OtherTypes /\ JobsTyped /\ FilesTyped /\ PathsKnown(known)
  BY DEF TInv
<1>2. ASSUME OtherTypes', JobsTyped', FilesTyped', PathsKnown(known)' PROVE TInv'
  BY <1>2 DEF TInv
<1>3. HtmlFiles \subseteq DOMAIN disk /\ RepairFiles \subseteq DOMAIN disk
  BY DEF HtmlFiles, RepairFiles
<1>4. ASSUME UNCHANGED disk PROVE FilesTyped'
  BY <1>1, <1>4 DEF FilesTyped
<1>5. ASSUME UNCHANGED known PROVE PathsKnown(known)'
  BY <1>1, <1>5 DEF PathsKnown
<1>6. ASSUME UNCHANGED jobs, phase' # "recording" PROVE JobsTyped'
  BY <1>1, <1>6 DEF JobsTyped
<1>7. ASSUME jobs' = <<>>, phase' # "recording" PROVE JobsTyped'
  BY <1>7 DEF JobsTyped
<1>8. ASSUME known' = <<>> PROVE PathsKnown(known)'
  BY <1>8 DEF PathsKnown
<1>a. ASSUME runs < MaxRuns, runs' = runs + 1 PROVE runs' \in 0 .. MaxRuns
  BY <1>1, <1>a, ArchiveAssumption DEF OtherTypes
<1>b. ASSUME NEW incident, Happens(incident) PROVE incidents' \in 0 .. MaxIncidents
  BY <1>1, <1>b, ArchiveAssumption DEF OtherTypes, Happens
<1>9. CASE StartDownload
  <2>0. runs' \in 0 .. MaxRuns
    BY <1>a, <1>9 DEF StartDownload
  <2>1. OtherTypes'
    BY <1>1, <2>0, <1>9 DEF StartDownload, OtherTypes, diskVars
  <2>2. JobsTyped'
    BY <1>9, PrimaryJobsArePossible DEF StartDownload, JobsTyped
  <2>3. PathsKnown(known)'
    BY <1>9, PathsOfCaptures DEF StartDownload, PathsKnown
  <2> QED
    BY <1>2, <1>4, <1>9, <2>1, <2>2, <2>3 DEF StartDownload, diskVars
<1>10. CASE StartOutputRepair
  <2>0. runs' \in 0 .. MaxRuns
    BY <1>a, <1>10 DEF StartOutputRepair
  <2>1. OtherTypes'
    BY <1>1, <2>0, <1>3, <1>10 DEF StartOutputRepair, OtherTypes, diskVars
  <2> QED
    BY <1>2, <1>4, <1>7, <1>8, <1>10, <2>1 DEF StartOutputRepair, diskVars
<1>11. CASE StartRepair
  <2>0. runs' \in 0 .. MaxRuns
    BY <1>a, <1>11 DEF StartRepair
  <2>1. OtherTypes'
    BY <1>1, <2>0, <1>3, <1>11 DEF StartRepair, OtherTypes, diskVars, Forget
  <2> QED
    BY <1>2, <1>4, <1>7, <1>8, <1>11, <2>1 DEF StartRepair, diskVars, Forget
<1>12. CASE Cancel
  <2>0. incidents' \in 0 .. MaxIncidents
    BY <1>b, <1>12 DEF Cancel
  <2>1. OtherTypes'
    BY <1>1, <2>0, <1>12 DEF Cancel, OtherTypes, diskVars
  <2>2. JobsTyped'
    BY <1>1, <1>12 DEF Cancel, JobsTyped
  <2> QED
    BY <1>2, <1>4, <1>5, <1>12, <2>1, <2>2 DEF Cancel, diskVars
<1>13. CASE Kill
  <2>0. incidents' \in 0 .. MaxIncidents
    BY <1>b, <1>13 DEF Kill
  <2>1. OtherTypes'
    BY <1>1, <2>0, <1>13 DEF Kill, OtherTypes, diskVars, Forget
  <2> QED
    BY <1>2, <1>4, <1>7, <1>8, <1>13, <2>1 DEF Kill, diskVars, Forget
<1>14. CASE CancelledJob \/ SkippedJob \/ MissedJob
  <2>1. /\ UNCHANGED <<phase, pass, known, shelf, cancelled, disk, evidence, runs>>
        /\ jobs' = Tail(jobs) /\ jobs # <<>> /\ phase = "jobs"
        /\ gaps' \in {gaps, gaps \cup {"cancelled"}, gaps \cup {"missed"}}
    BY <1>14 DEF CancelledJob, SkippedJob, MissedJob, Downloading, diskVars
  <2>2. incidents' \in 0 .. MaxIncidents
    BY <1>1, <1>b, <1>14 DEF CancelledJob, SkippedJob, MissedJob, OtherTypes
  <2>3. OtherTypes'
    BY <1>1, <2>1, <2>2 DEF OtherTypes
  <2>4. JobsTyped'
    BY <2>1, CurrentTyped DEF JobsTyped
  <2> QED
    BY <1>2, <1>4, <1>5, <2>1, <2>3, <2>4
<1>15. CASE StoreFile
  <2>1. /\ jobs # <<>> /\ UNCHANGED <<processVars, evidence, incidents, runs>>
        /\ phase' = "recording"
        /\ disk' = Put(Current.path, Saved(Current.record, Current.path, known))
    BY <1>15 DEF StoreFile, Downloading
  <2>2. IsFile(Saved(Current.record, Current.path, known))
    BY <1>1, <2>1, CurrentTyped, SavedIsFile
  <2>3. FilesTyped' /\ DOMAIN disk \subseteq DOMAIN disk'
    BY <2>1, <2>2, CurrentTyped, PutTyped
  <2>4. OtherTypes'
    BY <1>1, <2>1, <2>3 DEF OtherTypes, processVars
  <2>5. JobsTyped'
    BY <1>1, <2>1 DEF JobsTyped, processVars
  <2> QED
    BY <1>2, <1>5, <2>1, <2>3, <2>4, <2>5 DEF processVars
<1>16. CASE RecordFile
  <2>1. /\ phase = "recording" /\ jobs # <<>>
        /\ evidence' = [evidence EXCEPT ![Current.path] = Current.record]
        /\ jobs' = Tail(jobs) /\ phase' = "jobs"
        /\ UNCHANGED <<pass, known, shelf, cancelled, gaps, disk, incidents, runs>>
    BY <1>1, <1>16 DEF RecordFile, JobsTyped
  <2>2. evidence' \in [Places -> Archive \cup {None}]
    BY <1>1, <2>1, CurrentTyped DEF OtherTypes
  <2>3. OtherTypes'
    BY <1>1, <2>1, <2>2 DEF OtherTypes
  <2>4. JobsTyped'
    BY <2>1, CurrentTyped DEF JobsTyped
  <2> QED
    BY <1>2, <1>4, <1>5, <2>1, <2>3, <2>4
<1>17. CASE JobsEnd
  <2>1. OtherTypes'
    BY <1>1, <1>17 DEF JobsEnd, OtherTypes, diskVars
  <2> QED
    BY <1>2, <1>4, <1>5, <1>6, <1>17, <2>1 DEF JobsEnd, diskVars
<1>18. CASE NextWave
  <2>1. OtherTypes'
    BY <1>1, <1>18 DEF NextWave, OtherTypes, diskVars
  <2> QED
    BY <1>2, <1>4, <1>5, <1>6, <1>18, <2>1 DEF NextWave, diskVars
<1>19. CASE ResolveReference
  <2>1. UNCHANGED <<phase, pass, shelf, cancelled, gaps, disk, evidence, incidents, runs>>
        /\ phase = "resolving"
    BY <1>19 DEF ResolveReference, diskVars
  <2> DEFINE u == CHOOSE v \in pending : TRUE
             c == Found(u)
  <2>2. \/ UNCHANGED <<known, jobs>>
        \/ /\ c # None
           /\ known' = [k \in DOMAIN known \cup {Normalized(u), Normalized(c.url)} |->
                          IF k \in {Normalized(u), Normalized(c.url)} THEN PathOf(c) ELSE known[k]]
           /\ jobs' = IF PathOf(c) \in seen THEN jobs ELSE Append(jobs, Job(c, PathOf(c)))
    BY <1>19 DEF ResolveReference
  <2> HIDE DEF u, c
  <2>3. OtherTypes'
    BY <1>1, <2>1 DEF OtherTypes
  <2>4. CASE UNCHANGED <<known, jobs>>
    BY <1>2, <1>4, <1>5, <1>6, <2>1, <2>3, <2>4
  <2>5. CASE ~ UNCHANGED <<known, jobs>>
    <3>1. c \in Archive
      BY <2>2, <2>5, FoundIsArchived DEF c
    <3>2. IsPath(PathOf(c)) /\ Job(c, PathOf(c)) \in PossibleJobs
      BY <3>1, PathsOfCaptures DEF Job, PossibleJobs
    <3>3. PathsKnown(known)'
      BY <1>1, <2>2, <2>5, <3>2 DEF PathsKnown
    <3>4. JobsTyped'
      <4>1. jobs' = jobs \/ jobs' = Append(jobs, Job(c, PathOf(c)))
        BY <2>2, <2>5
      <4> QED
        BY <1>1, <2>1, <3>2, <4>1 DEF JobsTyped
    <3> QED
      BY <1>2, <1>4, <2>1, <2>3, <3>3, <3>4
  <2> QED
    BY <2>4, <2>5
<1>20. CASE WaveResolved
  <2>1. OtherTypes'
    BY <1>1, <1>20 DEF WaveResolved, OtherTypes, diskVars
  <2> QED
    BY <1>2, <1>4, <1>5, <1>6, <1>20, <2>1 DEF WaveResolved, diskVars
<1>21. CASE WavesEnd
  <2>1. OtherTypes'
    BY <1>1, <1>3, <1>21 DEF WavesEnd, OtherTypes, diskVars
  <2> QED
    BY <1>2, <1>4, <1>5, <1>6, <1>21, <2>1 DEF WavesEnd, diskVars
<1>22. CASE MakeAlias
  <2>1. PICK copy \in Copies : disk' = Put(copy.to, disk[copy.from])
    BY <1>22 DEF MakeAlias
  <2>2. UNCHANGED <<phase, processVars, evidence, incidents, runs>> /\ phase # "recording"
    BY <1>22, <2>1 DEF MakeAlias, Copies
  <2>3. FilesTyped' /\ DOMAIN disk \subseteq DOMAIN disk'
    BY <1>1, <2>1, CopiesTyped, PutTyped DEF FilesTyped
  <2>4. OtherTypes'
    BY <1>1, <2>2, <2>3 DEF OtherTypes, processVars
  <2> QED
    BY <1>2, <1>5, <1>6, <2>2, <2>3, <2>4 DEF processVars
<1>23. CASE KillWhileCopying
  <2>1. PICK copy \in Copies : \E file : disk' = Put(copy.to, file) /\ IsFile(file)
    BY <1>23, CopyCutShort
  <2>2. /\ phase' = "idle" /\ shelf' = {} /\ Forget /\ UNCHANGED <<evidence, runs>>
        /\ incidents' \in 0 .. MaxIncidents
    BY <1>b, <1>23 DEF KillWhileCopying
  <2>3. PICK file : disk' = Put(copy.to, file) /\ IsFile(file)
    BY <2>1
  <2>4. FilesTyped' /\ DOMAIN disk \subseteq DOMAIN disk'
    BY <2>3, CopiesTyped, PutTyped
  <2>5. OtherTypes'
    BY <1>1, <2>2 DEF OtherTypes, Forget
  <2> QED
    BY <1>2, <1>7, <1>8, <2>2, <2>4, <2>5 DEF Forget
<1>24. CASE AliasesEnd
  <2>1. OtherTypes'
    BY <1>1, <1>3, <1>24 DEF AliasesEnd, OtherTypes, diskVars
  <2> QED
    BY <1>2, <1>4, <1>5, <1>6, <1>24, <2>1 DEF AliasesEnd, diskVars
<1>25. CASE RepairFile
  <2>1. phase = "repairing" /\ shelf # {} /\ shelf' \subseteq shelf
        /\ UNCHANGED <<phase, pass, jobs, known, cancelled, gaps, evidence, incidents, runs>>
    BY <1>25 DEF RepairFile
  <2>2. FilesTyped' /\ DOMAIN disk' = DOMAIN disk
    BY <1>1, <1>25, RepairedFiles
  <2>3. OtherTypes'
    BY <1>1, <2>1, <2>2 DEF OtherTypes
  <2> QED
    BY <1>2, <1>5, <1>6, <2>1, <2>2, <2>3
<1>26. CASE RepairEnds
  <2>1. OtherTypes'
    BY <1>1, <1>26 DEF RepairEnds, OtherTypes, diskVars, processVars
  <2> QED
    BY <1>2, <1>4, <1>5, <1>6, <1>26, <2>1 DEF RepairEnds, diskVars, processVars
<1>27. CASE UNCHANGED vars
  <2>1. OtherTypes' /\ JobsTyped'
    BY <1>1, <1>27 DEF vars, diskVars, processVars, OtherTypes, JobsTyped
  <2> QED
    BY <1>2, <1>4, <1>5, <1>27, <2>1 DEF vars, diskVars, processVars
<1> QED
  BY <1>9, <1>10, <1>11, <1>12, <1>13, <1>14, <1>15, <1>16, <1>17, <1>18, <1>19, <1>20, <1>21,
     <1>22, <1>23, <1>24, <1>25, <1>26, <1>27 DEF Next

(* Jobs, files and what the journal says are of the archive (download_site, *)
(* repair_output_dir and repair_local_links).                               *)
THEOREM ResumedRunsStayTyped == Spec => []TypeOK
BY InitTyped, TypesStay, TypesFollow, PTL DEF Spec

-----------------------------------------------------------------------------
(* EvidenceHolds is not inductive by itself: between the rename of a file   *)
(* and its entry the journal is about to name the file just stored.         *)
AboutToRecord ==
  phase = "recording" => IsWhole(Current.path) /\ disk[Current.path].of = Current.record

IInv == EvidenceHolds /\ AboutToRecord /\ DOMAIN evidence = Places

LEMMA InitEstablishes == Init => IInv
BY DEF Init, IInv, EvidenceHolds, AboutToRecord

(* Aliases are only made where there is no file (create_new).               *)
LEMMA AliasesAreNew ==
  ASSUME NEW copy \in Copies
  PROVE  copy.to \notin DOMAIN disk
<1>1. CASE phase = "topics"
  <2>1. copy \in TopicAliases(DOMAIN disk, Pages)
    BY <1>1 DEF Copies
  <2>2. PICK pl \in LinksOf(Pages) :
          /\ MissingTopic(DOMAIN disk, pl[1], pl[2]) # None
          /\ copy.to = MissingTopic(DOMAIN disk, pl[1], pl[2])
    BY <2>1 DEF TopicAliases
  <2> QED
    BY <2>2 DEF MissingTopic
<1>2. CASE phase = "directories"
  <2>1. copy \in DirectoryAliases(DOMAIN disk, Pages)
    BY <1>2 DEF Copies
  <2>2. ~ TargetExists(DOMAIN disk, copy.to)
    BY <2>1 DEF DirectoryAliases
  <2> QED
    BY <2>2 DEF TargetExists
<1>3. CASE phase \notin {"topics", "directories"}
  BY <1>3 DEF Copies
<1> QED
  BY <1>1, <1>2, <1>3

(* A file put where there was none, or an empty one, disturbs no entry.     *)
LEMMA PutKeepsEvidence ==
  ASSUME IInv, NEW path, NEW file, ~ HasFile(path),
         disk' = Put(path, file), UNCHANGED evidence
  PROVE  EvidenceHolds' /\ DOMAIN evidence' = Places
<1>1. \A p \in Places : evidence[p] # None => p # path
  BY DEF IInv, EvidenceHolds, IsWhole, HasFile
<1>2. \A p \in DOMAIN disk : p # path => p \in DOMAIN disk' /\ disk'[p] = disk[p]
  BY DEF Put
<1> QED
  BY <1>1, <1>2 DEF IInv, EvidenceHolds, IsWhole

LEMMA NextPreserves == IInv /\ [Next]_vars => IInv'
<1> SUFFICES ASSUME IInv, [Next]_vars PROVE IInv'
  OBVIOUS
<1>1. ASSUME UNCHANGED diskVars, phase' # "recording" PROVE IInv'
  BY <1>1 DEF IInv, EvidenceHolds, AboutToRecord, IsWhole, diskVars
<1>2. CASE StartDownload \/ StartOutputRepair \/ StartRepair
  BY <1>1, <1>2 DEF StartDownload, StartOutputRepair, StartRepair
<1>3. CASE Kill
  BY <1>1, <1>3 DEF Kill
<1>4. CASE Cancel
  BY <1>4 DEF Cancel, IInv, EvidenceHolds, AboutToRecord, IsWhole, diskVars, Current
<1>5. CASE CancelledJob \/ SkippedJob \/ MissedJob
  BY <1>1, <1>5 DEF CancelledJob, SkippedJob, MissedJob, Downloading
<1>6. CASE StoreFile
  <2>1. disk' = Put(Current.path, Saved(Current.record, Current.path, known))
    BY <1>6 DEF StoreFile
  <2>2. EvidenceHolds' /\ DOMAIN evidence' = Places
    BY <1>6, <2>1, PutKeepsEvidence DEF StoreFile
  <2>3. AboutToRecord'
    BY <1>6, <2>1 DEF StoreFile, AboutToRecord, Put, Saved, IsWhole, Current, processVars
  <2> QED
    BY <2>2, <2>3 DEF IInv
<1>7. CASE RecordFile
  <2>1. IsWhole(Current.path) /\ disk[Current.path].of = Current.record
    BY <1>7 DEF RecordFile, IInv, AboutToRecord
  <2>2. EvidenceHolds' /\ DOMAIN evidence' = Places
    BY <1>7, <2>1 DEF RecordFile, IInv, EvidenceHolds, IsWhole
  <2>3. AboutToRecord'
    BY <1>7 DEF RecordFile, AboutToRecord
  <2> QED
    BY <2>2, <2>3 DEF IInv
<1>8. CASE JobsEnd \/ NextWave \/ ResolveReference \/ WaveResolved \/ WavesEnd \/ AliasesEnd
  BY <1>1, <1>8 DEF JobsEnd, NextWave, ResolveReference, WaveResolved, WavesEnd, AliasesEnd
<1>9. CASE MakeAlias
  <2>1. PICK copy \in Copies : disk' = Put(copy.to, disk[copy.from])
    BY <1>9 DEF MakeAlias
  <2>2. EvidenceHolds' /\ DOMAIN evidence' = Places
    BY <1>9, <2>1, AliasesAreNew, PutKeepsEvidence DEF MakeAlias, HasFile
  <2>3. phase # "recording" /\ phase' = phase
    BY <1>9, <2>1 DEF MakeAlias, Copies
  <2> QED
    BY <2>2, <2>3 DEF IInv, AboutToRecord
<1>10. CASE KillWhileCopying
  <2>1. PICK copy \in Copies : \E file : disk' = Put(copy.to, file)
    BY <1>10 DEF KillWhileCopying
  <2>2. EvidenceHolds' /\ DOMAIN evidence' = Places
    BY <1>10, <2>1, AliasesAreNew, PutKeepsEvidence DEF KillWhileCopying, HasFile
  <2> QED
    BY <1>10, <2>2 DEF KillWhileCopying, IInv, AboutToRecord
<1>11. CASE RepairFile
  <2>1. PICK p, links : disk' = [disk EXCEPT ![p] = [of |-> @.of, state |-> @.state, links |-> links]]
    BY <1>11 DEF RepairFile
  <2>2. \A q \in DOMAIN disk : /\ q \in DOMAIN disk'
                               /\ disk'[q].of = disk[q].of
                               /\ disk'[q].state = disk[q].state
    BY <2>1
  <2>3. phase' = phase /\ phase # "recording" /\ UNCHANGED evidence
    BY <1>11 DEF RepairFile
  <2> QED
    BY <2>2, <2>3 DEF IInv, EvidenceHolds, AboutToRecord, IsWhole
<1>12. CASE RepairEnds
  BY <1>1, <1>12 DEF RepairEnds
<1>13. CASE UNCHANGED vars
  BY <1>13 DEF vars, processVars, diskVars, IInv, EvidenceHolds, AboutToRecord, IsWhole, Current
<1> QED
  BY <1>2, <1>3, <1>4, <1>5, <1>6, <1>7, <1>8, <1>9, <1>10, <1>11, <1>12, <1>13 DEF Next

(* What the journal says was saved stays there, whole, over any number of   *)
(* downloads, repairs, kills and cancellations (download_one_inner,         *)
(* create_missing_topic_aliases and repair_local_links).                    *)
THEOREM SavedFilesStay == Spec => []EvidenceHolds
<1>1. IInv => EvidenceHolds
  BY DEF IInv
<1> QED
  BY <1>1, InitEstablishes, NextPreserves, PTL DEF Spec
-----------------------------------------------------------------------------
(* ListedPagesArrive: while a download runs without trouble each listed     *)
(* path has a file or a job that is still to come.                          *)
DownloadPhases == {"jobs", "recording", "waves", "resolving", "topics", "directories", "done"}

(* In the order of the passes: no job is left once the pass has ended.      *)
PassInv ==
  /\ phase = "done" => pass # "repair"
  /\ phase \in {"jobs", "recording", "waves", "resolving"} => pass # "repair"
  /\ phase \in {"waves", "topics", "directories", "done"} => jobs = <<>>

HasJob(path) == \E i \in DOMAIN jobs : jobs[i].path = path
ComingInv ==
  phase \in DownloadPhases /\ pass # "repair" /\ gaps = {} =>
    \A p \in PrimaryPaths : HasFile(p) \/ HasJob(p)
StoredInv == phase = "recording" => HasFile(Current.path)

ArrivalInv == PassInv /\ ComingInv /\ StoredInv

LEMMA ArrivalFollows == ArrivalInv => ListedPagesArrive
<1> SUFFICES ASSUME ArrivalInv, phase = "done", gaps = {}, NEW p \in PrimaryPaths
             PROVE  HasFile(p)
  BY DEF ListedPagesArrive
<1>1. pass # "repair" /\ jobs = <<>>
  BY DEF ArrivalInv, PassInv
<1>2. HasFile(p) \/ HasJob(p)
  BY <1>1 DEF ArrivalInv, ComingInv, DownloadPhases
<1>3. ~ HasJob(p)
  BY <1>1 DEF HasJob
<1> QED
  BY <1>2, <1>3

LEMMA InitArrives == Init => ArrivalInv
BY DEF Init, ArrivalInv, PassInv, ComingInv, StoredInv, DownloadPhases

(* A file with something in it keeps it in every step.                      *)
LEMMA FilesStay ==
  ASSUME TInv, [Next]_vars, NEW path, HasFile(path)
  PROVE  HasFile(path)'
<1>1. ASSUME UNCHANGED disk PROVE HasFile(path)'
  BY <1>1 DEF HasFile
<1>2. ASSUME NEW q, NEW file, disk' = Put(q, file), q # path PROVE HasFile(path)'
  BY <1>2 DEF HasFile, Put
<1>3. CASE StartDownload \/ StartOutputRepair \/ StartRepair \/ Cancel \/ Kill
  BY <1>1, <1>3 DEF StartDownload, StartOutputRepair, StartRepair, Cancel, Kill, diskVars
<1>4. CASE CancelledJob \/ SkippedJob \/ MissedJob \/ RecordFile \/ JobsEnd
  BY <1>1, <1>4 DEF CancelledJob, SkippedJob, MissedJob, RecordFile, JobsEnd, diskVars
<1>5. CASE NextWave \/ ResolveReference \/ WaveResolved \/ WavesEnd \/ AliasesEnd \/ RepairEnds
  BY <1>1, <1>5 DEF NextWave, ResolveReference, WaveResolved, WavesEnd, AliasesEnd, RepairEnds,
                    diskVars
<1>6. CASE UNCHANGED vars
  BY <1>1, <1>6 DEF vars, diskVars
<1>7. CASE StoreFile
  BY <1>2, <1>7 DEF StoreFile
<1>8. CASE MakeAlias
  <2>1. PICK copy \in Copies : disk' = Put(copy.to, disk[copy.from])
    BY <1>8 DEF MakeAlias
  <2>2. copy.to # path
    BY AliasesAreNew DEF HasFile
  <2> QED
    BY <1>2, <2>1, <2>2
<1>9. CASE KillWhileCopying
  <2>1. PICK copy \in Copies : \E file : disk' = Put(copy.to, file)
    BY <1>9 DEF KillWhileCopying
  <2>2. copy.to # path
    BY AliasesAreNew DEF HasFile
  <2> QED
    BY <1>2, <2>1, <2>2
<1>10. CASE RepairFile
  BY <1>10, RepairedFiles DEF HasFile
<1> QED
  BY <1>3, <1>4, <1>5, <1>6, <1>7, <1>8, <1>9, <1>10 DEF Next

(* A job that has ended leaves its path with a file unless it leaves a gap. *)
LEMMA JobsLeft ==
  ASSUME TInv, jobs # <<>>, jobs' = Tail(jobs), NEW path, HasJob(path), path # Current.path
  PROVE  HasJob(path)'
<1>1. jobs \in Seq(PossibleJobs) /\ Len(jobs) \in Nat /\ Len(jobs) > 0
  BY DEF TInv, JobsTyped
<1>2. PICK i \in 1 .. Len(jobs) : jobs[i].path = path
  BY <1>1 DEF HasJob
<1>3. i # 1
  BY <1>1, <1>2 DEF Current
<1>4. /\ i - 1 \in 1 .. Len(jobs) - 1 /\ (i - 1) + 1 = i
  BY <1>1, <1>3
<1>5. Len(Tail(jobs)) = Len(jobs) - 1 /\ \A j \in 1 .. Len(jobs) - 1 : Tail(jobs)[j] = jobs[j + 1]
  BY <1>1
<1>6. i - 1 \in DOMAIN Tail(jobs) /\ Tail(jobs)[i - 1] = jobs[i]
  <2>1. DOMAIN Tail(jobs) = 1 .. Len(Tail(jobs))
    BY <1>1
  <2> QED
    BY <1>4, <1>5, <2>1
<1> QED
  BY <1>2, <1>6 DEF HasJob

LEMMA PassesStay == TInv /\ ArrivalInv /\ [Next]_vars => PassInv'
<1> SUFFICES ASSUME TInv, PassInv, [Next]_vars PROVE PassInv'
  BY DEF ArrivalInv
<1> USE DEF PassInv
<1>1. CASE StartDownload
  BY <1>1 DEF StartDownload
<1>2. CASE StartOutputRepair
  BY <1>2 DEF StartOutputRepair
<1>3. CASE StartRepair
  BY <1>3 DEF StartRepair
<1>4. CASE Cancel
  BY <1>4 DEF Cancel
<1>5. CASE Kill \/ KillWhileCopying
  BY <1>5 DEF Kill, KillWhileCopying
<1>6. CASE CancelledJob \/ SkippedJob \/ MissedJob
  BY <1>6 DEF CancelledJob, SkippedJob, MissedJob, Downloading
<1>7. CASE StoreFile
  BY <1>7 DEF StoreFile, Downloading, processVars
<1>8. CASE RecordFile
  BY <1>8 DEF RecordFile
<1>9. CASE JobsEnd
  BY <1>9 DEF JobsEnd
<1>10. CASE NextWave
  BY <1>10 DEF NextWave, TInv, OtherTypes
<1>11. CASE ResolveReference
  BY <1>11 DEF ResolveReference
<1>12. CASE WaveResolved
  BY <1>12 DEF WaveResolved
<1>13. CASE WavesEnd
  BY <1>13 DEF WavesEnd
<1>14. CASE MakeAlias
  BY <1>14 DEF MakeAlias, processVars
<1>15. CASE AliasesEnd
  BY <1>15 DEF AliasesEnd
<1>16. CASE RepairFile
  BY <1>16 DEF RepairFile
<1>17. CASE RepairEnds
  BY <1>17 DEF RepairEnds, processVars
<1>18. CASE UNCHANGED vars
  BY <1>18 DEF vars, processVars
<1> QED
  BY <1>1, <1>2, <1>3, <1>4, <1>5, <1>6, <1>7, <1>8, <1>9, <1>10, <1>11, <1>12, <1>13, <1>14,
     <1>15, <1>16, <1>17, <1>18 DEF Next

LEMMA ComingStays == TInv /\ ArrivalInv /\ [Next]_vars => ComingInv'
<1> SUFFICES ASSUME TInv, ArrivalInv, [Next]_vars,
                    phase' \in DownloadPhases, pass' # "repair", gaps' = {},
                    NEW p \in PrimaryPaths
             PROVE  HasFile(p)' \/ HasJob(p)'
  BY DEF ComingInv
<1>1. ASSUME HasFile(p) PROVE HasFile(p)'
  BY <1>1, FilesStay
<1>2. ASSUME phase \in DownloadPhases, pass # "repair", gaps = {} PROVE HasFile(p) \/ HasJob(p)
  BY <1>2 DEF ArrivalInv, ComingInv
<1>3. ASSUME phase \in DownloadPhases, UNCHANGED <<jobs, pass, gaps>>
      PROVE  HasFile(p)' \/ HasJob(p)'
  BY <1>1, <1>2, <1>3 DEF HasJob
<1> USE DEF DownloadPhases
<1>4. CASE StartDownload
  <2>1. PICK i \in DOMAIN PrimaryJobs : PrimaryJobs[i].path = p
    BY DEF PrimaryPaths
  <2> QED
    BY <1>4, <2>1 DEF StartDownload, HasJob
<1>5. CASE StartOutputRepair \/ StartRepair \/ Kill \/ KillWhileCopying \/ RepairFile \/ RepairEnds
  BY <1>5 DEF StartOutputRepair, StartRepair, Kill, KillWhileCopying, RepairFile, RepairEnds
<1>6. CASE Cancel
  <2>1. phase \in DownloadPhases
    BY <1>6 DEF Cancel
  <2> QED
    BY <1>3, <1>6, <2>1 DEF Cancel
<1>7. CASE CancelledJob \/ MissedJob
  BY <1>7 DEF CancelledJob, MissedJob
<1>8. CASE SkippedJob \/ RecordFile
  <2>1. /\ jobs # <<>> /\ jobs' = Tail(jobs) /\ HasFile(Current.path)
        /\ phase \in DownloadPhases /\ UNCHANGED <<pass, gaps>>
    BY <1>8 DEF SkippedJob, RecordFile, Downloading, ArrivalInv, StoredInv, TInv, JobsTyped
  <2>2. HasFile(p) \/ HasJob(p)
    BY <1>2, <2>1
  <2> QED
    BY <1>1, <2>1, <2>2, JobsLeft
<1>9. CASE StoreFile
  BY <1>3, <1>9 DEF StoreFile, Downloading, processVars
<1>10. CASE JobsEnd
  BY <1>3, <1>10 DEF JobsEnd
<1>11. CASE NextWave
  <2>1. pass # "repair" /\ phase = "waves" /\ UNCHANGED <<jobs, gaps>>
    BY <1>11 DEF NextWave, ArrivalInv, PassInv
  <2> QED
    BY <1>1, <1>2, <2>1 DEF HasJob
<1>12. CASE ResolveReference
  <2>1. phase = "resolving" /\ UNCHANGED <<pass, gaps>>
    BY <1>12 DEF ResolveReference
  <2>2. PICK c : \/ UNCHANGED jobs
                 \/ jobs' = IF PathOf(c) \in seen THEN jobs ELSE Append(jobs, Job(c, PathOf(c)))
    BY <1>12 DEF ResolveReference
  <2>3. CASE UNCHANGED jobs
    BY <1>3, <2>1, <2>3
  <2>4. CASE jobs' = Append(jobs, Job(c, PathOf(c)))
    <3>1. HasJob(p) => HasJob(p)'
      BY <2>4 DEF HasJob, TInv, JobsTyped
    <3> QED
      BY <1>1, <1>2, <2>1, <3>1
  <2> QED
    BY <2>2, <2>3, <2>4
<1>13. CASE WaveResolved \/ WavesEnd
  BY <1>3, <1>13 DEF WaveResolved, WavesEnd
<1>14. CASE MakeAlias
  <2>1. phase \in {"topics", "directories"} /\ UNCHANGED <<jobs, pass, gaps>>
    BY <1>14 DEF MakeAlias, Copies, processVars
  <2> QED
    BY <1>3, <2>1
<1>15. CASE AliasesEnd
  BY <1>3, <1>15 DEF AliasesEnd
<1>16. CASE UNCHANGED vars
  BY <1>3, <1>16 DEF vars, processVars
<1> QED
  BY <1>4, <1>5, <1>6, <1>7, <1>8, <1>9, <1>10, <1>11, <1>12, <1>13, <1>14, <1>15, <1>16 DEF Next

LEMMA StoredStays == TInv /\ ArrivalInv /\ [Next]_vars => StoredInv'
<1> SUFFICES ASSUME TInv, StoredInv, [Next]_vars, phase' = "recording" PROVE HasFile(Current.path)'
  BY DEF ArrivalInv, StoredInv
<1>1. CASE StoreFile
  <2>1. UNCHANGED jobs /\ disk' = Put(Current.path, Saved(Current.record, Current.path, known))
    BY <1>1 DEF StoreFile, processVars
  <2>2. PICK path : path = Current.path
    OBVIOUS
  <2>3. path \in DOMAIN disk' /\ disk'[path] = Saved(Current.record, Current.path, known)
    BY <2>1, <2>2 DEF Put
  <2>4. disk'[path].state = "whole"
    BY <2>3 DEF Saved
  <2> QED
    BY <2>1, <2>2, <2>3, <2>4 DEF HasFile, Current
<1>2. CASE Cancel \/ UNCHANGED vars
  BY <1>2 DEF Cancel, vars, processVars, diskVars, StoredInv, HasFile, Current
<1>3. CASE MakeAlias
  BY <1>3 DEF MakeAlias, Copies
<1>4. CASE StartDownload \/ StartOutputRepair \/ StartRepair \/ Kill \/ CancelledJob \/ SkippedJob
  BY <1>4 DEF StartDownload, StartOutputRepair, StartRepair, Kill, CancelledJob, SkippedJob,
              Downloading
<1>5. CASE MissedJob \/ RecordFile \/ JobsEnd \/ NextWave \/ ResolveReference \/ WaveResolved
  BY <1>5 DEF MissedJob, RecordFile, JobsEnd, NextWave, ResolveReference, WaveResolved, Downloading
<1>6. CASE WavesEnd \/ KillWhileCopying \/ AliasesEnd \/ RepairFile \/ RepairEnds
  BY <1>6 DEF WavesEnd, KillWhileCopying, AliasesEnd, RepairFile, RepairEnds
<1> QED
  BY <1>1, <1>2, <1>3, <1>4, <1>5, <1>6 DEF Next

(* A run that meets no trouble gives every listed path a file, whatever     *)
(* earlier runs, cancelled or killed anywhere, left behind                  *)
(* (download_site and download_one_inner).                                  *)
THEOREM ListedPagesAlwaysArrive == Spec => []ListedPagesArrive
<1>1. Init => TInv /\ ArrivalInv
  BY InitTyped, InitArrives
<1>2. TInv /\ ArrivalInv /\ [Next]_vars => TInv' /\ ArrivalInv'
  BY TypesStay, PassesStay, ComingStays, StoredStays DEF ArrivalInv
<1> QED
  BY <1>1, <1>2, ArrivalFollows, PTL DEF Spec

-----------------------------------------------------------------------------
(* RepairSettles: a repaired link leads to the saved file that it was       *)
(* repaired for, so that it is not repaired again.                          *)
LEMMA SameElements ==
  ASSUME NEW s, NEW t, IsSequence(s), IsSequence(t), Len(s) = Len(t),
         \A i \in 1 .. Len(s) : s[i] = t[i]
  PROVE  s = t
<1>1. PICK N : s \in Seq(N) /\ t \in Seq(N)
  BY CommonElements
<1> QED
  BY <1>1, SeqEqual

LEMMA ReadHtml ==
  ASSUME NEW name, IsName(name)
  PROVE  DecodedName(AsHtml(name)) = AsHtml(DecodedName(name))
<1> DEFINE parts == name.parts
           read == [i \in DOMAIN parts |-> Decoded(parts[i])]
           html == Append(parts, "html")
           both == [i \in DOMAIN html |-> Decoded(html[i])]
<1>1. /\ IsSequence(parts) /\ Len(parts) \in Nat /\ DOMAIN parts = 1 .. Len(parts)
  BY SequenceProperties DEF IsName
<1>2. /\ IsSequence(html) /\ Len(html) = Len(parts) + 1 /\ DOMAIN html = 1 .. Len(parts) + 1
      /\ html[Len(parts) + 1] = "html"
      /\ \A i \in 1 .. Len(parts) : html[i] = parts[i]
  BY <1>1, AppendSequence, SequenceProperties
<1> HIDE DEF parts, html
<1>3. IsSequence(read) /\ Len(read) = Len(parts)
  <2>1. read = [i \in 1 .. Len(parts) |-> read[i]]
    BY <1>1
  <2> QED
    BY <1>1, <2>1, FunctionIsSequence
<1>4. IsSequence(both) /\ Len(both) = Len(parts) + 1
  <2>1. both = [i \in 1 .. Len(parts) + 1 |-> both[i]] /\ Len(parts) + 1 \in Nat
    BY <1>1, <1>2
  <2> QED
    BY <2>1, FunctionIsSequence
<1>5. both = Append(read, "html")
  <2>1. PICK longer : longer = Append(read, "html")
    OBVIOUS
  <2>2. /\ IsSequence(longer) /\ Len(longer) = Len(parts) + 1
        /\ longer[Len(parts) + 1] = "html"
        /\ \A i \in 1 .. Len(parts) : longer[i] = read[i]
    BY <1>3, <2>1, AppendSequence
  <2>3. ASSUME NEW i \in 1 .. Len(parts) + 1 PROVE both[i] = longer[i]
    <3>1. CASE i = Len(parts) + 1
      BY <1>2, <2>2, <3>1, DecodingAssumption
    <3>2. CASE i \in 1 .. Len(parts)
      BY <1>1, <1>2, <2>2, <3>2
    <3> QED
      BY <1>1, <3>1, <3>2
  <2> QED
    BY <1>4, <2>1, <2>2, <2>3, SameElements
<1>6. name = [parts |-> parts, hash |-> name.hash]
  BY DEF IsName, parts
<1>7. AsHtml(name) = [parts |-> html, hash |-> name.hash]
  BY <1>6 DEF AsHtml, html
<1>8. DecodedName(AsHtml(name)) = [parts |-> both, hash |-> name.hash]
  BY <1>7 DEF DecodedName
<1>9. DecodedName(name) = [parts |-> read, hash |-> name.hash]
  BY <1>6 DEF DecodedName
<1>10. AsHtml(DecodedName(name)) = [parts |-> Append(read, "html"), hash |-> name.hash]
  <2> HIDE DEF read
  <2>1. PICK d : d = DecodedName(name)
    OBVIOUS
  <2>2. d = [parts |-> read, hash |-> name.hash] /\ d.parts = read
    BY <1>9, <2>1
  <2>3. AsHtml(d) = [d EXCEPT !.parts = Append(d.parts, "html")]
    BY <2>2 DEF AsHtml
  <2>4. AsHtml(d) = [d EXCEPT !.parts = Append(read, "html")]
    BY <2>2, <2>3
  <2> QED
    BY <2>1, <2>2, <2>4
<1> QED
  BY <1>5, <1>8, <1>10

(* The HTML counterpart of a path, read below a directory.                  *)
LEMMA HtmlBelow ==
  ASSUME NEW start, AreNames(start), NEW down, IsPath(down)
  PROVE  start \o Read(ToHtml(down)) = ToHtml(start \o Read(down))
<1> DEFINE n == Len(start)
           m == Len(down)
           read == Read(down)
           whole == start \o read
           html == ToHtml(down)
           left == start \o Read(html)
           right == ToHtml(whole)
<1>1. /\ n \in Nat /\ DOMAIN start = 1 .. n /\ IsSequence(start)
      /\ m \in Nat /\ m > 0 /\ DOMAIN down = 1 .. m /\ IsSequence(down) /\ AreNames(down)
  BY SequenceProperties DEF AreNames, IsPath
<1>2. /\ AreNames(FrontOf(down)) /\ IsSequence(FrontOf(down)) /\ Len(FrontOf(down)) = m - 1
      /\ IsName(LastOf(down))
      /\ \A i \in 1 .. m - 1 : FrontOf(down)[i] = down[i]
  <2>1. 1 \in Nat /\ 1 > 0 /\ m - 1 \in Int /\ m - 1 <= Len(down)
    BY <1>1
  <2>2. PICK front : front = SubSeq(down, 1, m - 1)
    OBVIOUS
  <2>3. /\ Len(front) = (IF 1 <= m - 1 THEN (m - 1) - 1 + 1 ELSE 0)
        /\ \A i \in 1 .. Len(front) : front[i] = down[1 + i - 1]
    BY <1>1, <2>1, <2>2, PartOfSequence
  <2>a. Len(front) = m - 1
    <3>1. m \in Nat /\ m > 0
      BY <1>1
    <3> HIDE DEF m
    <3>2. (IF 1 <= m - 1 THEN (m - 1) - 1 + 1 ELSE 0) = m - 1
      BY <3>1
    <3> QED
      BY <2>3, <3>2
  <2>b. ASSUME NEW i \in 1 .. m - 1 PROVE front[i] = down[i]
    <3>1. i \in 1 .. Len(front) /\ 1 + i - 1 = i
      BY <1>1, <2>a
    <3> QED
      BY <2>3, <3>1
  <2>4. Len(front) = m - 1 /\ \A i \in 1 .. m - 1 : front[i] = down[i]
    BY <2>a, <2>b
  <2>5. front = FrontOf(down)
    BY <2>2 DEF FrontOf
  <2> QED
    BY <2>4, <2>5, DirectoryShape DEF AreNames
<1>3. /\ AreNames(read) /\ Len(read) = m /\ read # <<>> /\ IsSequence(read)
      /\ \A i \in 1 .. m : read[i] = DecodedName(down[i])
  <2>1. AreNames(read) /\ Len(read) = m /\ \A i \in 1 .. m : read[i] = DecodedName(down[i])
    BY <1>1, ReadShape
  <2>2. Len(<<>>) = 0
    OBVIOUS
  <2> QED
    BY <1>1, <2>1, <2>2 DEF AreNames
<1>4. /\ IsPath(html) /\ Len(html) = m /\ html[m] = AsHtml(LastOf(down))
      /\ \A i \in 1 .. m - 1 : html[i] = down[i]
  <2>1. PICK last : last = AsHtml(LastOf(down))
    OBVIOUS
  <2>2. IsName(last)
    <3>1. PICK name : name = LastOf(down)
      OBVIOUS
    <3>2. IsSequence(Append(name.parts, "html"))
      BY <1>2, <3>1, AppendSequence DEF IsName
    <3>3. last = [parts |-> Append(name.parts, "html"), hash |-> name.hash]
      BY <1>2, <2>1, <3>1 DEF AsHtml, IsName
    <3> QED
      BY <3>2, <3>3 DEF IsName
  <2>3. html = Append(FrontOf(down), last)
    BY <2>1 DEF ToHtml
  <2>4. IsPath(html)
    BY <1>2, <2>2, <2>3, AppendName
  <2>5. /\ Len(html) = (m - 1) + 1 /\ html[(m - 1) + 1] = last
        /\ \A i \in 1 .. m - 1 : html[i] = FrontOf(down)[i]
    BY <1>2, <2>3, AppendSequence
  <2> QED
    BY <1>1, <1>2, <2>1, <2>4, <2>5
<1> HIDE DEF html
<1>5. PICK readHtml : readHtml = Read(html)
  OBVIOUS
<1>6. /\ IsSequence(readHtml) /\ Len(readHtml) = m
      /\ \A i \in 1 .. m : readHtml[i] = DecodedName(html[i])
  BY <1>4, <1>5, ReadShape DEF IsPath, AreNames
<1>7. /\ IsSequence(left) /\ Len(left) = n + m
      /\ \A i \in 1 .. n : left[i] = start[i]
      /\ \A i \in 1 .. m : left[n + i] = readHtml[i]
  <2>1. left = start \o readHtml
    BY <1>5
  <2> HIDE DEF left
  <2>2. /\ IsSequence(start \o readHtml) /\ Len(start \o readHtml) = Len(start) + Len(readHtml)
        /\ \A i \in 1 .. Len(start) : (start \o readHtml)[i] = start[i]
        /\ \A i \in 1 .. Len(readHtml) : (start \o readHtml)[Len(start) + i] = readHtml[i]
    BY <1>1, <1>6, ConcatSequences
  <2> QED
    BY <1>6, <2>1, <2>2
<1> HIDE DEF read, left
<1>8. /\ IsPath(whole) /\ Len(whole) = n + m /\ IsSequence(whole)
      /\ \A i \in 1 .. n : whole[i] = start[i]
      /\ \A i \in 1 .. m : whole[n + i] = read[i]
  <2>1. AreNames(whole) /\ whole # <<>>
    BY <1>3, ConcatNames
  <2>2. /\ Len(whole) = n + m /\ IsSequence(whole)
        /\ \A i \in 1 .. n : whole[i] = start[i]
        /\ \A i \in 1 .. m : whole[n + i] = read[i]
    BY <1>1, <1>3, ConcatSequences
  <2> QED
    BY <2>1, <2>2 DEF IsPath
<1> HIDE DEF whole
<1>9. PICK front : front = FrontOf(whole)
  OBVIOUS
<1>10. IsSequence(front) /\ Len(front) = n + m - 1 /\ \A i \in 1 .. n + m - 1 : front[i] = whole[i]
  <2>1. 1 \in Nat /\ 1 > 0 /\ n + m - 1 \in Int /\ n + m - 1 <= Len(whole) /\ Len(whole) - 1 = n + m - 1
    BY <1>1, <1>8
  <2>2. front = SubSeq(whole, 1, n + m - 1)
    BY <1>9, <2>1 DEF FrontOf
  <2>3. /\ IsSequence(front)
        /\ Len(front) = (IF 1 <= n + m - 1 THEN (n + m - 1) - 1 + 1 ELSE 0)
        /\ \A i \in 1 .. Len(front) : front[i] = whole[1 + i - 1]
    BY <1>8, <2>1, <2>2, PartOfSequence
  <2> QED
    BY <1>1, <2>3
<1>11. /\ IsSequence(right) /\ Len(right) = n + m
       /\ right[n + m] = AsHtml(whole[n + m])
       /\ \A i \in 1 .. n + m - 1 : right[i] = whole[i]
  <2>1. PICK last : last = AsHtml(whole[n + m])
    OBVIOUS
  <2>2. right = Append(front, last)
    BY <1>8, <1>9, <2>1 DEF ToHtml, LastOf
  <2>3. /\ IsSequence(right) /\ Len(right) = (n + m - 1) + 1 /\ right[(n + m - 1) + 1] = last
        /\ \A i \in 1 .. n + m - 1 : right[i] = front[i]
    BY <1>10, <2>2, AppendSequence
  <2> QED
    BY <1>1, <1>10, <2>1, <2>3
<1> HIDE DEF right
<1>12. ASSUME NEW i \in 1 .. n + m PROVE left[i] = right[i]
  <2>1. CASE i \in 1 .. n
    <3>1. i \in 1 .. n + m - 1
      BY <1>1, <2>1
    <3> QED
      BY <1>7, <1>8, <1>11, <2>1, <3>1
  <2>2. CASE i \notin 1 .. n /\ i # n + m
    <3>1. PICK j \in 1 .. m - 1 : n + j = i
      <4>1. i - n \in 1 .. m - 1 /\ n + (i - n) = i
        BY <1>1, <2>2
      <4> QED
        BY <4>1
    <3>2. i \in 1 .. n + m - 1 /\ j \in 1 .. m
      BY <1>1, <3>1
    <3>3. left[i] = DecodedName(html[j]) /\ html[j] = down[j]
      BY <1>4, <1>6, <1>7, <3>1, <3>2
    <3>4. right[i] = DecodedName(down[j])
      BY <1>3, <1>8, <1>11, <3>1, <3>2
    <3> QED
      BY <3>3, <3>4
  <2>3. CASE i = n + m
    <3>1. m \in 1 .. m
      BY <1>1
    <3>2. left[i] = DecodedName(AsHtml(LastOf(down)))
      BY <1>4, <1>6, <1>7, <2>3, <3>1
    <3>3. right[i] = AsHtml(DecodedName(LastOf(down)))
      BY <1>3, <1>8, <1>11, <2>3, <3>1 DEF LastOf
    <3> QED
      BY <1>2, <3>2, <3>3, ReadHtml
  <2> QED
    BY <2>1, <2>2, <2>3
<1>13. left = right
  BY <1>7, <1>11, <1>12, SameElements
<1> QED
  BY <1>13 DEF left, right, whole, read, html

(* What is repaired leads to the saved file (repair_local_navigation_html).*)
LEMMA RepairedLinkArrives ==
  ASSUME NEW files, NEW saved, NEW page, IsPath(page), NEW ref, IsReference(ref),
         NEW fixed, Repairable(files, saved, page, ref),
         fixed.kind = "local", fixed.rooted = ref.rooted, fixed.up = ref.up,
         fixed.down = ToHtml(ref.down)
  PROVE  ResolveLocal(page, fixed) \in saved
<1>1. /\ ResolveLocal(page, ref) # None /\ ref.down # <<>>
      /\ ToHtml(ResolveLocal(page, ref)) \in saved
  BY DEF Repairable
<1>2. /\ ref.kind = "local" /\ AreNames(ref.down) /\ AreNames(StartDir(page, ref))
      /\ ResolveLocal(page, ref) = StartDir(page, ref) \o Read(ref.down)
  BY <1>1, ResolveShape
<1>3. ~ (~ ref.rooted /\ ref.up > Len(FrontOf(page)))
  BY <1>1 DEF ResolveLocal
<1>4. ResolveLocal(page, fixed) = StartDir(page, ref) \o Read(ToHtml(ref.down))
  BY <1>3 DEF ResolveLocal, StartDir, Read
<1>5. StartDir(page, ref) \o Read(ToHtml(ref.down)) = ToHtml(StartDir(page, ref) \o Read(ref.down))
  BY <1>1, <1>2, HtmlBelow DEF IsPath
<1> QED
  BY <1>1, <1>2, <1>4, <1>5

(* The files of a directory are not changed by the repair, so that what was *)
(* settled stays settled; those on the shelf are still to come.             *)
RepairInv ==
  /\ phase \in {"repairing", "repaired"} =>
       shelf \subseteq RepairFiles /\ \A p \in RepairFiles \ shelf : Repairs(p) = {}
  /\ phase = "repaired" => shelf = {}

LEMMA RepairFollows == RepairInv => RepairSettles
BY DEF RepairInv, RepairSettles

LEMMA FileRepaired ==
  ASSUME TInv, RepairInv, RepairFile
  PROVE  RepairInv'
<1>1. PICK p : p = First(shelf)
  OBVIOUS
<1>2. /\ FilesTyped' /\ DOMAIN disk' = DOMAIN disk
      /\ \A q \in DOMAIN disk : disk'[q].state = disk[q].state /\ disk'[q].of = disk[q].of
      /\ p \in shelf /\ shelf' = shelf \ {p}
      /\ \A q \in DOMAIN disk \ {p} : disk'[q] = disk[q]
      /\ disk'[p].links = {IF link \in Repairs(p) THEN RepairedLink(link) ELSE link :
                             link \in disk[p].links}
  BY <1>1, RepairedFiles
<1>3. phase = "repairing" /\ phase' = "repairing" /\ shelf \subseteq RepairFiles
  BY DEF RepairFile, RepairInv
<1>4. RepairFiles' = RepairFiles /\ p \in DOMAIN disk
  BY <1>2, <1>3 DEF RepairFiles
<1>5. PICK saved : saved = {q \in DOMAIN disk : HasFile(q)}
  OBVIOUS
<1>6. saved = {q \in DOMAIN disk : HasFile(q)}'
  BY <1>2, <1>5 DEF HasFile
<1>7. ASSUME NEW q \in RepairFiles \ shelf PROVE Repairs(q)' = {}
  <2>1. q \in DOMAIN disk \ {p} /\ Repairs(q) = {}
    BY <1>2, <1>3, <1>7 DEF RepairFiles, RepairInv
  <2>2. Repairs(q) = {link \in disk[q].links : Repairable(DOMAIN disk, saved, q, link.ref)}
    BY <1>5 DEF Repairs
  <2>3. Repairs(q)' = {link \in disk'[q].links : Repairable(DOMAIN disk', saved, q, link.ref)}
    BY <1>6 DEF Repairs
  <2> QED
    BY <1>2, <2>1, <2>2, <2>3
<1>8. ASSUME NEW link \in disk'[p].links PROVE ~ Repairable(DOMAIN disk', saved, p, link.ref)
  <2>1. PICK old \in disk[p].links :
          link = IF old \in Repairs(p) THEN RepairedLink(old) ELSE old
    BY <1>2, <1>8
  <2>2. CASE old \in Repairs(p)
    <3>1. IsLink(old) /\ old.ref.kind = "local" /\ old.ref.down # <<>>
      BY <1>4, <2>2, RepairsAreLocal DEF TInv
    <3>2. Repairable(DOMAIN disk, saved, p, old.ref)
      BY <1>5, <2>2 DEF Repairs
    <3>3. /\ link.ref = RepairedRef(old.ref)
          /\ IsReference(link.ref) /\ IsReference(old.ref)
          /\ link.ref.kind = "local" /\ link.ref.rooted = old.ref.rooted /\ link.ref.up = old.ref.up
          /\ link.ref.down = ToHtml(old.ref.down)
      BY <2>1, <2>2, <3>1, RepairedLinkShape DEF IsLink
    <3>4. IsPath(p)
      BY <1>4 DEF TInv, FilesTyped
    <3>5. ResolveLocal(p, link.ref) \in saved
      BY <3>2, <3>3, <3>4, RepairedLinkArrives
    <3>6. TargetExists(DOMAIN disk', ResolveLocal(p, link.ref))
      BY <1>2, <1>5, <3>5 DEF TargetExists
    <3> QED
      BY <3>6 DEF Repairable
  <2>3. CASE old \notin Repairs(p)
    BY <1>2, <1>5, <2>1, <2>3 DEF Repairs
  <2> QED
    BY <2>2, <2>3
<1>9. Repairs(p)' = {}
  <2>1. Repairs(p)' = {link \in disk'[p].links : Repairable(DOMAIN disk', saved, p, link.ref)}
    BY <1>6 DEF Repairs
  <2> QED
    BY <1>8, <2>1
<1>10. ASSUME NEW q \in RepairFiles \ shelf' PROVE Repairs(q)' = {}
  <2>1. q = p \/ q \in RepairFiles \ shelf
    BY <1>2, <1>10
  <2> QED
    BY <1>7, <1>9, <2>1
<1> QED
  BY <1>2, <1>3, <1>4, <1>10 DEF RepairInv

LEMMA RepairStays == TInv /\ RepairInv /\ [Next]_vars => RepairInv'
<1> SUFFICES ASSUME TInv, RepairInv, [Next]_vars PROVE RepairInv'
  OBVIOUS
<1>1. ASSUME phase' \notin {"repairing", "repaired"} PROVE RepairInv'
  BY <1>1 DEF RepairInv
<1>2. CASE RepairFile
  BY <1>2, FileRepaired
<1>3. CASE StartRepair
  BY <1>3 DEF StartRepair, RepairInv, RepairFiles, diskVars
<1>4. CASE RepairEnds
  BY <1>4 DEF RepairEnds, RepairInv, RepairFiles, Repairs, HasFile, diskVars, processVars
<1>5. CASE UNCHANGED vars
  BY <1>5 DEF vars, RepairInv, RepairFiles, Repairs, HasFile, diskVars, processVars
<1>6. CASE Cancel \/ Kill \/ KillWhileCopying
  BY <1>1, <1>6 DEF Cancel, Kill, KillWhileCopying, Ended, TInv, OtherTypes
<1>7. CASE MakeAlias
  BY <1>1, <1>7 DEF MakeAlias, Copies
<1>8. CASE StartDownload \/ StartOutputRepair \/ CancelledJob \/ SkippedJob \/ MissedJob
  BY <1>1, <1>8 DEF StartDownload, StartOutputRepair, CancelledJob, SkippedJob, MissedJob,
                    Downloading
<1>9. CASE StoreFile \/ RecordFile \/ JobsEnd \/ NextWave
  BY <1>1, <1>9 DEF StoreFile, RecordFile, JobsEnd, NextWave
<1>10. CASE ResolveReference \/ WaveResolved \/ WavesEnd \/ AliasesEnd
  BY <1>1, <1>10 DEF ResolveReference, WaveResolved, WavesEnd, AliasesEnd
<1> QED
  BY <1>2, <1>3, <1>4, <1>5, <1>6, <1>7, <1>8, <1>9, <1>10 DEF Next

(* Once the links of a directory were repaired there is nothing left to     *)
(* repair, whatever was downloaded before (repair_local_links).             *)
THEOREM RepairLeavesNothing == Spec => []RepairSettles
<1>1. Init => TInv /\ RepairInv
  BY InitTyped DEF Init, RepairInv
<1>2. TInv /\ RepairInv /\ [Next]_vars => TInv' /\ RepairInv'
  BY TypesStay, RepairStays
<1> QED
  BY <1>1, <1>2, RepairFollows, PTL DEF Spec

-----------------------------------------------------------------------------
(* LinksArrive. The references in hand are URLs.                            *)
LEMMA PrimaryHostsShape == \A host \in PrimaryHosts : IsSequence(host)
<1>1. RootHost \in Seq(STRING) /\ RootHost # <<>>
  BY RootHostAssumption
<1>2. IsSequence(RootHost)
  BY <1>1, MemberIsSequence
<1>3. IsSequence(Tail(RootHost))
  <2>1. Tail(RootHost) \in Seq(STRING)
    BY <1>1
  <2> QED
    BY <2>1, MemberIsSequence
<1>4. IsSequence(<<"www">> \o RootHost)
  <2>1. IsSequence(<<"www">>)
    BY DEF IsSequence
  <2> QED
    BY <1>2, <2>1, ConcatSequences
<1> QED
  BY <1>2, <1>3, <1>4 DEF PrimaryHosts

LEMMA CandidatesShape ==
  ASSUME NEW path, IsPath(path), NEW query, NEW url \in Candidates(path, query)
  PROVE  IsUrl(url)
<1> DEFINE elsewhere == Len(path) >= 3 /\ path[1] = HostsDir
           hosts == IF elsewhere THEN {path[2].parts} ELSE PrimaryHosts
           names == IF elsewhere THEN SubSeq(path, 3, Len(path)) ELSE path
           segs == [i \in DOMAIN names |->
                      [j \in DOMAIN names[i].parts |-> Encoded(names[i].parts[j])]]
<1>1. PICK s \in Schemes, h \in hosts :
        url = [scheme |-> s, host |-> h, port |-> None, segs |-> segs, slash |-> FALSE,
               query |-> query]
  BY DEF Candidates
<1>2. AreNames(path) /\ Len(path) \in Nat /\ DOMAIN path = 1 .. Len(path)
  BY SequenceProperties DEF IsPath, AreNames
<1>3. IsSequence(h)
  <2>1. CASE elsewhere
    BY <1>1, <1>2, <2>1 DEF AreNames, IsName
  <2>2. CASE ~ elsewhere
    BY <1>1, <2>2, PrimaryHostsShape
  <2> QED
    BY <2>1, <2>2
<1>4. AreNames(names)
  <2>1. CASE elsewhere
    <3>1. 3 \in Nat /\ 3 > 0 /\ Len(path) \in Int /\ Len(path) <= Len(path)
      BY <1>2
    <3>2. AreNames(SubSeq(path, 3, Len(path)))
      BY <1>2, <3>1, PartOfNames
    <3> QED
      BY <2>1, <3>2
  <2>2. CASE ~ elsewhere
    BY <1>2, <2>2
  <2> QED
    BY <2>1, <2>2
<1> HIDE DEF names
<1>5. /\ Len(names) \in Nat /\ DOMAIN names = 1 .. Len(names)
      /\ \A i \in 1 .. Len(names) : IsSequence(names[i].parts)
  BY <1>4, SequenceProperties DEF AreNames, IsName
<1>6. ASSUME NEW parts, IsSequence(parts)
      PROVE  IsSequence([j \in DOMAIN parts |-> Encoded(parts[j])])
  <2> DEFINE f == [j \in DOMAIN parts |-> Encoded(parts[j])]
  <2>1. Len(parts) \in Nat /\ DOMAIN parts = 1 .. Len(parts)
    BY <1>6, SequenceProperties
  <2>2. f = [j \in 1 .. Len(parts) |-> f[j]]
    BY <2>1
  <2> HIDE DEF f
  <2>3. IsSequence(f)
    BY <2>1, <2>2, FunctionIsSequence
  <2> QED
    BY <2>3 DEF f
<1>7. \A i \in 1 .. Len(names) : IsSequence(segs[i])
  BY <1>5, <1>6
<1>8. IsSequence(segs) /\ DOMAIN segs = 1 .. Len(names)
  <2>1. segs = [i \in 1 .. Len(names) |-> segs[i]] /\ DOMAIN segs = 1 .. Len(names)
    BY <1>5
  <2> HIDE DEF segs
  <2> QED
    BY <1>5, <2>1, FunctionIsSequence
<1> HIDE DEF segs
<1>9. /\ url = [scheme |-> url.scheme, host |-> url.host, port |-> url.port,
                segs |-> url.segs, slash |-> url.slash, query |-> url.query]
      /\ url.host = h /\ url.segs = segs
  BY <1>1
<1> QED
  BY <1>3, <1>7, <1>8, <1>9 DEF IsUrl

LEMMA ListedOriginalShape ==
  ASSUME NEW path, ListedOriginal(path) # None
  PROVE  IsUrl(ListedOriginal(path))
<1> DEFINE at == {i \in DOMAIN Records : PathOf(Records[i]) = path}
           first == CHOOSE i \in at : \A j \in at : i <= j
<1>1. at # {} /\ ListedOriginal(path) = Records[first].url
  BY DEF ListedOriginal
<1>2. at \in SUBSET Nat
  BY RecordsAreArchived
<1> HIDE DEF at
<1>3. \E i \in at : \A j \in at : i <= j
  BY <1>1, <1>2, LeastNumber
<1>4. first \in at
  BY <1>3
<1> HIDE DEF first
<1>5. Records[first] \in Archive
  BY <1>4, RecordsAreArchived DEF at
<1> QED
  BY <1>1, <1>5, SiteAssumption

(* A file that is kept tells URLs.                                          *)
LEMMA ResumedShape ==
  ASSUME TInv, NEW path \in Places, path \in DOMAIN disk, NEW url \in ResumedReferences(path)
  PROVE  IsUrl(url)
<1> DEFINE local == {ref \in {link.ref : link \in disk[path].links} :
                       ref.kind = "local" /\ ResolveLocal(path, ref) \notin {None, <<>>}}
           absolute == {link.ref.url :
                          link \in {l \in disk[path].links : l.ref.kind = "absolute"}}
           originals(ref) ==
             LET target == ResolveLocal(path, ref)
             IN  IF ListedOriginal(target) # None THEN {ListedOriginal(target)}
                 ELSE IF target \in Places /\ evidence[target] # None THEN {evidence[target].url}
                 ELSE GuessedOriginals(target, ref.query)
           journalled == IF evidence[path] # None THEN References(evidence[path]) ELSE {}
<1>1. url \in journalled \/ url \in absolute \/ \E ref \in local : url \in originals(ref)
  <2> HIDE DEF local, absolute, journalled, originals
  <2>1. ResumedReferences(path) =
          WorthFollowing(journalled \cup absolute \cup UNION {originals(ref) : ref \in local})
    BY DEF ResumedReferences, local, absolute, journalled, originals
  <2> QED
    BY <2>1 DEF WorthFollowing
<1>2. IsPath(path) /\ \A link \in disk[path].links : IsReference(link.ref)
  BY DEF TInv, FilesTyped, IsFile, IsLink
<1>3. CASE url \in absolute
  BY <1>2, <1>3 DEF IsReference
<1>4. CASE url \in journalled
  <2>1. evidence[path] \in Archive
    BY <1>4 DEF TInv, OtherTypes
  <2>2. PICK link \in evidence[path].links : url = Join(evidence[path].url, link.ref)
    BY <1>4 DEF References, RelatedReferences, WorthFollowing
  <2> QED
    BY <2>1, <2>2, SiteAssumption, JoinShape
<1>5. ASSUME NEW ref \in local, url \in originals(ref) PROVE IsUrl(url)
  <2>1. PICK target : target = ResolveLocal(path, ref)
    OBVIOUS
  <2>2. IsReference(ref) /\ target # None /\ target # <<>>
    BY <1>2, <2>1
  <2>3. IsPath(target)
    BY <1>2, <2>1, <2>2, ResolveShape DEF IsPath
  <2>4. CASE ListedOriginal(target) # None
    BY <1>5, <2>1, <2>4, ListedOriginalShape
  <2>5. CASE ListedOriginal(target) = None /\ target \in Places /\ evidence[target] # None
    <3>1. url = evidence[target].url /\ evidence[target] \in Archive
      BY <1>5, <2>1, <2>5 DEF TInv, OtherTypes
    <3> QED
      BY <3>1, SiteAssumption
  <2>6. CASE ListedOriginal(target) = None /\ ~ (target \in Places /\ evidence[target] # None)
    <3>1. url \in GuessedOriginals(target, ref.query)
      BY <1>5, <2>1, <2>6
    <3>2. PICK guess : /\ url \in Candidates(guess, ref.query)
                       /\ \/ guess = target
                          \/ guess = Append(FrontOf(target), Name(FrontOf(LastOf(target).parts)))
      BY <3>1 DEF GuessedOriginals, UnhashedOriginals
    <3>3. IsPath(guess)
      <4>1. AreNames(FrontOf(target)) /\ IsSequence(LastOf(target).parts)
        BY <2>3, DirectoryShape DEF IsName
      <4>2. PICK parts : parts = LastOf(target).parts
        OBVIOUS
      <4>3. Len(parts) - 1 \in Int /\ Len(parts) - 1 <= Len(parts) /\ 1 \in Nat /\ 1 > 0
        BY <4>1, <4>2, SequenceProperties
      <4>4. IsSequence(FrontOf(parts))
        BY <4>1, <4>2, <4>3, PartOfSequence DEF FrontOf
      <4>5. IsPath(Append(FrontOf(target), Name(FrontOf(parts))))
        BY <4>1, <4>4, NameShape, AppendName
      <4> QED
        BY <2>3, <3>2, <4>2, <4>5
    <3> QED
      BY <3>2, <3>3, CandidatesShape
  <2> QED
    BY <2>4, <2>5, <2>6
<1> QED
  BY <1>1, <1>3, <1>4, <1>5

RefsTyped == (\A u \in refs : IsUrl(u)) /\ (\A u \in pending : IsUrl(u))

LEMMA ReferencesShape ==
  ASSUME NEW c \in Archive, NEW url \in References(c)
  PROVE  IsUrl(url)
<1>1. PICK link \in c.links : url = Join(c.url, link.ref)
  BY DEF References, RelatedReferences, WorthFollowing
<1> QED
  BY <1>1, SiteAssumption, JoinShape

LEMMA RefsStayTyped == TInv /\ RefsTyped /\ [Next]_vars => RefsTyped'
<1> SUFFICES ASSUME TInv, RefsTyped, [Next]_vars PROVE RefsTyped'
  OBVIOUS
<1>1. ASSUME refs' \subseteq refs, pending' \subseteq pending PROVE RefsTyped'
  BY <1>1 DEF RefsTyped
<1>2. CASE StartDownload \/ StartOutputRepair \/ StartRepair \/ Kill \/ KillWhileCopying
  BY <1>1, <1>2 DEF StartDownload, StartOutputRepair, StartRepair, Kill, KillWhileCopying, Forget
<1>3. CASE Cancel \/ CancelledJob \/ MissedJob \/ StoreFile \/ JobsEnd
  BY <1>1, <1>3 DEF Cancel, CancelledJob, MissedJob, StoreFile, JobsEnd, processVars
<1>4. CASE SkippedJob
  <2>1. /\ refs' = refs \cup ResumedReferences(Current.path) /\ UNCHANGED pending
        /\ jobs # <<>> /\ Current.path \in DOMAIN disk
    BY <1>4 DEF SkippedJob, Downloading, HasFile
  <2>2. \A u \in ResumedReferences(Current.path) : IsUrl(u)
    BY <2>1, CurrentTyped, ResumedShape
  <2> QED
    BY <2>1, <2>2 DEF RefsTyped
<1>5. CASE RecordFile
  <2>1. /\ refs' = refs \cup References(Current.record) /\ UNCHANGED pending /\ jobs # <<>>
    BY <1>5 DEF RecordFile, TInv, JobsTyped
  <2>2. \A u \in References(Current.record) : IsUrl(u)
    BY <2>1, CurrentTyped, ReferencesShape
  <2> QED
    BY <2>1, <2>2 DEF RefsTyped
<1>6. CASE NextWave
  <2>1. /\ refs' = {}
        /\ pending' = {CHOOSE u \in Unchecked : Normalized(u) = key :
                         key \in {Normalized(u) : u \in Unchecked}}
    BY <1>6 DEF NextWave
  <2>2. pending' \subseteq refs
    <3>1. ASSUME NEW w \in pending' PROVE w \in Unchecked
      BY <2>1
    <3> QED
      BY <3>1 DEF Unchecked
  <2> QED
    BY <2>1, <2>2 DEF RefsTyped
<1>7. CASE ResolveReference \/ WaveResolved \/ WavesEnd \/ MakeAlias \/ AliasesEnd
  BY <1>1, <1>7 DEF ResolveReference, WaveResolved, WavesEnd, MakeAlias, AliasesEnd, processVars
<1>8. CASE RepairFile \/ RepairEnds \/ UNCHANGED vars
  BY <1>1, <1>8 DEF RepairFile, RepairEnds, vars, processVars
<1> QED
  BY <1>2, <1>3, <1>4, <1>5, <1>6, <1>7, <1>8 DEF Next

(* URLs that the index does not tell apart stay so when they are normalised,*)
(* and what was normalised is not normalised again.                         *)
LEMMA NormalizedShape ==
  ASSUME NEW x, IsUrl(x)
  PROVE  /\ Normalized(x) = [scheme |-> x.scheme, host |-> x.host, port |-> x.port,
                             segs |-> x.segs, slash |-> x.slash,
                             query |-> CanonicalQuery(x.query)]
         /\ IsUrl(Normalized(x))
<1>1. Normalized(x) = [scheme |-> x.scheme, host |-> x.host, port |-> x.port,
                       segs |-> x.segs, slash |-> x.slash, query |-> CanonicalQuery(x.query)]
  <2>1. PICK scheme, host, port, segs, slash, query :
          /\ x = [scheme |-> scheme, host |-> host, port |-> port,
                  segs |-> segs, slash |-> slash, query |-> query]
          /\ scheme = x.scheme /\ host = x.host /\ port = x.port /\ segs = x.segs
          /\ slash = x.slash /\ query = x.query
    BY DEF IsUrl
  <2>2. PICK canonical : canonical = CanonicalQuery(x.query)
    OBVIOUS
  <2>3. Normalized(x) = [x EXCEPT !.query = canonical]
    BY <2>1, <2>2 DEF Normalized
  <2> QED
    BY <2>1, <2>2, <2>3
<1> QED
  BY <1>1 DEF IsUrl

LEMMA CanonicalTwice ==
  ASSUME NEW query
  PROVE  CanonicalQuery(CanonicalQuery(query)) = CanonicalQuery(query)
<1>1. CASE CanonicalQuery(query) = None
  BY <1>1 DEF CanonicalQuery
<1>2. CASE CanonicalQuery(query) # None
  <2>1. CanonicalQuery(query) = {pair \in query : pair.key \notin VolatileKeys}
    BY <1>2 DEF CanonicalQuery
  <2>2. ~ \A pair \in query : pair.key \in VolatileKeys
    BY <1>2 DEF CanonicalQuery
  <2> HIDE DEF VolatileKeys
  <2>3. PICK kept : kept = CanonicalQuery(query)
    OBVIOUS
  <2>4. /\ ~ (kept = None \/ \A pair \in kept : pair.key \in VolatileKeys)
        /\ {pair \in kept : pair.key \notin VolatileKeys} = kept
    BY <1>2, <2>1, <2>2, <2>3
  <2> QED
    BY <2>3, <2>4 DEF CanonicalQuery
<1> QED
  BY <1>1, <1>2

LEMMA NormalizedTwice ==
  ASSUME NEW x, IsUrl(x)
  PROVE  Normalized(Normalized(x)) = Normalized(x)
<1>1. PICK y : y = Normalized(x)
  OBVIOUS
<1>2. IsUrl(y) /\ y.query = CanonicalQuery(x.query)
  BY <1>1, NormalizedShape
<1>3. CanonicalQuery(y.query) = y.query
  BY <1>2, CanonicalTwice
<1>4. Normalized(y) = y
  BY <1>2, <1>3, NormalizedShape DEF IsUrl
<1> QED
  BY <1>1, <1>4

LEMMA SurtShape ==
  ASSUME NEW x, IsUrl(x)
  PROVE  Surt(x) = [scheme |-> None, host |-> Bare(x.host), port |-> x.port, segs |-> x.segs,
                    slash |-> x.slash, query |-> x.query]
<1>1. PICK scheme, host, port, segs, slash, query :
        /\ x = [scheme |-> scheme, host |-> host, port |-> port,
                segs |-> segs, slash |-> slash, query |-> query]
        /\ scheme = x.scheme /\ host = x.host /\ port = x.port /\ segs = x.segs
        /\ slash = x.slash /\ query = x.query
  BY DEF IsUrl
<1>2. PICK bare : bare = Bare(x.host)
  OBVIOUS
<1>3. Surt(x) = [x EXCEPT !.scheme = None, !.host = bare]
  BY <1>1, <1>2 DEF Surt
<1> QED
  BY <1>1, <1>2, <1>3

LEMMA SurtsAgree ==
  ASSUME NEW x, IsUrl(x), NEW y, IsUrl(y), Surt(x) = Surt(y)
  PROVE  Surt(Normalized(x)) = Surt(Normalized(y))
<1>1. PICK bx, by : bx = Bare(x.host) /\ by = Bare(y.host)
  OBVIOUS
<1>2. [scheme |-> None, host |-> bx, port |-> x.port, segs |-> x.segs,
       slash |-> x.slash, query |-> x.query]
       = [scheme |-> None, host |-> by, port |-> y.port, segs |-> y.segs,
          slash |-> y.slash, query |-> y.query]
  BY <1>1, SurtShape
<1>3. /\ bx = by /\ x.port = y.port /\ x.segs = y.segs /\ x.slash = y.slash /\ x.query = y.query
  BY <1>2
<1>4. PICK canonical : canonical = CanonicalQuery(x.query)
  OBVIOUS
<1>5. PICK nx, ny : nx = Normalized(x) /\ ny = Normalized(y)
  OBVIOUS
<1>6. /\ IsUrl(nx) /\ nx.host = x.host /\ nx.port = x.port /\ nx.segs = x.segs
      /\ nx.slash = x.slash /\ nx.query = canonical
  BY <1>4, <1>5, NormalizedShape
<1>7. /\ IsUrl(ny) /\ ny.host = y.host /\ ny.port = x.port /\ ny.segs = x.segs
      /\ ny.slash = x.slash /\ ny.query = canonical
  BY <1>3, <1>4, <1>5, NormalizedShape
<1>8. Bare(nx.host) = Bare(ny.host)
  BY <1>1, <1>3, <1>6, <1>7
<1>9. Surt(nx) = Surt(ny)
  BY <1>6, <1>7, <1>8, SurtShape
<1> QED
  BY <1>5, <1>9

(* What the index answers for a URL the mapper cannot tell from it.         *)
LEMMA FoundAgrees ==
  ASSUME NEW u, IsUrl(u), Found(u) # None
  PROVE  Found(u) \in Archive /\ Surt(Normalized(Found(u).url)) = Surt(Normalized(u))
<1>1. PICK c : c = Found(u)
  OBVIOUS
<1>2. c \in Archive /\ (Surt(c.url) = Surt(u) \/ Surt(c.url) = Surt(Normalized(u)))
  BY <1>1 DEF Found, Answers
<1>3. IsUrl(c.url)
  BY <1>2, SiteAssumption
<1>4. CASE Surt(c.url) = Surt(u)
  BY <1>1, <1>2, <1>3, <1>4, SurtsAgree
<1>5. CASE Surt(c.url) = Surt(Normalized(u))
  <2>1. Surt(Normalized(c.url)) = Surt(Normalized(Normalized(u)))
    BY <1>3, <1>5, NormalizedShape, SurtsAgree
  <2> QED
    BY <1>1, <1>2, <2>1, NormalizedTwice
<1> QED
  BY <1>2, <1>4, <1>5

-----------------------------------------------------------------------------
(* A path is known for a URL because of a capture that the index does not   *)
(* tell from it.                                                            *)
StandsFor(key, e) == e \in Archive /\ Surt(Normalized(e.url)) = Surt(key)
KnownInv == \A k \in DOMAIN known : \E e \in Archive : StandsFor(k, e) /\ known[k] = PathOf(e)

LEMMA ListedStandsFor ==
  \A k \in DOMAIN ListedPaths : \E e \in Archive : StandsFor(k, e) /\ ListedPaths[k] = PathOf(e)
<1> SUFFICES ASSUME NEW k \in DOMAIN ListedPaths
             PROVE  \E e \in Archive : StandsFor(k, e) /\ ListedPaths[k] = PathOf(e)
  OBVIOUS
<1>1. PICK e \in Archive : ListedPaths[k] = PathOf(e) /\ Normalized(e.url) = k
  BY ListedPathsProperties
<1>2. IsUrl(e.url)
  BY SiteAssumption
<1>3. Normalized(Normalized(e.url)) = Normalized(e.url)
  BY <1>2, NormalizedTwice
<1>4. StandsFor(k, e)
  BY <1>1, <1>3 DEF StandsFor
<1> QED
  BY <1>1, <1>4

LEMMA KnownStays == TInv /\ RefsTyped /\ KnownInv /\ [Next]_vars => KnownInv'
<1> SUFFICES ASSUME TInv, RefsTyped, KnownInv, [Next]_vars PROVE KnownInv'
  OBVIOUS
<1>1. ASSUME UNCHANGED known PROVE KnownInv'
  BY <1>1 DEF KnownInv
<1>2. ASSUME known' = <<>> PROVE KnownInv'
  BY <1>2 DEF KnownInv
<1>3. CASE StartDownload
  BY <1>3, ListedStandsFor DEF StartDownload, KnownInv
<1>4. CASE StartOutputRepair \/ StartRepair \/ Kill \/ KillWhileCopying
  BY <1>2, <1>4 DEF StartOutputRepair, StartRepair, Kill, KillWhileCopying, Forget
<1>5. CASE Cancel \/ CancelledJob \/ SkippedJob \/ MissedJob \/ StoreFile \/ RecordFile \/ JobsEnd
  BY <1>1, <1>5 DEF Cancel, CancelledJob, SkippedJob, MissedJob, StoreFile, RecordFile, JobsEnd,
                    processVars
<1>6. CASE NextWave \/ WaveResolved \/ WavesEnd \/ MakeAlias \/ AliasesEnd
  BY <1>1, <1>6 DEF NextWave, WaveResolved, WavesEnd, MakeAlias, AliasesEnd, processVars
<1>7. CASE RepairFile \/ RepairEnds \/ UNCHANGED vars
  BY <1>1, <1>7 DEF RepairFile, RepairEnds, vars, processVars
<1>8. CASE ResolveReference
  <2>1. PICK u : u = CHOOSE v \in pending : TRUE
    OBVIOUS
  <2>2. PICK c : c = Found(u)
    OBVIOUS
  <2>3. u \in pending /\ IsUrl(u)
    BY <1>8, <2>1 DEF ResolveReference, RefsTyped
  <2>4. \/ UNCHANGED known
        \/ /\ c # None
           /\ known' = [k \in DOMAIN known \cup {Normalized(u), Normalized(c.url)} |->
                          IF k \in {Normalized(u), Normalized(c.url)} THEN PathOf(c) ELSE known[k]]
    BY <1>8, <2>1, <2>2 DEF ResolveReference
  <2>5. CASE c # None
    <3>1. c \in Archive /\ Surt(Normalized(c.url)) = Surt(Normalized(u)) /\ IsUrl(c.url)
      BY <2>2, <2>3, <2>5, FoundAgrees, SiteAssumption
    <3>2. \A x \in {u, c.url} : IsUrl(x) /\ Surt(Normalized(c.url)) = Surt(Normalized(x))
      BY <2>3, <3>1
    <3>3. StandsFor(Normalized(u), c) /\ StandsFor(Normalized(c.url), c)
      BY <3>1, <3>2 DEF StandsFor
    <3> QED
      BY <1>1, <2>4, <3>1, <3>3 DEF KnownInv
  <2> QED
    BY <1>1, <2>4, <2>5
<1> QED
  BY <1>3, <1>4, <1>5, <1>6, <1>7, <1>8 DEF Next

(* What a link made for a path opens: the names below the directories that  *)
(* the path shares with the page are decoded.                               *)
ReadBelow(path, k) == [i \in DOMAIN path |-> IF i <= k THEN path[i] ELSE DecodedName(path[i])]

LEMMA LinkReads ==
  ASSUME NEW from, IsPath(from), NEW to, IsPath(to)
  PROVE  \E k \in 0 .. Len(to) :
           /\ k < Len(from) /\ \A i \in 1 .. k : from[i] = to[i]
           /\ ResolveLocal(from, RelativeLink(from, to)) = ReadBelow(to, k)
<1>1. PICK dir : dir = FrontOf(from)
  OBVIOUS
<1>2. /\ IsSequence(dir) /\ IsSequence(to) /\ AreNames(to) /\ IsSequence(from)
      /\ Len(to) \in Nat /\ Len(from) \in Nat /\ Len(from) > 0 /\ Len(dir) = Len(from) - 1
  BY <1>1, DirectoryShape, SequenceProperties DEF IsPath, AreNames
<1>3. PICK N : dir \in Seq(N) /\ to \in Seq(N)
  BY <1>2, CommonElements
<1>4. PICK k : k = Common(dir, to)
  OBVIOUS
<1>5. k \in 0 .. Len(dir) /\ k <= Len(to) /\ \A i \in 1 .. k : dir[i] = to[i]
  BY <1>3, <1>4, CommonPrefix
<1>6. k \in 0 .. Len(to) /\ k < Len(from) /\ \A i \in 1 .. k : from[i] = to[i]
  <2>1. 1 \in Nat /\ 1 > 0 /\ Len(from) - 1 \in Int /\ Len(from) - 1 <= Len(from)
    BY <1>2
  <2>2. dir = SubSeq(from, 1, Len(from) - 1)
    BY <1>1 DEF FrontOf
  <2>3. \A i \in 1 .. Len(dir) : dir[i] = from[1 + i - 1]
    BY <1>2, <2>1, <2>2, PartOfSequence
  <2>4. \A i \in 1 .. k : i \in 1 .. Len(dir) /\ 1 + i - 1 = i
    BY <1>2, <1>5
  <2>5. \A i \in 1 .. k : from[i] = to[i]
    BY <1>5, <2>3, <2>4
  <2>6. k \in 0 .. Len(to) /\ k < Len(from)
    BY <1>2, <1>5
  <2> QED
    BY <2>5, <2>6
<1>7. PICK rest : rest = SubSeq(to, k + 1, Len(to))
  OBVIOUS
<1>8. /\ AreNames(rest) /\ Len(rest) = Len(to) - k
      /\ \A i \in 1 .. Len(to) - k : rest[i] = to[k + i]
  <2>1. k + 1 \in Nat /\ k + 1 > 0 /\ Len(to) \in Int /\ Len(to) <= Len(to)
    BY <1>2, <1>5
  <2>2. AreNames(rest) /\ Len(rest) = IF k + 1 <= Len(to) THEN Len(to) - (k + 1) + 1 ELSE 0
    BY <1>2, <1>7, <2>1, PartOfNames
  <2>3. Len(rest) = Len(to) - k
    BY <1>2, <1>5, <2>2
  <2>4. \A i \in 1 .. Len(rest) : rest[i] = to[(k + 1) + i - 1]
    BY <1>2, <1>7, <2>1, PartOfSequence
  <2>5. \A i \in 1 .. Len(rest) : (k + 1) + i - 1 = k + i
    BY <1>2, <1>5, <2>3
  <2> QED
    BY <2>2, <2>3, <2>4, <2>5
<1>9. PICK link : link = Local(FALSE, Len(dir) - k, rest, None)
  OBVIOUS
<1>10. RelativeLink(from, to) = link
  BY <1>1, <1>4, <1>7, <1>9 DEF RelativeLink
<1>11. /\ link.kind = "local" /\ link.rooted = FALSE /\ link.down = rest
       /\ ~ (link.up > Len(dir)) /\ Len(dir) - link.up = k
  BY <1>2, <1>5, <1>9 DEF Local
<1>12. PICK head, tail : head = SubSeq(dir, 1, k) /\ tail = Read(rest)
  OBVIOUS
<1>13. ResolveLocal(from, link) = head \o tail
  BY <1>1, <1>11, <1>12 DEF ResolveLocal, Read
<1>14. /\ IsSequence(head) /\ Len(head) = k /\ \A i \in 1 .. k : head[i] = to[i]
  <2>1. 1 \in Nat /\ 1 > 0 /\ k \in Int /\ k <= Len(dir)
    BY <1>2, <1>5
  <2>2. /\ IsSequence(head) /\ Len(head) = (IF 1 <= k THEN k - 1 + 1 ELSE 0)
        /\ \A i \in 1 .. Len(head) : head[i] = dir[1 + i - 1]
    BY <1>2, <1>12, <2>1, PartOfSequence
  <2>3. Len(head) = k
    BY <1>5, <2>2
  <2> QED
    BY <1>5, <2>2, <2>3
<1>15. /\ IsSequence(tail) /\ Len(tail) = Len(to) - k
       /\ \A i \in 1 .. Len(to) - k : tail[i] = DecodedName(to[k + i])
  BY <1>8, <1>12, ReadShape DEF AreNames
<1>16. PICK whole, read :
         /\ whole = head \o tail
         /\ read = ReadBelow(to, k)
  OBVIOUS
<1>17. /\ IsSequence(whole) /\ Len(whole) = Len(to)
       /\ \A i \in 1 .. k : whole[i] = head[i]
       /\ \A i \in 1 .. Len(to) - k : whole[k + i] = tail[i]
  <2>1. /\ IsSequence(whole) /\ Len(whole) = Len(head) + Len(tail)
        /\ \A i \in 1 .. Len(head) : whole[i] = head[i]
        /\ \A i \in 1 .. Len(tail) : whole[Len(head) + i] = tail[i]
    BY <1>14, <1>15, <1>16, ConcatSequences
  <2> QED
    BY <1>2, <1>5, <1>14, <1>15, <2>1
<1>18. /\ IsSequence(read) /\ Len(read) = Len(to)
       /\ \A i \in 1 .. Len(to) : read[i] = IF i <= k THEN to[i] ELSE DecodedName(to[i])
  <2>1. DOMAIN to = 1 .. Len(to)
    BY <1>2, SequenceProperties
  <2>2. /\ read = [i \in 1 .. Len(to) |-> read[i]]
        /\ \A i \in 1 .. Len(to) : read[i] = IF i <= k THEN to[i] ELSE DecodedName(to[i])
    BY <1>16, <2>1 DEF ReadBelow
  <2> QED
    BY <1>2, <2>2, FunctionIsSequence
<1>19. ASSUME NEW i \in 1 .. Len(to) PROVE whole[i] = read[i]
  <2>1. CASE i <= k
    <3>1. i \in 1 .. k
      BY <1>2, <1>5, <2>1
    <3> QED
      BY <1>14, <1>17, <1>18, <2>1, <3>1
  <2>2. CASE ~ (i <= k)
    <3>1. i - k \in 1 .. Len(to) - k /\ k + (i - k) = i
      BY <1>2, <1>5, <2>2
    <3>2. whole[i] = DecodedName(to[i])
      BY <1>15, <1>17, <3>1
    <3> QED
      BY <1>18, <2>2, <3>2
  <2> QED
    BY <2>1, <2>2
<1>20. whole = read
  BY <1>17, <1>18, <1>19, SameElements
<1> QED
  BY <1>6, <1>10, <1>13, <1>16, <1>20

LEMMA LinkIsRead ==
  ASSUME NEW from, IsPath(from), NEW to, IsPath(to)
  PROVE  ResolveLocal(from, RelativeLink(from, to)) \in ReadAs(to)
<1>1. PICK k \in 0 .. Len(to) : ResolveLocal(from, RelativeLink(from, to)) = ReadBelow(to, k)
  BY LinkReads
<1> QED
  BY <1>1 DEF ReadAs, ReadBelow

LEMMA ReadAsShape ==
  ASSUME NEW path, IsPath(path), NEW read \in ReadAs(path)
  PROVE  IsPath(read)
<1>1. /\ IsSequence(path) /\ Len(path) \in Nat /\ Len(path) > 0
      /\ DOMAIN path = 1 .. Len(path) /\ AreNames(path)
  BY SequenceProperties DEF IsPath, AreNames
<1>2. PICK k \in 0 .. Len(path) :
        read = [i \in DOMAIN path |-> IF i <= k THEN path[i] ELSE DecodedName(path[i])]
  BY DEF ReadAs
<1>3. IsSequence(read) /\ Len(read) = Len(path)
  <2>1. read = [i \in 1 .. Len(path) |-> read[i]]
    BY <1>1, <1>2
  <2> QED
    BY <1>1, <2>1, FunctionIsSequence
<1>4. \A i \in 1 .. Len(path) : IsName(path[i]) /\ IsName(DecodedName(path[i]))
  <2>1. \A i \in 1 .. Len(path) : IsName(Read(path)[i]) /\ Read(path)[i] = DecodedName(path[i])
    <3>1. AreNames(Read(path)) /\ DOMAIN Read(path) = 1 .. Len(path)
      BY <1>1, ReadShape, SequenceProperties DEF AreNames
    <3> QED
      BY <1>1, <3>1, ReadShape DEF AreNames
  <2> QED
    BY <1>1, <2>1 DEF AreNames
<1>5. \A i \in DOMAIN read : IsName(read[i])
  BY <1>1, <1>2, <1>4
<1>6. read # <<>>
  <2>1. Len(<<>>) = 0
    OBVIOUS
  <2> QED
    BY <1>1, <1>3, <2>1
<1> QED
  BY <1>3, <1>5, <1>6 DEF IsPath, AreNames

(* While a run downloads, the paths of the listing are known.               *)
Downloads == {"jobs", "recording", "waves", "resolving"}
ListedInv == phase \in Downloads => DOMAIN ListedPaths \subseteq DOMAIN known

LEMMA ListedStays == ListedInv /\ [Next]_vars => ListedInv'
<1> SUFFICES ASSUME ListedInv, [Next]_vars PROVE ListedInv'
  OBVIOUS
<1> USE DEF ListedInv, Downloads
<1>1. CASE StartDownload
  BY <1>1 DEF StartDownload
<1>2. CASE Cancel \/ CancelledJob \/ SkippedJob \/ MissedJob \/ StoreFile \/ RecordFile
  BY <1>2 DEF Cancel, CancelledJob, SkippedJob, MissedJob, StoreFile, RecordFile, Ended,
              Downloading, processVars
<1>3. CASE JobsEnd \/ NextWave \/ WaveResolved \/ UNCHANGED vars
  BY <1>3 DEF JobsEnd, NextWave, WaveResolved, vars, processVars
<1>4. CASE ResolveReference
  <2>1. phase = "resolving" /\ DOMAIN known \subseteq DOMAIN known'
    BY <1>4 DEF ResolveReference
  <2> QED
    BY <2>1
<1>5. CASE StartOutputRepair \/ StartRepair \/ Kill \/ KillWhileCopying
  BY <1>5 DEF StartOutputRepair, StartRepair, Kill, KillWhileCopying
<1>6. CASE MakeAlias
  <2>1. phase \in {"topics", "directories"} /\ phase' = phase
    BY <1>6 DEF MakeAlias, Copies
  <2> QED
    BY <2>1
<1>7. CASE WavesEnd \/ AliasesEnd \/ RepairFile \/ RepairEnds
  BY <1>7 DEF WavesEnd, AliasesEnd, RepairFile, RepairEnds
<1> QED
  BY <1>1, <1>2, <1>3, <1>4, <1>5, <1>6, <1>7 DEF Next

LEMMA SiteLinkShape ==
  ASSUME NEW page, NEW was, <<page, was>> \in SiteLinks
  PROVE  /\ page \in Archive /\ was \in page.links
         /\ IsRelated(Join(page.url, was.ref).host) /\ ~ IsNoiseReference(Join(page.url, was.ref))
         /\ MayOpen[<<page, was>>] = UNION {Opened(path) : path \in MeantPaths(page, was)}
<1>1. PICK c \in Archive :
        <<page, was>> \in {<<c, link>> :
                             link \in {l \in c.links : WorthFollowing({Join(c.url, l.ref)}) # {}}}
  BY DEF SiteLinks
<1>2. page = c /\ was \in c.links /\ WorthFollowing({Join(c.url, was.ref)}) # {}
  BY <1>1
<1>3. IsRelated(Join(c.url, was.ref).host) /\ ~ IsNoiseReference(Join(c.url, was.ref))
  BY <1>2 DEF WorthFollowing
<1>4. MayOpen[<<page, was>>] = UNION {Opened(path) : path \in MeantPaths(page, was)}
  BY DEF MayOpen
<1> QED
  BY <1>1, <1>2, <1>3, <1>4

LEMMA MeantPathsShape ==
  ASSUME NEW page, NEW was, <<page, was>> \in SiteLinks, NEW path \in MeantPaths(page, was)
  PROVE  IsPath(path)
<1>1. IsUrl(Join(page.url, was.ref))
  BY SiteLinkShape, SiteAssumption, JoinShape
<1>2. IsPath(GuessedPath(page, was))
  BY <1>1, LocalPathShape DEF GuessedPath
<1> QED
  BY <1>2, PathsOfCaptures DEF MeantPaths

(* A link is written for a path that it may be written for.                 *)
LEMMA TargetIsMeant ==
  ASSUME TInv, KnownInv, ListedInv, phase = "jobs",
         NEW page, NEW was, <<page, was>> \in SiteLinks,
         NEW to, to = LinkTarget(page.url, Join(page.url, was.ref), was.kind, known)
  PROVE  to \in MeantPaths(page, was) /\ to # None /\ IsPath(to)
<1>1. PICK u : u = Join(page.url, was.ref)
  OBVIOUS
<1>2. /\ page \in Archive /\ was \in page.links /\ IsUrl(u)
      /\ IsRelated(u.host) /\ ~ IsNoiseReference(u)
  BY <1>1, SiteLinkShape, SiteAssumption, JoinShape
<1>3. CASE KnownPath(u, known) # None
  <2>1. PICK key \in DOMAIN known : /\ KnownPath(u, known) = known[key]
                                   /\ key \in {Normalized(u)} \cup Spellings(u)
    BY <1>3, KnownPathShape DEF TInv
  <2>2. PICK e \in Archive : Surt(Normalized(e.url)) = Surt(key) /\ known[key] = PathOf(e)
    BY <2>1 DEF KnownInv, StandsFor
  <2>3. to = PathOf(e) /\ to # None
    BY <1>1, <1>3, <2>1, <2>2 DEF LinkTarget
  <2>4. to \in MeantPaths(page, was)
    BY <1>1, <2>1, <2>2, <2>3 DEF MeantPaths
  <2> QED
    BY <2>2, <2>3, <2>4, PathsOfCaptures
<1>4. CASE KnownPath(u, known) = None
  <2>1. to = GuessedPath(page, was)
    BY <1>1, <1>2, <1>4 DEF LinkTarget, GuessedPath
  <2>2. IsPath(to)
    BY <1>1, <1>2, <2>1, LocalPathShape DEF GuessedPath
  <2>3. to # None
    BY <1>2, <2>1, PathsAssumption
  <2>4. \A key \in DOMAIN known : known[key] # None
    BY PathsOfCaptures, PathsAssumption DEF KnownInv
  <2>5. Normalized(u) \notin DOMAIN ListedPaths
    BY <1>4, <2>4 DEF KnownPath, ListedInv, Downloads
  <2>6. to \in MeantPaths(page, was)
    BY <1>1, <2>1, <2>5 DEF MeantPaths
  <2> QED
    BY <2>2, <2>3, <2>6
<1> QED
  BY <1>3, <1>4

LEMMA MeantAreOpened ==
  ASSUME NEW page, NEW was, <<page, was>> \in SiteLinks,
         NEW path \in MeantPaths(page, was), NEW open \in Opened(path)
  PROVE  open \in MayOpen[<<page, was>>]
BY SiteLinkShape

(* Every link to a page of the site opens what it may.                      *)
FileArrives(p, file) ==
  \A link \in file.links :
    <<file.of, link.was>> \in SiteLinks =>
      ResolveLocal(p, link.ref) \in MayOpen[<<file.of, link.was>>]
LinkInv == \A p \in DOMAIN disk : FileArrives(p, disk[p])

LEMMA LinksFollow == LinkInv => LinksArrive
BY DEF LinkInv, FileArrives, LinksArrive

LEMMA SavedArrives ==
  ASSUME TInv, KnownInv, ListedInv, phase = "jobs", NEW c \in Archive, NEW p, IsPath(p)
  PROVE  FileArrives(p, Saved(c, p, known))
<1> DEFINE made == {[was |-> link, text |-> link.text, post |-> link.post, row |-> link.row,
                     ref |-> Rewrite(c.url, p, link.ref, link.kind, known)] : link \in c.links}
<1>1. ASSUME NEW link \in made, <<c, link.was>> \in SiteLinks
      PROVE  ResolveLocal(p, link.ref) \in MayOpen[<<c, link.was>>]
  <2>1. PICK was \in c.links :
          /\ link.was = was
          /\ link.ref = Rewrite(c.url, p, was.ref, was.kind, known)
    OBVIOUS
  <2>2. PICK to : to = LinkTarget(c.url, Join(c.url, was.ref), was.kind, known)
    OBVIOUS
  <2>3. to \in MeantPaths(c, was) /\ to # None /\ IsPath(to)
    BY <1>1, <2>1, <2>2, TargetIsMeant
  <2>4. link.ref = RelativeLink(p, to)
    BY <2>1, <2>2, <2>3 DEF Rewrite
  <2>5. ResolveLocal(p, link.ref) \in Opened(to)
    BY <2>3, <2>4, LinkIsRead DEF Opened
  <2> QED
    BY <1>1, <2>1, <2>3, <2>5, MeantAreOpened
<1>2. Saved(c, p, known).links = made /\ Saved(c, p, known).of = c
  BY DEF Saved
<1> HIDE DEF made
<1> QED
  BY <1>1, <1>2 DEF FileArrives

LEMMA PutArrives ==
  ASSUME LinkInv, NEW p, NEW file, FileArrives(p, file), disk' = Put(p, file)
  PROVE  LinkInv'
<1>1. /\ DOMAIN disk' = DOMAIN disk \cup {p}
      /\ \A q \in DOMAIN disk' : disk'[q] = IF q = p THEN file ELSE disk[q]
  BY DEF Put
<1>2. ASSUME NEW q \in DOMAIN disk' PROVE FileArrives(q, disk'[q])
  BY <1>1 DEF LinkInv
<1> QED
  BY <1>2 DEF LinkInv, FileArrives

(* An alias opens its links as its source does, being beside it.            *)
LEMMA CopyOpensAsSource ==
  ASSUME NEW copy \in Copies, IsPath(copy.to), NEW ref
  PROVE  ResolveLocal(copy.to, ref) = ResolveLocal(copy.from, ref)
<1>1. CASE phase = "topics"
  BY <1>1, AliasesKeepRelativeLinks DEF Copies
<1>2. CASE phase = "directories"
  <2>1. copy.from = Append(FrontOf(copy.to), IndexHtm)
    BY <1>2, DirectoryCopies DEF Copies
  <2>2. PICK dir : dir = FrontOf(copy.to)
    OBVIOUS
  <2>3. IsSequence(dir) /\ Len(dir) \in Nat
    BY <2>2, DirectoryShape, SequenceProperties DEF AreNames
  <2>4. PICK N : dir \in Seq(N) /\ IndexHtm \in N
    <3>1. dir \in Seq({dir[i] : i \in DOMAIN dir} \cup {IndexHtm})
      <4> DEFINE R == {dir[i] : i \in DOMAIN dir} \cup {IndexHtm}
      <4>1. DOMAIN dir = 1 .. Len(dir) /\ dir = [i \in 1 .. Len(dir) |-> dir[i]]
        BY <2>3, SequenceProperties DEF IsSequence
      <4>2. \A i \in 1 .. Len(dir) : dir[i] \in R
        BY <4>1
      <4> HIDE DEF R
      <4>3. dir \in [1 .. Len(dir) -> R]
        BY <4>1, <4>2
      <4>4. dir \in Seq(R)
        BY <2>3, <4>3
      <4> QED
        BY <4>4 DEF R
    <3> QED
      BY <3>1
  <2>5. FrontOf(Append(dir, IndexHtm)) = dir
    BY <2>4 DEF FrontOf
  <2> QED
    BY <2>1, <2>2, <2>5 DEF ResolveLocal
<1>3. CASE phase \notin {"topics", "directories"}
  BY <1>3 DEF Copies
<1> QED
  BY <1>1, <1>2, <1>3

(* A link to a script is repaired to one that opens the HTML file of the    *)
(* script, and that to a file named as HTML is not repaired.                *)
LEMMA RepairedOpens ==
  ASSUME NEW p, IsPath(p), NEW link \in Repairs(p), IsReference(link.ref), NEW fixed,
         fixed.kind = "local", fixed.rooted = link.ref.rooted, fixed.up = link.ref.up,
         fixed.down = ToHtml(link.ref.down)
  PROVE  /\ ResolveLocal(p, fixed) = ToHtml(ResolveLocal(p, link.ref))
         /\ Suffix(ResolveLocal(p, link.ref)) \in ScriptExtensions
<1>1. PICK target : target = ResolveLocal(p, link.ref)
  OBVIOUS
<1>2. Repairable(DOMAIN disk, {q \in DOMAIN disk : HasFile(q)}, p, link.ref)
  BY DEF Repairs
<1>3. Suffix(target) \in ScriptExtensions
  BY <1>1, <1>2 DEF Repairable, Suffix
<1>4. Repairable(DOMAIN disk, {ToHtml(target)}, p, link.ref)
  BY <1>1, <1>2 DEF Repairable
<1>5. ResolveLocal(p, fixed) \in {ToHtml(target)}
  BY <1>4, RepairedLinkArrives
<1> QED
  BY <1>1, <1>3, <1>5

LEMMA HtmlIsNoScript ==
  ASSUME NEW path, IsPath(path)
  PROVE  Suffix(ToHtml(path)) \notin ScriptExtensions
<1>1. PICK parts : parts = LastOf(path).parts
  OBVIOUS
<1>2. IsName(LastOf(path)) /\ IsSequence(parts)
  BY <1>1, DirectoryShape DEF IsName
<1>3. PICK last : last = AsHtml(LastOf(path))
  OBVIOUS
<1>4. last = [parts |-> Append(parts, "html"), hash |-> LastOf(path).hash]
  BY <1>1, <1>2, <1>3 DEF AsHtml, IsName
<1>5. PICK front : front = FrontOf(path) /\ IsSequence(front) /\ Len(front) \in Nat
  BY DirectoryShape, SequenceProperties DEF AreNames
<1>6. ToHtml(path) = Append(front, last)
  BY <1>3, <1>5 DEF ToHtml
<1>7. LastOf(ToHtml(path)) = last
  BY <1>5, <1>6, AppendSequence DEF LastOf
<1>8. LastOf(Append(parts, "html")) = "html"
  BY <1>2, AppendSequence DEF LastOf
<1>9. Suffix(ToHtml(path)) \in {"html", None}
  BY <1>4, <1>7, <1>8 DEF Suffix, Extension
<1> QED
  BY <1>9, SuffixAssumption DEF ScriptExtensions

LEMMA RepairArrives ==
  ASSUME TInv, LinkInv, RepairFile
  PROVE  LinkInv'
<1>1. PICK p : p = First(shelf)
  OBVIOUS
<1>2. /\ DOMAIN disk' = DOMAIN disk
      /\ \A q \in DOMAIN disk : disk'[q].of = disk[q].of
      /\ p \in shelf
      /\ \A q \in DOMAIN disk \ {p} : disk'[q] = disk[q]
      /\ disk'[p].links = {IF link \in Repairs(p) THEN RepairedLink(link) ELSE link :
                             link \in disk[p].links}
  BY <1>1, RepairedFiles
<1>3. p \in DOMAIN disk /\ IsPath(p) /\ FileArrives(p, disk[p])
  BY <1>2 DEF TInv, OtherTypes, FilesTyped, LinkInv
<1>4. PICK page : page = disk[p].of
  OBVIOUS
<1>5. ASSUME NEW link \in disk[p].links, link \in Repairs(p),
             <<page, RepairedLink(link).was>> \in SiteLinks
      PROVE  ResolveLocal(p, RepairedLink(link).ref) \in MayOpen[<<page, RepairedLink(link).was>>]
  <2>1. PICK fixed : fixed = RepairedRef(link.ref)
    OBVIOUS
  <2>2. IsLink(link) /\ IsReference(link.ref) /\ link.ref.kind = "local" /\ link.ref.down # <<>>
    BY <1>3, <1>5, RepairsAreLocal DEF TInv, IsLink
  <2>3. RepairedLink(link) = [was |-> link.was, text |-> link.text, post |-> link.post,
                              row |-> link.row, ref |-> fixed]
    BY <2>1, <2>2 DEF RepairedLink, IsLink
  <2>4. PICK target : target = ResolveLocal(p, link.ref)
    OBVIOUS
  <2>5. ResolveLocal(p, fixed) = ToHtml(target) /\ Suffix(target) \in ScriptExtensions
    BY <1>3, <1>5, <2>1, <2>2, <2>4, RepairedLinkShape, RepairedOpens
  <2>6. <<page, link.was>> \in SiteLinks /\ target \in MayOpen[<<page, link.was>>]
    BY <1>3, <1>4, <1>5, <2>3, <2>4 DEF FileArrives
  <2>7. PICK path \in MeantPaths(page, link.was) : target \in Opened(path)
    BY <2>6, SiteLinkShape
  <2>8. IsPath(path)
    BY <2>6, <2>7, MeantPathsShape
  <2>9. target \in ReadAs(path)
    <3> SUFFICES ASSUME target \notin ReadAs(path) PROVE FALSE
      OBVIOUS
    <3>1. PICK read \in ReadAs(path) : target = ToHtml(read)
      BY <2>7 DEF Opened
    <3> QED
      BY <2>5, <2>8, <3>1, ReadAsShape, HtmlIsNoScript
  <2>10. ToHtml(target) \in Opened(path)
    BY <2>5, <2>9 DEF Opened
  <2> QED
    BY <2>3, <2>5, <2>6, <2>7, <2>10, MeantAreOpened
<1>6. FileArrives(p, disk'[p])
  BY <1>2, <1>3, <1>4, <1>5 DEF FileArrives
<1>7. ASSUME NEW q \in DOMAIN disk' PROVE FileArrives(q, disk'[q])
  BY <1>2, <1>6, <1>7 DEF LinkInv
<1> QED
  BY <1>7 DEF LinkInv, FileArrives

LEMMA LinksStay == TInv /\ KnownInv /\ ListedInv /\ LinkInv /\ [Next]_vars => LinkInv'
<1> SUFFICES ASSUME TInv, KnownInv, ListedInv, LinkInv, [Next]_vars PROVE LinkInv'
  OBVIOUS
<1>1. ASSUME UNCHANGED disk PROVE LinkInv'
  BY <1>1 DEF LinkInv, FileArrives
<1>2. CASE StartDownload \/ StartOutputRepair \/ StartRepair \/ Cancel \/ Kill
  BY <1>1, <1>2 DEF StartDownload, StartOutputRepair, StartRepair, Cancel, Kill, diskVars
<1>3. CASE CancelledJob \/ SkippedJob \/ MissedJob \/ RecordFile \/ JobsEnd
  BY <1>1, <1>3 DEF CancelledJob, SkippedJob, MissedJob, RecordFile, JobsEnd, diskVars
<1>4. CASE NextWave \/ ResolveReference \/ WaveResolved \/ WavesEnd \/ AliasesEnd \/ RepairEnds
  BY <1>1, <1>4 DEF NextWave, ResolveReference, WaveResolved, WavesEnd, AliasesEnd, RepairEnds,
                    diskVars
<1>5. CASE UNCHANGED vars
  BY <1>1, <1>5 DEF vars, diskVars
<1>6. CASE StoreFile
  <2>1. /\ jobs # <<>> /\ phase = "jobs"
        /\ disk' = Put(Current.path, Saved(Current.record, Current.path, known))
    BY <1>6 DEF StoreFile, Downloading
  <2>2. FileArrives(Current.path, Saved(Current.record, Current.path, known))
    BY <2>1, CurrentTyped, SavedArrives
  <2> QED
    BY <2>1, <2>2, PutArrives
<1>7. CASE MakeAlias
  <2>1. PICK copy \in Copies : disk' = Put(copy.to, disk[copy.from])
    BY <1>7 DEF MakeAlias
  <2>2. copy.from \in DOMAIN disk /\ IsPath(copy.to)
    BY CopiesTyped
  <2>3. FileArrives(copy.from, disk[copy.from])
    BY <2>2 DEF LinkInv
  <2>4. FileArrives(copy.to, disk[copy.from])
    BY <2>2, <2>3, CopyOpensAsSource DEF FileArrives
  <2> QED
    BY <2>1, <2>4, PutArrives
<1>8. CASE KillWhileCopying
  <2>1. PICK copy \in Copies : \E file :
          /\ disk' = Put(copy.to, file)
          /\ file.of = disk[copy.from].of /\ file.links \subseteq disk[copy.from].links
    BY <1>8, CopyCutShort
  <2>2. PICK file : /\ disk' = Put(copy.to, file)
                    /\ file.of = disk[copy.from].of
                    /\ file.links \subseteq disk[copy.from].links
    BY <2>1
  <2>3. copy.from \in DOMAIN disk /\ IsPath(copy.to)
    BY CopiesTyped
  <2>4. FileArrives(copy.from, disk[copy.from])
    BY <2>3 DEF LinkInv
  <2>5. FileArrives(copy.to, file)
    BY <2>2, <2>3, <2>4, CopyOpensAsSource DEF FileArrives
  <2> QED
    BY <2>2, <2>5, PutArrives
<1>9. CASE RepairFile
  BY <1>9, RepairArrives
<1> QED
  BY <1>2, <1>3, <1>4, <1>5, <1>6, <1>7, <1>8, <1>9 DEF Next

(* Whatever the site, every link to a page of it leads to the path of a     *)
(* capture of the page's address, or to the guessed one if the listing does *)
(* not have the address, as a browser reads it and after any number of runs,*)
(* aliases, crashes and repairs (save_snapshot,                             *)
(* create_missing_topic_aliases, repair_local_links).                       *)
THEOREM LinksAlwaysArrive == Spec => []LinksArrive
<1> DEFINE Inv == TInv /\ RefsTyped /\ KnownInv /\ ListedInv /\ LinkInv
<1>1. Init => Inv
  BY InitTyped DEF Init, RefsTyped, KnownInv, ListedInv, Downloads, LinkInv
<1>2. Inv /\ [Next]_vars => Inv'
  BY TypesStay, RefsStayTyped, KnownStays, ListedStays, LinksStay
<1>3. Inv => LinksArrive
  BY LinksFollow
<1> QED
  BY <1>1, <1>2, <1>3, PTL DEF Spec

-----------------------------------------------------------------------------
(* ResumeLosesNothing and AliasesFillGaps, for sites whose captures can be  *)
(* told apart and whose links are clear. What the index finds for a URL     *)
(* stands for it, and is found if anything stands for it.                   *)
LEMMA FoundStands ==
  ASSUME NEW u, IsUrl(u), Found(u) # None
  PROVE  StandsFor(Normalized(u), Found(u))
BY FoundAgrees DEF StandsFor

LEMMA StandingPathsAgree ==
  ASSUME OnePathEach, NEW key, NEW e, NEW f, StandsFor(key, e), StandsFor(key, f)
  PROVE  PathOf(e) = PathOf(f)
BY DEF StandsFor, OnePathEach

LEMMA StandingIsFound ==
  ASSUME OnePathEach, NEW u, IsUrl(u), NEW e, StandsFor(Normalized(u), e)
  PROVE  Found(u) # None /\ PathOf(Found(u)) = PathOf(e)
<1>1. e \in Archive /\ Surt(Normalized(e.url)) = Surt(Normalized(u))
  BY DEF StandsFor
<1>2. PICK c : c \in Answers(Normalized(e.url))
  BY <1>1 DEF OnePathEach
<1>3. c \in Answers(Normalized(u))
  BY <1>1, <1>2 DEF Answers
<1>4. Found(u) # None
  <2>1. PICK a, b : a = Answers(u) /\ b = Answers(Normalized(u))
    OBVIOUS
  <2>2. a \subseteq Archive /\ b \subseteq Archive /\ b # {}
    BY <1>3, <2>1 DEF Answers
  <2>3. Found(u) = IF a # {} THEN CHOOSE x \in a : TRUE
                   ELSE IF b # {} THEN CHOOSE x \in b : TRUE ELSE None
    BY <2>1 DEF Found
  <2>4. Found(u) \in Archive
    BY <2>2, <2>3
  <2> QED
    BY <2>4, ArchiveAssumption
<1> QED
  BY <1>4, FoundStands, StandingPathsAgree

(* The spellings of a URL are one URL for the index.                        *)
Spelt(u, h, s) == Normalized([u EXCEPT !.host = h, !.scheme = s])

LEMMA SpellingsShape ==
  ASSUME NEW u
  PROVE  Spellings(u) = LET hosts == IF IsPrimary(u.host) THEN PrimaryHosts ELSE {u.host}
                        IN  {Spelt(u, h, s) : h \in hosts, s \in Schemes}
BY DEF Spellings, Spelt

LEMMA SpellingsStand ==
  ASSUME OnePathEach, NEW u, IsUrl(u), NEW k \in {Normalized(u)} \cup Spellings(u)
  PROVE  Surt(k) = Surt(Normalized(u))
<1>1. CASE k = Normalized(u)
  BY <1>1
<1>2. CASE k \in Spellings(u)
  <2>a. PICK hosts : hosts = IF IsPrimary(u.host) THEN PrimaryHosts ELSE {u.host}
    OBVIOUS
  <2>b. Spellings(u) = {Spelt(u, h, s) : h \in hosts, s \in Schemes}
    BY <2>a, SpellingsShape
  <2>c. PICK h \in hosts, s \in Schemes : k = Spelt(u, h, s)
    BY <1>2, <2>b
  <2>1. /\ h \in (IF IsPrimary(u.host) THEN PrimaryHosts ELSE {u.host}) /\ s \in Schemes
        /\ k = Normalized([u EXCEPT !.host = h, !.scheme = s])
    BY <2>a, <2>c DEF Spelt
  <2>2. Bare(h) = Bare(u.host) /\ IsSequence(h)
    <3>1. CASE IsPrimary(u.host)
      BY <2>1, <3>1, PrimaryHostsShape DEF IsPrimary, OnePathEach
    <3>2. CASE ~ IsPrimary(u.host)
      BY <2>1, <3>2 DEF IsUrl
    <3> QED
      BY <3>1, <3>2
  <2>3. PICK v : v = [u EXCEPT !.host = h, !.scheme = s]
    OBVIOUS
  <2>4. /\ v = [scheme |-> s, host |-> h, port |-> u.port, segs |-> u.segs,
                slash |-> u.slash, query |-> u.query]
    <3>1. u = [scheme |-> u.scheme, host |-> u.host, port |-> u.port, segs |-> u.segs,
               slash |-> u.slash, query |-> u.query]
      BY DEF IsUrl
    <3>2. PICK scheme, host, port, segs, slash, query :
            /\ u = [scheme |-> scheme, host |-> host, port |-> port,
                    segs |-> segs, slash |-> slash, query |-> query]
            /\ port = u.port /\ segs = u.segs /\ slash = u.slash /\ query = u.query
      BY <3>1
    <3>3. v = [[scheme |-> scheme, host |-> host, port |-> port,
                segs |-> segs, slash |-> slash, query |-> query] EXCEPT !.host = h, !.scheme = s]
      BY <2>3, <3>2
    <3>4. v = [scheme |-> s, host |-> h, port |-> port, segs |-> segs, slash |-> slash,
               query |-> query]
      BY <3>3
    <3> QED
      BY <3>2, <3>4
  <2>5. /\ v.host = h /\ v.port = u.port /\ v.segs = u.segs /\ v.slash = u.slash
        /\ v.query = u.query /\ IsUrl(v)
    BY <2>2, <2>4 DEF IsUrl
  <2>6. PICK bare : bare = Bare(u.host) /\ bare = Bare(v.host)
    BY <2>2, <2>5
  <2>d. Surt(v) = [scheme |-> None, host |-> bare, port |-> u.port, segs |-> u.segs,
                   slash |-> u.slash, query |-> u.query]
    <3>1. Surt(v) = [scheme |-> None, host |-> Bare(v.host), port |-> v.port, segs |-> v.segs,
                     slash |-> v.slash, query |-> v.query]
      BY <2>5, SurtShape
    <3> QED
      BY <2>5, <2>6, <3>1
  <2>e. Surt(u) = [scheme |-> None, host |-> bare, port |-> u.port, segs |-> u.segs,
                   slash |-> u.slash, query |-> u.query]
    BY <2>6, SurtShape
  <2>7. Surt(v) = Surt(u)
    BY <2>d, <2>e
  <2> QED
    BY <2>1, <2>3, <2>5, <2>7, SurtsAgree
<1> QED
  BY <1>1, <1>2

(* What the mapper knows for a URL is the path of all that stands for it.   *)
LEMMA KnownPathRight ==
  ASSUME OnePathEach, TInv, KnownInv, NEW u, IsUrl(u), KnownPath(u, known) # None
  PROVE  \E k \in DOMAIN known : \E e :
           /\ KnownPath(u, known) = known[k] /\ known[k] = PathOf(e)
           /\ k \in {Normalized(u)} \cup Spellings(u)
           /\ StandsFor(k, e) /\ StandsFor(Normalized(u), e)
<1>1. PICK k \in DOMAIN known : /\ KnownPath(u, known) = known[k]
                                /\ k \in {Normalized(u)} \cup Spellings(u)
  BY KnownPathShape DEF TInv
<1>2. PICK e \in Archive : StandsFor(k, e) /\ known[k] = PathOf(e)
  BY <1>1 DEF KnownInv
<1>3. Surt(k) = Surt(Normalized(u))
  BY <1>1, SpellingsStand
<1>4. StandsFor(Normalized(u), e)
  BY <1>2, <1>3 DEF StandsFor
<1> QED
  BY <1>1, <1>2, <1>4

(* What is found for a reference worth following is worth following.        *)
IsWorth(u) == IsRelated(u.host) /\ ~ IsNoiseReference(u)

LEMMA WorthMeans ==
  /\ \A urls : \A u \in WorthFollowing(urls) : IsWorth(u) /\ u \in urls
  /\ \A urls : \A u \in urls : IsWorth(u) => u \in WorthFollowing(urls)
BY DEF WorthFollowing, IsWorth

LEMMA CanonicalQuiet ==
  ASSUME NEW x, NEW y, x.segs = y.segs, x.slash = y.slash,
         x.query \in {y.query, CanonicalQuery(y.query)}, ~ IsNoiseReference(y)
  PROVE  ~ IsNoiseReference(x)
<1>1. FileName(x) = FileName(y) /\ PlaceholderPath(x) = PlaceholderPath(y)
  <2>1. FileName(x) = FileName(y)
    BY DEF FileName
  <2> QED
    BY <2>1 DEF PlaceholderPath
<1>2. ASSUME ~ NoiseQuery(y) PROVE ~ NoiseQuery(x)
  <2>1. CASE y.query = None
    <3>1. CanonicalQuery(y.query) = None
      BY <2>1 DEF CanonicalQuery
    <3> QED
      BY <1>1, <1>2, <2>1, <3>1 DEF NoiseQuery
  <2>2. CASE y.query # None
    <3>1. CanonicalQuery(y.query) # None /\ ~ \E pair \in y.query : ChangesState(pair)
      BY <1>2, <2>2 DEF NoiseQuery
    <3>2. CanonicalQuery(y.query) = {pair \in y.query : pair.key \notin VolatileKeys}
      BY <3>1 DEF CanonicalQuery
    <3>3. x.query # None /\ CanonicalQuery(x.query) # None
      BY <2>2, <3>1, CanonicalTwice
    <3>4. \A pair \in x.query : pair \in y.query
      <4> HIDE DEF VolatileKeys
      <4> QED
        BY <3>2
    <3> QED
      BY <3>1, <3>3, <3>4 DEF NoiseQuery
  <2> QED
    BY <2>1, <2>2
<1> QED
  BY <1>1, <1>2 DEF IsNoiseReference

LEMMA FoundIsWorth ==
  ASSUME OnePathEach, NEW u, IsUrl(u), IsWorth(u), Found(u) # None
  PROVE  Found(u) \in Archive /\ IsWorth(Found(u).url)
<1>1. PICK c : c = Found(u)
  OBVIOUS
<1>2. c \in Archive /\ (Surt(c.url) = Surt(u) \/ Surt(c.url) = Surt(Normalized(u)))
  BY <1>1 DEF Found, Answers
<1>3. IsUrl(c.url) /\ IsUrl(Normalized(u)) /\ IsRelated(c.url.host)
  BY <1>2, SiteAssumption, NormalizedShape DEF OnePathEach
<1>4. PICK v : v \in {u, Normalized(u)} /\ Surt(c.url) = Surt(v)
  BY <1>2
<1>5. /\ IsUrl(v) /\ v.segs = u.segs /\ v.slash = u.slash
      /\ v.query \in {u.query, CanonicalQuery(u.query)}
  BY <1>3, <1>4, NormalizedShape
<1>6. c.url.segs = v.segs /\ c.url.slash = v.slash /\ c.url.query = v.query
  <2>1. PICK b1, b2 : b1 = Bare(c.url.host) /\ b2 = Bare(v.host)
    OBVIOUS
  <2>2. [scheme |-> None, host |-> b1, port |-> c.url.port, segs |-> c.url.segs,
         slash |-> c.url.slash, query |-> c.url.query]
        = [scheme |-> None, host |-> b2, port |-> v.port, segs |-> v.segs,
           slash |-> v.slash, query |-> v.query]
    BY <1>3, <1>4, <1>5, <2>1, SurtShape
  <2> QED
    BY <2>2
<1>7. ~ IsNoiseReference(c.url)
  BY <1>5, <1>6, CanonicalQuiet DEF IsWorth
<1> QED
  BY <1>1, <1>2, <1>3, <1>7 DEF IsWorth

(* The names of a path that reads as it is written need no decoding.        *)
LEMMA LinkOpens ==
  ASSUME NEW from, IsPath(from), DecodedPath(from) = from, NEW to, IsPath(to)
  PROVE  ResolveLocal(from, RelativeLink(from, to)) = DecodedPath(to)
<1>1. PICK k \in 0 .. Len(to) :
        /\ k < Len(from) /\ \A i \in 1 .. k : from[i] = to[i]
        /\ ResolveLocal(from, RelativeLink(from, to)) = ReadBelow(to, k)
  BY LinkReads
<1>2. /\ Len(from) \in Nat /\ DOMAIN from = 1 .. Len(from)
      /\ Len(to) \in Nat /\ DOMAIN to = 1 .. Len(to)
  BY SequenceProperties DEF IsPath, AreNames
<1>3. ASSUME NEW i \in DOMAIN to
      PROVE  (IF i <= k THEN to[i] ELSE DecodedName(to[i])) = DecodedName(to[i])
  <2>1. CASE i <= k
    <3>1. i \in 1 .. k /\ i \in DOMAIN from
      BY <1>1, <1>2, <2>1
    <3>2. DecodedPath(from)[i] = DecodedName(from[i])
      BY <3>1 DEF DecodedPath
    <3>3. from[i] = to[i]
      BY <1>1, <3>1
    <3> QED
      BY <3>2, <3>3
  <2> QED
    BY <2>1
<1> QED
  BY <1>1, <1>3 DEF DecodedPath, ReadBelow

(* What is known says nothing while nothing is known.                       *)
LEMMA NothingKnown ==
  ASSUME NEW u
  PROVE  KnownPath(u, <<>>) = None
<1>1. PICK table : table = <<>>
  OBVIOUS
<1>2. DOMAIN table = {}
  BY <1>1
<1>3. PathsKnown(table)
  BY <1>2 DEF PathsKnown
<1> QED
  BY <1>1, <1>2, <1>3, KnownPathShape

(* The links of a saved page: one that is left absolute is not worth        *)
(* following; one that opens an archived page opens a known one, or that it *)
(* refers to; what is guessed from the others leads back.                   *)
LEMMA SavedOpens ==
  ASSUME OnePathEach, LinksAreClear, TInv, KnownInv, NEW c \in Archive,
         NEW link \in Saved(c, PathOf(c), known).links
  PROVE  /\ link.ref.kind = "absolute" => ~ IsWorth(link.ref.url)
         /\ ResolveLocal(PathOf(c), link.ref) \in CapturePaths =>
              ResolveLocal(PathOf(c), link.ref) \in
                PrimaryPaths \cup Referenced(c) \cup {known[k] : k \in DOMAIN known}
         /\ link.ref.kind = "local" =>
              LeadsBack(ResolveLocal(PathOf(c), link.ref), link.ref.query)
<1>1. PICK p : p = PathOf(c)
  OBVIOUS
<1>2. PICK was \in c.links : link.ref = Rewrite(c.url, p, was.ref, was.kind, known)
  BY <1>1 DEF Saved
<1>3. PICK u : u = Join(c.url, was.ref)
  OBVIOUS
<1>4. IsUrl(u) /\ IsPath(p) /\ DecodedPath(p) = p /\ IsUrl(c.url) /\ IsReference(was.ref)
  BY <1>1, <1>3, SiteAssumption, JoinShape, PathsOfCaptures DEF OnePathEach
<1>5. PICK target, blind :
        /\ target = LinkTarget(c.url, u, was.kind, known)
        /\ blind = LinkTarget(c.url, u, was.kind, <<>>)
  OBVIOUS
<1>6. link.ref = IF target = None THEN was.ref ELSE RelativeLink(p, target)
  BY <1>2, <1>3, <1>5 DEF Rewrite
<1>7. PICK open : open = OpenedUnknown(c, was)
  OBVIOUS
<1>8. /\ open = IF blind = None THEN ResolveLocal(p, was.ref) ELSE DecodedPath(blind)
      /\ open \in CapturePaths => open \in PrimaryPaths \cup Referenced(c)
      /\ LeadsBack(open, IF blind = None /\ was.ref.kind = "local" THEN was.ref.query ELSE None)
      /\ \A e \in Archive, key \in {Normalized(u)} \cup Spellings(u) :
           Surt(Normalized(e.url)) = Surt(key) => LeadsBack(PathOf(e), None)
  <2>1. open = IF blind = None THEN ResolveLocal(p, was.ref) ELSE DecodedPath(blind)
    BY <1>1, <1>3, <1>5, <1>7 DEF OpenedUnknown
  <2> QED
    BY <1>3, <1>5, <1>7, <2>1 DEF LinksAreClear
<1>9. blind = IF IsNoiseReference(u) \/ ~ IsRelated(u.host) THEN None
              ELSE LocalPath(u, GuessedType(c.url, u, was.kind))
  BY <1>5, NothingKnown DEF LinkTarget
<1>10. target = IF KnownPath(u, known) # None THEN KnownPath(u, known) ELSE blind
  BY <1>5, <1>9 DEF LinkTarget
<1>11. ASSUME NEW to, IsPath(to), link.ref = RelativeLink(p, to)
       PROVE  /\ ResolveLocal(p, link.ref) = DecodedPath(to)
              /\ link.ref.kind = "local" /\ link.ref.query = None
  BY <1>4, <1>11, LinkOpens DEF RelativeLink, Local
<1>12. CASE KnownPath(u, known) # None
  <2>1. PICK k \in DOMAIN known, e \in Archive :
          /\ KnownPath(u, known) = known[k] /\ known[k] = PathOf(e)
          /\ k \in {Normalized(u)} \cup Spellings(u)
          /\ StandsFor(k, e)
    BY <1>4, <1>12, KnownPathRight DEF StandsFor
  <2>2. e \in Archive /\ IsPath(PathOf(e)) /\ DecodedPath(PathOf(e)) = PathOf(e)
    BY <2>1, PathsOfCaptures DEF StandsFor, OnePathEach
  <2>3. target = PathOf(e) /\ target # None
    BY <1>10, <1>12, <2>1
  <2>4. link.ref = RelativeLink(p, PathOf(e))
    BY <1>6, <2>3
  <2>5. /\ ResolveLocal(p, link.ref) = known[k]
        /\ link.ref.kind = "local" /\ link.ref.query = None
    BY <1>11, <2>1, <2>2, <2>4
  <2>6. LeadsBack(PathOf(e), None)
    BY <1>8, <2>1 DEF StandsFor
  <2> QED
    BY <1>1, <2>1, <2>5, <2>6
<1>13. CASE KnownPath(u, known) = None /\ blind # None
  <2>1. IsPath(blind) /\ target = blind
    BY <1>4, <1>9, <1>10, <1>13, LocalPathShape
  <2>2. link.ref = RelativeLink(p, blind)
    BY <1>6, <1>13, <2>1
  <2>3. /\ ResolveLocal(p, link.ref) = open
        /\ link.ref.kind = "local" /\ link.ref.query = None
    BY <1>8, <1>11, <1>13, <2>1, <2>2
  <2> QED
    BY <1>1, <1>8, <1>13, <2>3
<1>14. CASE KnownPath(u, known) = None /\ blind = None
  <2>1. link.ref = was.ref /\ open = ResolveLocal(p, link.ref)
    BY <1>6, <1>8, <1>10, <1>14
  <2>2. IsNoiseReference(u) \/ ~ IsRelated(u.host)
    <3>1. LocalPath(u, GuessedType(c.url, u, was.kind)) # None
      BY <1>3, PathsAssumption DEF GuessedPath
    <3> QED
      BY <1>9, <1>14, <3>1
  <2>3. link.ref.kind = "absolute" => ~ IsWorth(link.ref.url)
    BY <1>3, <2>1, <2>2 DEF Join, IsWorth
  <2> QED
    BY <1>1, <1>8, <1>14, <2>1, <2>3
<1> QED
  BY <1>12, <1>13, <1>14

-----------------------------------------------------------------------------
(* What is in hand is right: references worth following, and jobs and       *)
(* entries of the journal at the captures' own paths.                       *)
LEMMA PathOfKey ==
  ASSUME OnePathEach, NEW c \in Archive, NEW e \in Archive, Normalized(e.url) = Normalized(c.url)
  PROVE  PathOf(e) = PathOf(c)
BY DEF OnePathEach

LEMMA OwnUrlFound ==
  ASSUME OnePathEach, NEW c \in Archive
  PROVE  Found(c.url) # None /\ PathOf(Found(c.url)) = PathOf(c)
<1>1. IsUrl(c.url)
  BY SiteAssumption
<1>2. StandsFor(Normalized(c.url), c)
  BY <1>1, NormalizedTwice DEF StandsFor
<1> QED
  BY <1>1, <1>2, StandingIsFound

LEMMA PrimaryJobsRight ==
  ASSUME OnePathEach
  PROVE  \A i \in DOMAIN PrimaryJobs : PrimaryJobs[i].path = PathOf(PrimaryJobs[i].record)
<1> DEFINE N == Len(Records)
           RightJobs == {job \in PossibleJobs : job.path = PathOf(job.record)}
           T == Seq(RightJobs)
<1>1. N \in Nat /\ \A k \in 1 .. N : Records[k] \in Archive /\ k \in DOMAIN Records
  BY RecordsAreArchived
<1>2. ASSUME NEW s \in T, NEW k \in 1 .. N PROVE AddJob(s, Records[k]) \in T
  <2>1. PICK path : path = ListedPaths[Normalized(Records[k].url)]
    OBVIOUS
  <2>2. PICK e \in Archive : path = PathOf(e) /\ Normalized(e.url) = Normalized(Records[k].url)
    BY <1>1, <2>1, ListedPathsProperties
  <2>3. path = PathOf(Records[k])
    BY <1>1, <2>2, PathOfKey
  <2>4. Job(Records[k], path) \in RightJobs
    BY <1>1, <2>3 DEF Job, PossibleJobs
  <2> HIDE DEF RightJobs
  <2>5. Append(s, Job(Records[k], path)) \in T
    BY <2>4
  <2> QED
    BY <2>1, <2>5 DEF AddJob
<1>3. SelectedJobs[0] \in T
  BY JobsAreSelected
<1>4. \A k \in 1 .. N : SelectedJobs[k - 1] \in T => SelectedJobs[k] \in T
  BY <1>2, JobsAreSelected
<1>5. \A k \in 0 .. N : SelectedJobs[k] \in T
  <2> HIDE DEF N, T
  <2> QED
    BY <1>1, <1>3, <1>4, RecursionStays
<1>6. PrimaryJobs \in T
  BY <1>1, <1>5 DEF PrimaryJobs
<1> QED
  BY <1>6

(* Every listed path has a job.                                             *)
LEMMA ListedPathsArePrimary ==
  /\ \A k \in DOMAIN ListedPaths : ListedPaths[k] \in PrimaryPaths
  /\ \A i \in DOMAIN Records : ListedPaths[Normalized(Records[i].url)] \in PrimaryPaths
<1> DEFINE N == Len(Records)
           path(i) == ListedPaths[Normalized(Records[i].url)]
           Has(s, i) == \E j \in DOMAIN s : s[j].path = path(i)
           S == {k \in 0 .. N : \A i \in 1 .. k : Has(SelectedJobs[k], i)}
<1>1. N \in Nat /\ DOMAIN Records = 1 .. N
  BY RecordsAreArchived
<1>2. ASSUME NEW s \in Seq(PossibleJobs), NEW c
      PROVE  /\ \A i : Has(s, i) => Has(AddJob(s, c), i)
             /\ \E j \in DOMAIN AddJob(s, c) : AddJob(s, c)[j].path = ListedPaths[Normalized(c.url)]
  <2>1. PICK new : new = ListedPaths[Normalized(c.url)]
    OBVIOUS
  <2>2. PICK all : all = AddJob(s, c)
    OBVIOUS
  <2>3. all = IF \E i \in DOMAIN s : s[i].path = new THEN s ELSE Append(s, Job(c, new))
    BY <2>1, <2>2 DEF AddJob
  <2>4. /\ \A j \in DOMAIN s : j \in DOMAIN all /\ all[j] = s[j]
        /\ \E j \in DOMAIN all : all[j].path = new
    <3>1. CASE \E i \in DOMAIN s : s[i].path = new
      BY <2>3, <3>1
    <3>2. CASE ~ \E i \in DOMAIN s : s[i].path = new
      <4>1. all = Append(s, Job(c, new)) /\ Len(s) \in Nat
        BY <2>3, <3>2
      <4>2. /\ DOMAIN all = 1 .. Len(s) + 1 /\ DOMAIN s = 1 .. Len(s)
            /\ all[Len(s) + 1] = Job(c, new) /\ \A j \in 1 .. Len(s) : all[j] = s[j]
        BY <4>1
      <4>3. Job(c, new).path = new
        BY DEF Job
      <4> QED
        BY <4>1, <4>2, <4>3
    <3> QED
      BY <3>1, <3>2
  <2> QED
    BY <2>1, <2>2, <2>4
<1>3. 0 \in S
  BY <1>1
<1>4. ASSUME NEW k \in 0 .. N - 1, k \in S PROVE k + 1 \in S
  <2>1. k + 1 \in 1 .. N /\ (k + 1) - 1 = k /\ k \in 0 .. N
    BY <1>1
  <2>2. /\ SelectedJobs[k + 1] = AddJob(SelectedJobs[k], Records[k + 1])
        /\ SelectedJobs[k] \in Seq(PossibleJobs)
    BY <2>1, JobsAreSelected
  <2>3. \A i \in 1 .. k : Has(SelectedJobs[k], i)
    BY <1>4
  <2> HIDE DEF Has
  <2>4. \A i \in 1 .. k : Has(SelectedJobs[k + 1], i)
    BY <1>2, <2>2, <2>3
  <2>5. Has(SelectedJobs[k + 1], k + 1)
    <3>1. \E j \in DOMAIN AddJob(SelectedJobs[k], Records[k + 1]) :
            AddJob(SelectedJobs[k], Records[k + 1])[j].path
              = ListedPaths[Normalized(Records[k + 1].url)]
      BY <1>2, <2>2
    <3> QED
      BY <2>2, <3>1 DEF Has
  <2>6. \A i \in 1 .. k + 1 : i \in 1 .. k \/ i = k + 1
    BY <2>1
  <2> QED
    BY <2>1, <2>4, <2>5, <2>6
<1> HIDE DEF S
<1>5. \A k \in 0 .. N : k \in S
  <2> HIDE DEF N
  <2> QED
    BY <1>1, <1>3, <1>4, InductionUpTo
<1>6. ASSUME NEW i \in 1 .. N PROVE path(i) \in PrimaryPaths
  <2>0. N \in S
    BY <1>1, <1>5
  <2>1. Has(PrimaryJobs, i)
    <3>1. \A m \in 1 .. N : Has(SelectedJobs[N], m)
      BY <2>0 DEF S
    <3> HIDE DEF Has
    <3> QED
      BY <3>1 DEF PrimaryJobs
  <2> QED
    BY <2>1 DEF PrimaryPaths
<1>7. DOMAIN ListedPaths = {Normalized(Records[i].url) : i \in DOMAIN Records}
  BY DEF ListedPaths, RecordsToPaths
<1> QED
  BY <1>1, <1>6, <1>7

LEMMA ListedOriginalRight ==
  ASSUME OnePathEach, NEW path, ListedOriginal(path) # None
  PROVE  \E c \in Archive : ListedOriginal(path) = c.url /\ PathOf(c) = path /\ path \in PrimaryPaths
<1> DEFINE at == {i \in DOMAIN Records : PathOf(Records[i]) = path}
           first == CHOOSE i \in at : \A j \in at : i <= j
<1>1. at # {} /\ ListedOriginal(path) = Records[first].url
  BY DEF ListedOriginal
<1>2. at \in SUBSET Nat
  BY RecordsAreArchived
<1> HIDE DEF at
<1>3. \E i \in at : \A j \in at : i <= j
  BY <1>1, <1>2, LeastNumber
<1>4. first \in at
  BY <1>3
<1> HIDE DEF first
<1>5. first \in DOMAIN Records /\ PathOf(Records[first]) = path
  BY <1>4 DEF at
<1>6. Records[first] \in Archive
  BY <1>5, RecordsAreArchived
<1>7. PICK e \in Archive : /\ ListedPaths[Normalized(Records[first].url)] = PathOf(e)
                           /\ Normalized(e.url) = Normalized(Records[first].url)
  BY <1>5, ListedPathsProperties
<1>8. PathOf(e) = path
  BY <1>5, <1>6, <1>7, PathOfKey
<1>9. path \in PrimaryPaths
  BY <1>5, <1>7, <1>8, ListedPathsArePrimary
<1> QED
  BY <1>1, <1>5, <1>6, <1>9

Running == {"jobs", "recording", "waves", "resolving"}
IsRightAt(c, path) == path = PathOf(c) /\ (path \in PrimaryPaths \/ IsWorth(c.url))
Journalled == {p \in Places : evidence[p] # None}

RefsRight == \A u \in refs \cup pending : IsWorth(u)
JobsRight == \A i \in DOMAIN jobs : IsRightAt(jobs[i].record, jobs[i].path) /\ jobs[i].path \in seen
SeenRight ==
  /\ seen \subseteq Places
  /\ \A k \in DOMAIN known : known[k] \in seen
  /\ phase \in DownloadPhases /\ pass # "repair" => PrimaryPaths \subseteq seen
EntriesRight == \A p \in Journalled : IsRightAt(evidence[p], p)
PendingRight == phase # "resolving" => pending = {}

HandInv == RefsRight /\ JobsRight /\ SeenRight /\ EntriesRight /\ PendingRight

LEMMA RefsStayRight == RefsRight /\ [Next]_vars => RefsRight'
<1> SUFFICES ASSUME RefsRight, [Next]_vars PROVE RefsRight'
  OBVIOUS
<1>1. ASSUME refs' \subseteq refs, pending' \subseteq pending PROVE RefsRight'
  BY <1>1 DEF RefsRight
<1>2. CASE StartDownload \/ StartOutputRepair \/ StartRepair \/ Kill \/ KillWhileCopying
  BY <1>1, <1>2 DEF StartDownload, StartOutputRepair, StartRepair, Kill, KillWhileCopying, Forget
<1>3. CASE Cancel \/ CancelledJob \/ MissedJob \/ StoreFile \/ JobsEnd
  BY <1>1, <1>3 DEF Cancel, CancelledJob, MissedJob, StoreFile, JobsEnd, processVars
<1>4. CASE SkippedJob
  <2>1. refs' = refs \cup ResumedReferences(Current.path) /\ UNCHANGED pending
    BY <1>4 DEF SkippedJob
  <2>2. \A u \in ResumedReferences(Current.path) : IsWorth(u)
    BY WorthMeans DEF ResumedReferences
  <2> QED
    BY <2>1, <2>2 DEF RefsRight
<1>5. CASE RecordFile
  <2>1. refs' = refs \cup References(Current.record) /\ UNCHANGED pending
    BY <1>5 DEF RecordFile
  <2>2. \A u \in References(Current.record) : IsWorth(u)
    BY WorthMeans DEF References, RelatedReferences
  <2> QED
    BY <2>1, <2>2 DEF RefsRight
<1>6. CASE NextWave
  <2>1. /\ refs' = {}
        /\ pending' = {CHOOSE u \in Unchecked : Normalized(u) = key :
                         key \in {Normalized(u) : u \in Unchecked}}
    BY <1>6 DEF NextWave
  <2>2. ASSUME NEW w \in pending' PROVE w \in refs
    BY <2>1 DEF Unchecked
  <2> QED
    BY <2>1, <2>2 DEF RefsRight
<1>7. CASE ResolveReference \/ WaveResolved \/ WavesEnd \/ MakeAlias \/ AliasesEnd
  BY <1>1, <1>7 DEF ResolveReference, WaveResolved, WavesEnd, MakeAlias, AliasesEnd, processVars
<1>8. CASE RepairFile \/ RepairEnds \/ UNCHANGED vars
  BY <1>1, <1>8 DEF RepairFile, RepairEnds, vars, processVars
<1> QED
  BY <1>2, <1>3, <1>4, <1>5, <1>6, <1>7, <1>8 DEF Next

LEMMA TailJobs ==
  ASSUME TInv, jobs # <<>>, jobs' = Tail(jobs), NEW i \in DOMAIN jobs'
  PROVE  \E j \in DOMAIN jobs : jobs'[i] = jobs[j]
<1>1. jobs \in Seq(PossibleJobs) /\ Len(jobs) \in Nat /\ Len(jobs) > 0
  BY DEF TInv, JobsTyped
<1>2. i \in 1 .. Len(jobs) - 1 /\ jobs'[i] = jobs[i + 1]
  BY <1>1
<1>3. i + 1 \in DOMAIN jobs
  BY <1>1, <1>2
<1> QED
  BY <1>2, <1>3

LEMMA CurrentRight ==
  ASSUME TInv, JobsRight, jobs # <<>>
  PROVE  IsRightAt(Current.record, Current.path) /\ Current.path \in seen
<1>1. 1 \in DOMAIN jobs /\ Current = jobs[1]
  BY DEF TInv, JobsTyped, Current
<1> QED
  BY <1>1 DEF JobsRight

(* What becomes of the next reference of a wave.                            *)
LEMMA Resolving ==
  ASSUME TInv, RefsTyped, HandInv, ResolveReference
  PROVE  \E u \in pending :
           /\ IsUrl(u) /\ IsWorth(u) /\ pending' = pending \ {u}
           /\ \/ KnownPath(u, known) # None /\ UNCHANGED <<known, seen, jobs>>
              \/ Found(u) = None /\ UNCHANGED <<known, seen, jobs>>
              \/ /\ Found(u) # None
                 /\ known' = [k \in DOMAIN known \cup {Normalized(u), Normalized(Found(u).url)} |->
                                IF k \in {Normalized(u), Normalized(Found(u).url)}
                                THEN PathOf(Found(u)) ELSE known[k]]
                 /\ seen' = seen \cup {PathOf(Found(u))}
                 /\ jobs' = IF PathOf(Found(u)) \in seen THEN jobs
                            ELSE Append(jobs, Job(Found(u), PathOf(Found(u))))
           /\ UNCHANGED <<phase, pass, refs, checked, shelf, cancelled, gaps, diskVars,
                          incidents, runs>>
<1>1. PICK u : u = CHOOSE v \in pending : TRUE
  OBVIOUS
<1>2. u \in pending /\ IsUrl(u) /\ IsWorth(u)
  BY <1>1 DEF ResolveReference, RefsTyped, HandInv, RefsRight
<1>3. PICK c : c = Found(u)
  OBVIOUS
<1>4. PICK learnt : learnt = {Normalized(u), Normalized(c.url)}
  OBVIOUS
<1>5. /\ pending' = pending \ {u}
      /\ IF KnownPath(u, known) # None \/ c = None THEN UNCHANGED <<known, seen, jobs>>
         ELSE /\ known' = [k \in DOMAIN known \cup learnt |->
                             IF k \in learnt THEN PathOf(c) ELSE known[k]]
              /\ seen' = seen \cup {PathOf(c)}
              /\ jobs' = IF PathOf(c) \in seen THEN jobs ELSE Append(jobs, Job(c, PathOf(c)))
  BY <1>1, <1>3, <1>4 DEF ResolveReference
<1>6. UNCHANGED <<phase, pass, refs, checked, shelf, cancelled, gaps, diskVars, incidents, runs>>
  BY DEF ResolveReference
<1> QED
  BY <1>2, <1>3, <1>4, <1>5, <1>6

LEMMA JobsStayRight ==
  ASSUME OnePathEach
  PROVE  TInv /\ RefsTyped /\ HandInv /\ [Next]_vars => JobsRight'
<1> SUFFICES ASSUME TInv, RefsTyped, HandInv, [Next]_vars PROVE JobsRight'
  OBVIOUS
<1>1. ASSUME UNCHANGED <<jobs, seen>> PROVE JobsRight'
  BY <1>1 DEF HandInv, JobsRight
<1>2. ASSUME jobs' = <<>> PROVE JobsRight'
  BY <1>2 DEF JobsRight
<1>3. CASE StartDownload
  <2>1. jobs' = PrimaryJobs /\ seen' = PrimaryPaths
    BY <1>3 DEF StartDownload
  <2>2. \A i \in DOMAIN PrimaryJobs : PrimaryJobs[i].path \in PrimaryPaths
    BY DEF PrimaryPaths
  <2> QED
    BY <2>1, <2>2, PrimaryJobsRight DEF JobsRight, IsRightAt
<1>4. CASE StartOutputRepair \/ StartRepair \/ Kill \/ KillWhileCopying
  BY <1>2, <1>4 DEF StartOutputRepair, StartRepair, Kill, KillWhileCopying, Forget
<1>5. CASE CancelledJob \/ SkippedJob \/ MissedJob \/ RecordFile
  <2>1. jobs # <<>> /\ jobs' = Tail(jobs) /\ UNCHANGED seen
    BY <1>5 DEF CancelledJob, SkippedJob, MissedJob, RecordFile, Downloading, TInv, JobsTyped
  <2>2. \A i \in DOMAIN jobs' : \E j \in DOMAIN jobs : jobs'[i] = jobs[j]
    BY <2>1, TailJobs
  <2> QED
    BY <2>1, <2>2 DEF HandInv, JobsRight
<1>6. CASE Cancel \/ StoreFile \/ JobsEnd \/ NextWave \/ WaveResolved \/ WavesEnd \/ MakeAlias
  BY <1>1, <1>6 DEF Cancel, StoreFile, JobsEnd, NextWave, WaveResolved, WavesEnd, MakeAlias,
                    processVars
<1>7. CASE AliasesEnd \/ RepairFile \/ RepairEnds \/ UNCHANGED vars
  BY <1>1, <1>7 DEF AliasesEnd, RepairFile, RepairEnds, vars, processVars
<1>8. CASE ResolveReference
  <2>1. PICK u \in pending :
          /\ IsUrl(u) /\ IsWorth(u)
          /\ \/ UNCHANGED <<known, seen, jobs>>
             \/ /\ Found(u) # None /\ seen' = seen \cup {PathOf(Found(u))}
                /\ jobs' = IF PathOf(Found(u)) \in seen THEN jobs
                           ELSE Append(jobs, Job(Found(u), PathOf(Found(u))))
    BY <1>8, Resolving
  <2>2. CASE UNCHANGED jobs
    BY <2>1, <2>2 DEF HandInv, JobsRight
  <2>3. CASE Found(u) # None /\ seen' = seen \cup {PathOf(Found(u))}
             /\ jobs' = Append(jobs, Job(Found(u), PathOf(Found(u))))
    <3>1. PICK c : c = Found(u)
      OBVIOUS
    <3>2. IsRightAt(c, PathOf(c))
      BY <2>1, <2>3, <3>1, FoundIsWorth DEF IsRightAt
    <3>3. jobs \in Seq(PossibleJobs)
      BY DEF TInv, JobsTyped
    <3>4. \A i \in DOMAIN jobs' : \/ i \in DOMAIN jobs /\ jobs'[i] = jobs[i]
                                \/ jobs'[i] = Job(c, PathOf(c))
      BY <2>3, <3>1, <3>3
    <3>5. Job(c, PathOf(c)).record = c /\ Job(c, PathOf(c)).path = PathOf(c)
      BY DEF Job
    <3> QED
      BY <2>3, <3>1, <3>2, <3>4, <3>5 DEF HandInv, JobsRight
  <2> QED
    BY <1>1, <2>1, <2>2, <2>3
<1> QED
  BY <1>3, <1>4, <1>5, <1>6, <1>7, <1>8 DEF Next

LEMMA SeenStaysRight == TInv /\ RefsTyped /\ ArrivalInv /\ HandInv /\ [Next]_vars => SeenRight'
<1> SUFFICES ASSUME TInv, RefsTyped, ArrivalInv, HandInv, [Next]_vars PROVE SeenRight'
  OBVIOUS
<1> USE DEF DownloadPhases
<1>1. ASSUME UNCHANGED <<known, seen>>,
             phase' \in DownloadPhases /\ pass' # "repair"
               => phase \in DownloadPhases /\ pass # "repair"
      PROVE  SeenRight'
  BY <1>1 DEF HandInv, SeenRight
<1>2. CASE StartDownload
  <2>1. known' = ListedPaths /\ seen' = PrimaryPaths
    BY <1>2 DEF StartDownload
  <2> QED
    BY <2>1, ListedPathsArePrimary DEF SeenRight, Places
<1>3. CASE StartOutputRepair \/ StartRepair \/ Kill \/ KillWhileCopying
  <2>1. known' = <<>> /\ seen' = {}
    BY <1>3 DEF StartOutputRepair, StartRepair, Kill, KillWhileCopying, Forget
  <2>2. phase' \notin DownloadPhases \/ pass' = "repair"
    BY <1>3 DEF StartOutputRepair, StartRepair, Kill, KillWhileCopying
  <2> QED
    BY <2>1, <2>2 DEF SeenRight
<1>4. CASE Cancel
  BY <1>1, <1>4 DEF Cancel
<1>5. CASE CancelledJob \/ SkippedJob \/ MissedJob \/ StoreFile \/ RecordFile \/ JobsEnd
  BY <1>1, <1>5 DEF CancelledJob, SkippedJob, MissedJob, StoreFile, RecordFile, JobsEnd,
                    Downloading, processVars
<1>6. CASE NextWave
  BY <1>1, <1>6 DEF NextWave, ArrivalInv, PassInv
<1>7. CASE WaveResolved \/ WavesEnd
  BY <1>1, <1>7 DEF WaveResolved, WavesEnd
<1>8. CASE MakeAlias
  BY <1>1, <1>8 DEF MakeAlias, processVars
<1>9. CASE AliasesEnd
  BY <1>1, <1>9 DEF AliasesEnd
<1>10. CASE RepairFile \/ RepairEnds
  BY <1>1, <1>10 DEF RepairFile, RepairEnds, processVars
<1>11. CASE UNCHANGED vars
  BY <1>1, <1>11 DEF vars, processVars
<1>12. CASE ResolveReference
  <2>1. PICK u \in pending :
          \/ UNCHANGED <<known, seen>>
          \/ /\ Found(u) # None
             /\ known' = [k \in DOMAIN known \cup {Normalized(u), Normalized(Found(u).url)} |->
                            IF k \in {Normalized(u), Normalized(Found(u).url)}
                            THEN PathOf(Found(u)) ELSE known[k]]
             /\ seen' = seen \cup {PathOf(Found(u))}
    BY <1>12, Resolving
  <2>2. UNCHANGED <<phase, pass>>
    BY <1>12 DEF ResolveReference
  <2>3. CASE UNCHANGED <<known, seen>>
    BY <1>1, <2>2, <2>3
  <2>4. CASE Found(u) # None /\ ~ UNCHANGED <<known, seen>>
    <3>1. PathOf(Found(u)) \in Places
      BY <2>4, FoundIsArchived, PathsOfCaptures
    <3>2. PICK path, learnt : /\ path = PathOf(Found(u))
                              /\ learnt = {Normalized(u), Normalized(Found(u).url)}
      OBVIOUS
    <3>3. known' = [k \in DOMAIN known \cup learnt |-> IF k \in learnt THEN path ELSE known[k]]
      BY <2>1, <2>4, <3>2
    <3>4. ASSUME NEW k \in DOMAIN known'
          PROVE  known'[k] = path \/ (k \in DOMAIN known /\ known'[k] = known[k])
      BY <3>3
    <3> QED
      BY <2>1, <2>2, <2>4, <3>1, <3>2, <3>4 DEF HandInv, SeenRight
  <2> QED
    BY <2>1, <2>3, <2>4
<1> QED
  BY <1>2, <1>3, <1>4, <1>5, <1>6, <1>7, <1>8, <1>9, <1>10, <1>11, <1>12 DEF Next

(* The journal only grows: an entry is written for the file it names.       *)
LEMMA JournalGrows ==
  ASSUME TInv, IInv, [Next]_vars
  PROVE  /\ \A p \in Places : evidence[p] # None => evidence'[p] = evidence[p]
         /\ ~ RecordFile => UNCHANGED evidence
         /\ RecordFile => /\ jobs # <<>> /\ Current.path \in Places
                          /\ evidence'[Current.path] = Current.record
                          /\ \A p \in Places : p # Current.path => evidence'[p] = evidence[p]
<1>1. ASSUME RecordFile
      PROVE  /\ jobs # <<>> /\ Current.path \in Places
             /\ evidence'[Current.path] = Current.record
             /\ \A p \in Places : p # Current.path => evidence'[p] = evidence[p]
  <2>1. jobs # <<>> /\ evidence' = [evidence EXCEPT ![Current.path] = Current.record]
    BY <1>1 DEF RecordFile, TInv, JobsTyped
  <2>2. Current.path \in Places /\ DOMAIN evidence = Places
    BY <2>1, CurrentTyped DEF IInv
  <2> QED
    BY <2>1, <2>2
<1>2. ASSUME ~ RecordFile PROVE UNCHANGED evidence
  <2>1. CASE StartDownload \/ StartOutputRepair \/ StartRepair \/ Cancel \/ Kill
    BY <2>1 DEF StartDownload, StartOutputRepair, StartRepair, Cancel, Kill, diskVars
  <2>2. CASE CancelledJob \/ SkippedJob \/ MissedJob \/ StoreFile \/ JobsEnd
    BY <2>2 DEF CancelledJob, SkippedJob, MissedJob, StoreFile, JobsEnd, diskVars
  <2>3. CASE NextWave \/ ResolveReference \/ WaveResolved \/ WavesEnd \/ AliasesEnd
    BY <2>3 DEF NextWave, ResolveReference, WaveResolved, WavesEnd, AliasesEnd, diskVars
  <2>4. CASE MakeAlias \/ KillWhileCopying \/ RepairFile \/ RepairEnds \/ UNCHANGED vars
    BY <2>4 DEF MakeAlias, KillWhileCopying, RepairFile, RepairEnds, vars, diskVars
  <2> QED
    BY <1>2, <2>1, <2>2, <2>3, <2>4 DEF Next
<1>3. ASSUME RecordFile, evidence[Current.path] # None
      PROVE  evidence[Current.path] = Current.record
  BY <1>1, <1>3 DEF RecordFile, IInv, EvidenceHolds, AboutToRecord
<1> QED
  BY <1>1, <1>2, <1>3

LEMMA EntriesStayRight == TInv /\ IInv /\ HandInv /\ [Next]_vars => EntriesRight'
<1> SUFFICES ASSUME TInv, IInv, HandInv, [Next]_vars PROVE EntriesRight'
  OBVIOUS
<1>1. CASE ~ RecordFile
  BY <1>1, JournalGrows DEF HandInv, EntriesRight, Journalled
<1>2. CASE RecordFile
  <2>1. /\ jobs # <<>> /\ evidence'[Current.path] = Current.record
        /\ \A p \in Places : p # Current.path => evidence'[p] = evidence[p]
    BY <1>2, JournalGrows
  <2>2. IsRightAt(Current.record, Current.path)
    BY <2>1, CurrentRight DEF HandInv
  <2>3. ASSUME NEW p \in Places, evidence'[p] # None PROVE IsRightAt(evidence'[p], p)
    BY <2>1, <2>2, <2>3 DEF HandInv, EntriesRight, Journalled
  <2> QED
    BY <2>3 DEF EntriesRight, Journalled
<1> QED
  BY <1>1, <1>2

LEMMA PendingStaysRight == PendingRight /\ [Next]_vars => PendingRight'
<1> SUFFICES ASSUME PendingRight, [Next]_vars PROVE PendingRight'
  OBVIOUS
<1> USE DEF PendingRight
<1>1. CASE StartDownload \/ StartOutputRepair \/ StartRepair \/ Kill \/ KillWhileCopying
  BY <1>1 DEF StartDownload, StartOutputRepair, StartRepair, Kill, KillWhileCopying, Forget
<1>2. CASE Cancel \/ CancelledJob \/ SkippedJob \/ MissedJob \/ StoreFile
  BY <1>2 DEF Cancel, CancelledJob, SkippedJob, MissedJob, StoreFile, Downloading, processVars
<1>3. CASE RecordFile \/ JobsEnd \/ NextWave \/ ResolveReference \/ WaveResolved
  BY <1>3 DEF RecordFile, JobsEnd, NextWave, ResolveReference, WaveResolved
<1>4. CASE WavesEnd \/ MakeAlias \/ AliasesEnd
  BY <1>4 DEF WavesEnd, MakeAlias, AliasesEnd, processVars
<1>5. CASE RepairFile \/ RepairEnds \/ UNCHANGED vars
  BY <1>5 DEF RepairFile, RepairEnds, vars, processVars
<1> QED
  BY <1>1, <1>2, <1>3, <1>4, <1>5 DEF Next

LEMMA HandStays ==
  ASSUME OnePathEach
  PROVE  TInv /\ IInv /\ ArrivalInv /\ RefsTyped /\ HandInv /\ [Next]_vars => HandInv'
BY RefsStayRight, JobsStayRight, SeenStaysRight, EntriesStayRight, PendingStaysRight DEF HandInv

-----------------------------------------------------------------------------
(* What the kept files tell. The URLs that are guessed from the links of a  *)
(* file lead where the links do, unless the file they open is there.        *)
FileGuesses(p, file, files) ==
  \A link \in file.links :
    link.ref.kind = "local" => \/ ResolveLocal(p, link.ref) \in files
                               \/ LeadsBack(ResolveLocal(p, link.ref), link.ref.query)
GuessInv == \A p \in DOMAIN disk : FileGuesses(p, disk[p], DOMAIN disk)

(* A page that is just stored leads to what was seen or what it refers to.  *)
FreshLink(page, path, link, paths) ==
  /\ link.ref.kind = "absolute" => ~ IsWorth(link.ref.url)
  /\ ResolveLocal(path, link.ref) \in CapturePaths =>
       ResolveLocal(path, link.ref) \in paths \cup Referenced(page)
FreshInv ==
  phase = "recording" =>
    \A link \in disk[Current.path].links : FreshLink(Current.record, Current.path, link, seen)

LEMMA StoredPage ==
  ASSUME OnePathEach, LinksAreClear, TInv, PassInv, KnownInv, HandInv, StoreFile
  PROVE  LET file == Saved(Current.record, Current.path, known)
         IN  /\ jobs # <<>> /\ phase = "jobs" /\ phase' = "recording"
             /\ Current.record \in Archive /\ Current.path = PathOf(Current.record)
             /\ Current.path \in seen
             /\ disk' = Put(Current.path, file)
             /\ FileGuesses(Current.path, file, DOMAIN disk)
             /\ \A link \in file.links : FreshLink(Current.record, Current.path, link, seen)
<1>1. PICK file : file = Saved(Current.record, Current.path, known)
  OBVIOUS
<1>2. jobs # <<>> /\ phase = "jobs" /\ phase' = "recording" /\ disk' = Put(Current.path, file)
  BY <1>1 DEF StoreFile, Downloading
<1>3. /\ Current.record \in Archive /\ Current.path = PathOf(Current.record)
      /\ Current.path \in seen
  BY <1>2, CurrentTyped, CurrentRight DEF IsRightAt, HandInv
<1>4. PrimaryPaths \subseteq seen /\ \A k \in DOMAIN known : known[k] \in seen
  BY <1>2 DEF HandInv, SeenRight, PassInv, DownloadPhases
<1>5. ASSUME NEW link \in file.links
      PROVE  /\ FreshLink(Current.record, Current.path, link, seen)
             /\ link.ref.kind = "local" =>
                  LeadsBack(ResolveLocal(Current.path, link.ref), link.ref.query)
  <2>1. PICK c : c = Current.record
    OBVIOUS
  <2>2. c \in Archive /\ link \in Saved(c, PathOf(c), known).links /\ Current.path = PathOf(c)
    BY <1>1, <1>3, <2>1
  <2>3. /\ link.ref.kind = "absolute" => ~ IsWorth(link.ref.url)
        /\ ResolveLocal(PathOf(c), link.ref) \in CapturePaths =>
             ResolveLocal(PathOf(c), link.ref) \in
               PrimaryPaths \cup Referenced(c) \cup {known[k] : k \in DOMAIN known}
        /\ link.ref.kind = "local" =>
             LeadsBack(ResolveLocal(PathOf(c), link.ref), link.ref.query)
    BY <2>2, SavedOpens
  <2> QED
    BY <1>4, <2>1, <2>2, <2>3 DEF FreshLink
<1> QED
  BY <1>1, <1>2, <1>3, <1>5 DEF FileGuesses

LEMMA PutGuesses ==
  ASSUME GuessInv, NEW p, NEW file, FileGuesses(p, file, DOMAIN disk), disk' = Put(p, file)
  PROVE  GuessInv'
<1>1. /\ DOMAIN disk' = DOMAIN disk \cup {p}
      /\ \A q \in DOMAIN disk' : disk'[q] = IF q = p THEN file ELSE disk[q]
  BY DEF Put
<1>2. ASSUME NEW q \in DOMAIN disk' PROVE FileGuesses(q, disk'[q], DOMAIN disk')
  <2>1. FileGuesses(q, disk'[q], DOMAIN disk)
    BY <1>1 DEF GuessInv
  <2> QED
    BY <1>1, <2>1 DEF FileGuesses
<1> QED
  BY <1>2 DEF GuessInv

(* Only repairs change a file with something in it, and of its links only   *)
(* those that open nothing.                                                 *)
LEMMA LinksKept ==
  ASSUME TInv, [Next]_vars, NEW q, HasFile(q)
  PROVE  /\ HasFile(q)'
         /\ \A link \in disk[q].links :
              \/ link \in disk'[q].links
              \/ link.ref.kind = "local" /\ ResolveLocal(q, link.ref) \notin DOMAIN disk
<1> SUFFICES ASSUME NEW link \in disk[q].links
             PROVE  \/ link \in disk'[q].links
                    \/ link.ref.kind = "local" /\ ResolveLocal(q, link.ref) \notin DOMAIN disk
  BY FilesStay
<1>1. ASSUME UNCHANGED disk PROVE link \in disk'[q].links
  BY <1>1
<1>2. ASSUME NEW p, NEW file, disk' = Put(p, file), p # q PROVE link \in disk'[q].links
  BY <1>2 DEF HasFile, Put
<1>3. CASE StartDownload \/ StartOutputRepair \/ StartRepair \/ Cancel \/ Kill
  BY <1>1, <1>3 DEF StartDownload, StartOutputRepair, StartRepair, Cancel, Kill, diskVars
<1>4. CASE CancelledJob \/ SkippedJob \/ MissedJob \/ RecordFile \/ JobsEnd
  BY <1>1, <1>4 DEF CancelledJob, SkippedJob, MissedJob, RecordFile, JobsEnd, diskVars
<1>5. CASE NextWave \/ ResolveReference \/ WaveResolved \/ WavesEnd \/ AliasesEnd \/ RepairEnds
  BY <1>1, <1>5 DEF NextWave, ResolveReference, WaveResolved, WavesEnd, AliasesEnd, RepairEnds,
                    diskVars
<1>6. CASE UNCHANGED vars
  BY <1>1, <1>6 DEF vars, diskVars
<1>7. CASE StoreFile
  BY <1>2, <1>7 DEF StoreFile
<1>8. CASE MakeAlias
  <2>1. PICK copy \in Copies : disk' = Put(copy.to, disk[copy.from])
    BY <1>8 DEF MakeAlias
  <2>2. copy.to # q
    BY AliasesAreNew DEF HasFile
  <2> QED
    BY <1>2, <2>1, <2>2
<1>9. CASE KillWhileCopying
  <2>1. PICK copy \in Copies : \E file : disk' = Put(copy.to, file)
    BY <1>9 DEF KillWhileCopying
  <2>2. copy.to # q
    BY AliasesAreNew DEF HasFile
  <2> QED
    BY <1>2, <2>1, <2>2
<1>10. CASE RepairFile
  <2>1. PICK p : p = First(shelf)
    OBVIOUS
  <2>2. /\ \A r \in DOMAIN disk \ {p} : disk'[r] = disk[r]
        /\ disk'[p].links = {IF l \in Repairs(p) THEN RepairedLink(l) ELSE l :
                               l \in disk[p].links}
    BY <1>10, <2>1, RepairedFiles
  <2>3. CASE q # p
    BY <2>2, <2>3 DEF HasFile
  <2>4. CASE q = p
    <3>1. ASSUME link \in Repairs(q)
          PROVE  link.ref.kind = "local" /\ ResolveLocal(q, link.ref) \notin DOMAIN disk
      <4>1. link.ref.kind = "local"
        BY <3>1, RepairsAreLocal DEF TInv, HasFile
      <4>2. ~ TargetExists(DOMAIN disk, ResolveLocal(q, link.ref))
        BY <3>1 DEF Repairs, Repairable
      <4> QED
        BY <4>1, <4>2 DEF TargetExists
    <3>2. ASSUME link \notin Repairs(q) PROVE link \in disk'[q].links
      BY <2>2, <2>4, <3>2
    <3> QED
      BY <3>1, <3>2
  <2> QED
    BY <2>3, <2>4
<1> QED
  BY <1>3, <1>4, <1>5, <1>6, <1>7, <1>8, <1>9, <1>10 DEF Next

(* A repaired link opens a file.                                            *)
LEMMA RepairedLinks ==
  ASSUME TInv, RepairFile, NEW q \in DOMAIN disk, NEW link \in disk'[q].links
  PROVE  \/ link \in disk[q].links
         \/ link.ref.kind = "local" /\ ResolveLocal(q, link.ref) \in DOMAIN disk
<1>1. PICK p : p = First(shelf)
  OBVIOUS
<1>2. /\ \A r \in DOMAIN disk \ {p} : disk'[r] = disk[r]
      /\ disk'[p].links = {IF l \in Repairs(p) THEN RepairedLink(l) ELSE l : l \in disk[p].links}
  BY <1>1, RepairedFiles
<1>3. CASE q # p
  BY <1>2, <1>3
<1>4. CASE q = p
  <2>1. PICK old \in disk[q].links : link = IF old \in Repairs(q) THEN RepairedLink(old) ELSE old
    BY <1>2, <1>4
  <2>2. CASE old \in Repairs(q)
    <3>1. IsLink(old) /\ old.ref.kind = "local" /\ old.ref.down # <<>>
      BY <2>2, RepairsAreLocal DEF TInv
    <3>2. PICK saved : saved = {r \in DOMAIN disk : HasFile(r)}
      OBVIOUS
    <3>3. Repairable(DOMAIN disk, saved, q, old.ref)
      BY <2>2, <3>2 DEF Repairs
    <3>4. /\ link.ref = RepairedRef(old.ref) /\ IsReference(old.ref)
          /\ link.ref.kind = "local" /\ link.ref.rooted = old.ref.rooted
          /\ link.ref.up = old.ref.up /\ link.ref.down = ToHtml(old.ref.down)
      BY <2>1, <2>2, <3>1, RepairedLinkShape DEF IsLink
    <3>5. IsPath(q)
      BY DEF TInv, FilesTyped
    <3>6. ResolveLocal(q, link.ref) \in saved
      BY <3>3, <3>4, <3>5, RepairedLinkArrives
    <3> QED
      BY <3>2, <3>4, <3>6
  <2>3. CASE old \notin Repairs(q)
    BY <2>1, <2>3
  <2> QED
    BY <2>2, <2>3
<1> QED
  BY <1>3, <1>4

LEMMA GuessesStay ==
  ASSUME OnePathEach, LinksAreClear
  PROVE  TInv /\ ArrivalInv /\ KnownInv /\ HandInv /\ GuessInv /\ [Next]_vars => GuessInv'
<1> SUFFICES ASSUME TInv, ArrivalInv, KnownInv, HandInv, GuessInv, [Next]_vars PROVE GuessInv'
  OBVIOUS
<1>1. ASSUME UNCHANGED disk PROVE GuessInv'
  BY <1>1 DEF GuessInv
<1>2. CASE StartDownload \/ StartOutputRepair \/ StartRepair \/ Cancel \/ Kill
  BY <1>1, <1>2 DEF StartDownload, StartOutputRepair, StartRepair, Cancel, Kill, diskVars
<1>3. CASE CancelledJob \/ SkippedJob \/ MissedJob \/ RecordFile \/ JobsEnd
  BY <1>1, <1>3 DEF CancelledJob, SkippedJob, MissedJob, RecordFile, JobsEnd, diskVars
<1>4. CASE NextWave \/ ResolveReference \/ WaveResolved \/ WavesEnd \/ AliasesEnd \/ RepairEnds
  BY <1>1, <1>4 DEF NextWave, ResolveReference, WaveResolved, WavesEnd, AliasesEnd, RepairEnds,
                    diskVars
<1>5. CASE UNCHANGED vars
  BY <1>1, <1>5 DEF vars, diskVars
<1>6. CASE StoreFile
  <2>1. /\ disk' = Put(Current.path, Saved(Current.record, Current.path, known))
        /\ FileGuesses(Current.path, Saved(Current.record, Current.path, known), DOMAIN disk)
    BY <1>6, StoredPage DEF ArrivalInv
  <2> QED
    BY <2>1, PutGuesses
<1>7. CASE MakeAlias
  <2>1. PICK copy \in Copies : disk' = Put(copy.to, disk[copy.from])
    BY <1>7 DEF MakeAlias
  <2>2. copy.from \in DOMAIN disk /\ IsPath(copy.to)
    BY CopiesTyped
  <2>3. FileGuesses(copy.from, disk[copy.from], DOMAIN disk)
    BY <2>2 DEF GuessInv
  <2>4. FileGuesses(copy.to, disk[copy.from], DOMAIN disk)
    BY <2>2, <2>3, CopyOpensAsSource DEF FileGuesses
  <2> QED
    BY <2>1, <2>4, PutGuesses
<1>8. CASE KillWhileCopying
  <2>1. PICK copy \in Copies : \E file :
          disk' = Put(copy.to, file) /\ file.links \subseteq disk[copy.from].links
    BY <1>8, CopyCutShort
  <2>2. PICK file : disk' = Put(copy.to, file) /\ file.links \subseteq disk[copy.from].links
    BY <2>1
  <2>3. copy.from \in DOMAIN disk /\ IsPath(copy.to)
    BY CopiesTyped
  <2>4. FileGuesses(copy.from, disk[copy.from], DOMAIN disk)
    BY <2>3 DEF GuessInv
  <2>5. FileGuesses(copy.to, file, DOMAIN disk)
    BY <2>2, <2>3, <2>4, CopyOpensAsSource DEF FileGuesses
  <2> QED
    BY <2>2, <2>5, PutGuesses
<1>9. CASE RepairFile
  <2>1. DOMAIN disk' = DOMAIN disk
    BY <1>9, RepairedFiles
  <2>2. ASSUME NEW q \in DOMAIN disk PROVE FileGuesses(q, disk'[q], DOMAIN disk')
    <3>1. FileGuesses(q, disk[q], DOMAIN disk)
      BY DEF GuessInv
    <3>2. \A link \in disk'[q].links :
            \/ link \in disk[q].links
            \/ link.ref.kind = "local" /\ ResolveLocal(q, link.ref) \in DOMAIN disk
      BY <1>9, RepairedLinks
    <3> QED
      BY <2>1, <3>1, <3>2 DEF FileGuesses
  <2> QED
    BY <2>1, <2>2 DEF GuessInv
<1> QED
  BY <1>2, <1>3, <1>4, <1>5, <1>6, <1>7, <1>8, <1>9 DEF Next

LEMMA FreshStays ==
  ASSUME OnePathEach, LinksAreClear
  PROVE  TInv /\ ArrivalInv /\ KnownInv /\ HandInv /\ FreshInv /\ [Next]_vars => FreshInv'
<1> SUFFICES ASSUME TInv, ArrivalInv, KnownInv, HandInv, FreshInv, [Next]_vars,
                    phase' = "recording", NEW link \in disk'[Current.path'].links
             PROVE  FreshLink(Current.record, Current.path, link, seen)'
  BY DEF FreshInv
<1>1. CASE StoreFile
  <2>1. UNCHANGED <<jobs, seen>>
    BY <1>1 DEF StoreFile, processVars
  <2>2. PICK path, file : path = Current.path /\ file = Saved(Current.record, Current.path, known)
    OBVIOUS
  <2>3. /\ disk' = Put(path, file)
        /\ \A l \in file.links : FreshLink(Current.record, path, l, seen)
    BY <1>1, <2>2, StoredPage DEF ArrivalInv
  <2>4. Current' = Current /\ disk'[path] = file
    BY <2>1, <2>3 DEF Current, Put
  <2>5. FreshLink(Current.record, Current.path, link, seen)
    BY <2>2, <2>3, <2>4
  <2> QED
    BY <2>1, <2>4, <2>5 DEF FreshLink
<1>2. CASE Cancel \/ UNCHANGED vars
  <2>1. UNCHANGED <<phase, jobs, seen, disk>>
    BY <1>2 DEF Cancel, vars, processVars, diskVars
  <2>2. Current' = Current
    BY <2>1 DEF Current
  <2>3. FreshLink(Current.record, Current.path, link, seen)
    BY <2>1, <2>2 DEF FreshInv
  <2> QED
    BY <2>1, <2>2, <2>3 DEF FreshLink
<1>3. CASE MakeAlias
  BY <1>3 DEF MakeAlias, Copies
<1>4. CASE StartDownload \/ StartOutputRepair \/ StartRepair \/ Kill \/ CancelledJob \/ SkippedJob
  BY <1>4 DEF StartDownload, StartOutputRepair, StartRepair, Kill, CancelledJob, SkippedJob,
              Downloading
<1>5. CASE MissedJob \/ RecordFile \/ JobsEnd \/ NextWave \/ ResolveReference \/ WaveResolved
  BY <1>5 DEF MissedJob, RecordFile, JobsEnd, NextWave, ResolveReference, WaveResolved, Downloading
<1>6. CASE WavesEnd \/ KillWhileCopying \/ AliasesEnd \/ RepairFile \/ RepairEnds
  BY <1>6 DEF WavesEnd, KillWhileCopying, AliasesEnd, RepairFile, RepairEnds
<1> QED
  BY <1>1, <1>2, <1>3, <1>4, <1>5, <1>6 DEF Next

-----------------------------------------------------------------------------
(* Where what is kept of a file leads: the pages that its entry and its     *)
(* absolute links refer to and the journalled pages that its links open.    *)
Opens(q) == {ResolveLocal(q, link.ref) : link \in disk[q].links}
AbsoluteUrls(q) == {link.ref.url : link \in {l \in disk[q].links : l.ref.kind = "absolute"}}
Recalled(q) == (IF evidence[q] # None THEN References(evidence[q]) ELSE {})
                 \cup WorthFollowing(AbsoluteUrls(q))
Led(q) == FoundPaths(Recalled(q)) \cup (Opens(q) \cap Journalled)

(* A set of paths that holds the listed ones and all that its files lead to.*)
(* The journal names no path outside of such a set, as each of its entries  *)
(* was reached from a listed page by what the files then told, and they     *)
(* tell no less later. A path that is to come may be outside of it only as  *)
(* long as it has no file and a link of a kept file opens it.               *)
Closed(S) == PrimaryPaths \subseteq S /\ \A q \in S : HasFile(q) => Led(q) \subseteq S
Coming == seen \cup FoundPaths(refs \cup pending)
Awaited(S, x) ==
  /\ \E q \in S : HasFile(q) /\ x \in Opens(q)
  /\ ~ HasFile(x) \/ (phase = "recording" /\ x = Current.path)
Reaches(S) ==
  /\ Journalled \subseteq S
  /\ phase \in Running => \A x \in Coming : x \in S \/ Awaited(S, x)
ReachInv == \A S \in SUBSET Places : Closed(S) => Reaches(S)

LEMMA FoundPathsMeans ==
  /\ \A urls : \A u \in urls : Found(u) # None => PathOf(Found(u)) \in FoundPaths(urls)
  /\ \A urls : \A x \in FoundPaths(urls) : \E u \in urls : Found(u) # None /\ x = PathOf(Found(u))
BY DEF FoundPaths

LEMMA LedGrows ==
  ASSUME TInv, IInv, [Next]_vars, NEW q \in Places, HasFile(q)
  PROVE  HasFile(q)' /\ \A x \in Led(q) : x \in Led(q)'
<1>1. /\ HasFile(q)'
      /\ \A link \in disk[q].links :
           \/ link \in disk'[q].links
           \/ link.ref.kind = "local" /\ ResolveLocal(q, link.ref) \notin DOMAIN disk
  BY LinksKept
<1>2. \A p \in Places : evidence[p] # None => evidence'[p] = evidence[p]
  BY JournalGrows
<1>3. ASSUME NEW u \in Recalled(q) PROVE u \in Recalled(q)'
  <2>1. CASE evidence[q] # None /\ u \in References(evidence[q])
    BY <1>2, <2>1 DEF Recalled
  <2>2. CASE u \in WorthFollowing(AbsoluteUrls(q))
    <3>1. IsWorth(u) /\ u \in AbsoluteUrls(q)
      BY <2>2, WorthMeans
    <3>2. PICK link \in disk[q].links : link.ref.kind = "absolute" /\ u = link.ref.url
      BY <3>1 DEF AbsoluteUrls
    <3>3. link \in disk'[q].links
      BY <1>1, <3>2
    <3>4. u \in AbsoluteUrls(q)'
      BY <3>2, <3>3 DEF AbsoluteUrls
    <3>5. u \in WorthFollowing(AbsoluteUrls(q)')
      BY <3>1, <3>4, WorthMeans
    <3> QED
      BY <3>5 DEF Recalled
  <2> QED
    BY <2>1, <2>2 DEF Recalled
<1>4. ASSUME NEW x \in FoundPaths(Recalled(q)) PROVE x \in FoundPaths(Recalled(q)')
  <2>1. PICK u \in Recalled(q) : Found(u) # None /\ x = PathOf(Found(u))
    BY <1>4, FoundPathsMeans
  <2> QED
    BY <1>3, <2>1, FoundPathsMeans
<1>5. ASSUME NEW x \in Opens(q) \cap Journalled PROVE x \in Opens(q)' /\ x \in Journalled'
  <2>1. PICK link \in disk[q].links : x = ResolveLocal(q, link.ref)
    BY <1>5 DEF Opens
  <2>2. x \in Places /\ evidence[x] # None /\ x \in DOMAIN disk
    BY <1>5 DEF Journalled, IInv, EvidenceHolds, IsWhole
  <2>3. link \in disk'[q].links /\ evidence'[x] # None
    BY <1>1, <1>2, <2>1, <2>2
  <2> QED
    BY <2>1, <2>2, <2>3 DEF Opens, Journalled
<1> QED
  BY <1>1, <1>4, <1>5 DEF Led, FoundPaths

LEMMA ClosedBefore ==
  ASSUME TInv, IInv, [Next]_vars, NEW S \in SUBSET Places, Closed(S)'
  PROVE  Closed(S)
<1>1. PrimaryPaths \subseteq S
  BY DEF Closed
<1>2. ASSUME NEW q \in S, HasFile(q), NEW x \in Led(q) PROVE x \in S
  <2>1. HasFile(q)' /\ x \in Led(q)'
    BY <1>2, LedGrows
  <2> QED
    BY <2>1 DEF Closed
<1> QED
  BY <1>1, <1>2 DEF Closed

(* What resumed_references makes of a link of a kept file.                  *)
LinkOriginals(target, query) ==
  IF ListedOriginal(target) # None THEN {ListedOriginal(target)}
  ELSE IF target \in Places /\ evidence[target] # None THEN {evidence[target].url}
  ELSE GuessedOriginals(target, query)

LEMMA ResumedMembers ==
  ASSUME NEW q, NEW u
  PROVE  u \in ResumedReferences(q) <=>
           /\ IsWorth(u)
           /\ \/ evidence[q] # None /\ u \in References(evidence[q])
              \/ u \in AbsoluteUrls(q)
              \/ \E link \in disk[q].links :
                   /\ link.ref.kind = "local" /\ ResolveLocal(q, link.ref) \notin {None, <<>>}
                   /\ u \in LinkOriginals(ResolveLocal(q, link.ref), link.ref.query)
<1> DEFINE local == {ref \in {link.ref : link \in disk[q].links} :
                       ref.kind = "local" /\ ResolveLocal(q, ref) \notin {None, <<>>}}
           originals(ref) == LinkOriginals(ResolveLocal(q, ref), ref.query)
           journalled == IF evidence[q] # None THEN References(evidence[q]) ELSE {}
<1>1. ResumedReferences(q) =
        WorthFollowing(journalled \cup AbsoluteUrls(q) \cup UNION {originals(ref) : ref \in local})
  BY DEF ResumedReferences, AbsoluteUrls, LinkOriginals
<1>2. (\E ref \in local : u \in originals(ref)) <=>
        \E link \in disk[q].links :
          /\ link.ref.kind = "local" /\ ResolveLocal(q, link.ref) \notin {None, <<>>}
          /\ u \in LinkOriginals(ResolveLocal(q, link.ref), link.ref.query)
  OBVIOUS
<1>3. u \in journalled <=> evidence[q] # None /\ u \in References(evidence[q])
  OBVIOUS
<1> HIDE DEF local, originals, journalled
<1>4. u \in ResumedReferences(q) <=>
        /\ IsWorth(u)
        /\ u \in journalled \/ u \in AbsoluteUrls(q) \/ \E ref \in local : u \in originals(ref)
  BY <1>1, WorthMeans
<1> QED
  BY <1>2, <1>3, <1>4

(* A skipped job: what its file refers to is led to, or a link opens it and *)
(* it is not there.                                                         *)
LEMMA SkippedRefs ==
  ASSUME OnePathEach, TInv, IInv, HandInv, GuessInv,
         NEW S \in SUBSET Places, Closed(S), NEW q \in S, HasFile(q),
         NEW u \in ResumedReferences(q), Found(u) # None
  PROVE  \/ PathOf(Found(u)) \in S
         \/ PathOf(Found(u)) \in Opens(q) /\ ~ HasFile(PathOf(Found(u)))
<1>1. Led(q) \subseteq S /\ PrimaryPaths \subseteq S
  BY DEF Closed
<1>2. IsWorth(u)
  BY ResumedMembers
<1>3. CASE evidence[q] # None /\ u \in References(evidence[q])
  BY <1>1, <1>3, FoundPathsMeans DEF Led, Recalled
<1>4. CASE u \in AbsoluteUrls(q)
  <2>1. u \in Recalled(q)
    BY <1>2, <1>4, WorthMeans DEF Recalled
  <2> QED
    BY <1>1, <2>1, FoundPathsMeans DEF Led
<1>5. ASSUME NEW link \in disk[q].links, link.ref.kind = "local",
             ResolveLocal(q, link.ref) \notin {None, <<>>},
             u \in LinkOriginals(ResolveLocal(q, link.ref), link.ref.query)
      PROVE  \/ PathOf(Found(u)) \in S
             \/ PathOf(Found(u)) \in Opens(q) /\ ~ HasFile(PathOf(Found(u)))
  <2>1. PICK target : target = ResolveLocal(q, link.ref)
    OBVIOUS
  <2>2. target \in Opens(q)
    BY <2>1 DEF Opens
  <2>3. CASE ListedOriginal(target) # None
    <3>1. u = ListedOriginal(target)
      BY <1>5, <2>1, <2>3 DEF LinkOriginals
    <3>2. PICK c \in Archive : u = c.url /\ PathOf(c) = target /\ target \in PrimaryPaths
      BY <2>3, <3>1, ListedOriginalRight
    <3> QED
      BY <1>1, <3>2, OwnUrlFound
  <2>4. CASE ListedOriginal(target) = None /\ target \in Places /\ evidence[target] # None
    <3>1. u = evidence[target].url /\ target \in Journalled
      BY <1>5, <2>1, <2>4 DEF LinkOriginals, Journalled
    <3>2. evidence[target] \in Archive /\ PathOf(evidence[target]) = target
      BY <2>4, <3>1 DEF TInv, OtherTypes, HandInv, EntriesRight, IsRightAt
    <3>3. PathOf(Found(u)) = target
      BY <3>1, <3>2, OwnUrlFound
    <3> QED
      BY <1>1, <2>2, <3>1, <3>3 DEF Led
  <2>5. CASE ListedOriginal(target) = None /\ ~ (target \in Places /\ evidence[target] # None)
    <3>1. u \in GuessedOriginals(target, link.ref.query)
      BY <1>5, <2>1, <2>5 DEF LinkOriginals
    <3>2. target \notin DOMAIN disk /\ u \in UnhashedOriginals(target, link.ref.query)
      BY <3>1 DEF GuessedOriginals
    <3>3. LeadsBack(target, link.ref.query)
      BY <1>5, <2>1, <3>2 DEF GuessInv, FileGuesses, HasFile
    <3>4. PathOf(Found(u)) = target
      BY <1>2, <1>5, <2>1, <3>2, <3>3, WorthMeans DEF LeadsBack
    <3> QED
      BY <2>2, <3>2, <3>4 DEF HasFile
  <2> QED
    BY <2>3, <2>4, <2>5
<1> QED
  BY <1>3, <1>4, <1>5, ResumedMembers

(* A skipped job follows everything that its file leads to.                 *)
LEMMA LedIsFollowed ==
  ASSUME OnePathEach, TInv, HandInv, NEW q, HasFile(q), NEW x \in Led(q)
  PROVE  x \in PrimaryPaths \/ x \in FoundPaths(ResumedReferences(q))
<1>1. CASE x \in FoundPaths(Recalled(q))
  <2>1. PICK u \in Recalled(q) : Found(u) # None /\ x = PathOf(Found(u))
    BY <1>1, FoundPathsMeans
  <2>2. CASE u \in WorthFollowing(AbsoluteUrls(q))
    <3>1. u \in ResumedReferences(q)
      BY <2>2, WorthMeans, ResumedMembers
    <3> QED
      BY <2>1, <3>1, FoundPathsMeans
  <2>3. CASE evidence[q] # None /\ u \in References(evidence[q])
    <3>1. IsWorth(u)
      BY <2>3, WorthMeans DEF References, RelatedReferences
    <3>2. u \in ResumedReferences(q)
      BY <2>3, <3>1, ResumedMembers
    <3> QED
      BY <2>1, <3>2, FoundPathsMeans
  <2> QED
    BY <2>1, <2>2, <2>3 DEF Recalled
<1>2. CASE x \in Opens(q) \cap Journalled
  <2>1. PICK link \in disk[q].links : x = ResolveLocal(q, link.ref)
    BY <1>2 DEF Opens
  <2>2. /\ x \in Places /\ evidence[x] # None
        /\ PathOf(evidence[x]) = x /\ (x \in PrimaryPaths \/ IsWorth(evidence[x].url))
        /\ evidence[x] \in Archive
    BY <1>2 DEF Journalled, HandInv, EntriesRight, IsRightAt, TInv, OtherTypes
  <2>3. x # None /\ x # <<>>
    <3>1. IsPath(x)
      BY <2>2, PathsOfCaptures
    <3>2. x # None
      BY <2>2, PathsAssumption
    <3> QED
      BY <3>1, <3>2 DEF IsPath
  <2>4. link.ref.kind = "local"
    <3>1. IsPath(q) /\ IsReference(link.ref)
      BY DEF TInv, FilesTyped, IsFile, IsLink, HasFile
    <3> QED
      BY <2>1, <2>3, <3>1, ResolveShape
  <2>5. CASE x \notin PrimaryPaths
    <3>1. ListedOriginal(x) = None
      BY <2>5, ListedOriginalRight
    <3>2. evidence[x].url \in LinkOriginals(x, link.ref.query)
      BY <2>2, <3>1 DEF LinkOriginals
    <3>3. evidence[x].url \in ResumedReferences(q)
      BY <2>1, <2>2, <2>3, <2>4, <2>5, <3>2, ResumedMembers
    <3> QED
      BY <2>2, <3>3, OwnUrlFound, FoundPathsMeans
  <2> QED
    BY <2>5
<1> QED
  BY <1>1, <1>2 DEF Led

LEMMA ReachStarts == Init => ReachInv
BY DEF Init, ReachInv, Reaches, Journalled, Running

(* The steps of a run that leave files and entries alone and learn of no    *)
(* further page.                                                            *)
LEMMA ReachIdles ==
  ASSUME NEW S, Reaches(S), UNCHANGED diskVars,
         phase' \in Running =>
           /\ phase \in Running
           /\ phase # "recording" \/ UNCHANGED <<phase, jobs>>
           /\ \A x \in Coming' : x \in Coming
  PROVE  Reaches(S)'
<1>1. Journalled' \subseteq S
  BY DEF Reaches, Journalled, diskVars
<1>2. ASSUME phase' \in Running, NEW x \in Coming' PROVE x \in S \/ Awaited(S, x)'
  <2>1. x \in S \/ Awaited(S, x)
    BY <1>2 DEF Reaches
  <2>2. \A q : HasFile(q)' = HasFile(q) /\ Opens(q)' = Opens(q)
    BY DEF HasFile, Opens, diskVars
  <2>3. phase = "recording" => phase' = "recording" /\ Current' = Current
    BY <1>2 DEF Current
  <2> QED
    BY <2>1, <2>2, <2>3 DEF Awaited
<1> QED
  BY <1>1, <1>2 DEF Reaches

LEMMA ReachStays ==
  ASSUME OnePathEach
  PROVE  TInv /\ IInv /\ ArrivalInv /\ RefsTyped /\ HandInv /\ GuessInv /\ ReachInv /\ [Next]_vars
           => ReachInv'
<1> SUFFICES ASSUME TInv, IInv, ArrivalInv, RefsTyped, HandInv, GuessInv, ReachInv, [Next]_vars,
                    NEW S \in SUBSET Places, Closed(S)'
             PROVE  Reaches(S)'
  BY DEF ReachInv
<1> USE DEF Running
<1>1. Closed(S) /\ Reaches(S)
  BY ClosedBefore DEF ReachInv
<1>2. ASSUME UNCHANGED evidence, phase' \notin Running PROVE Reaches(S)'
  BY <1>1, <1>2 DEF Reaches, Journalled
<1>3. ASSUME UNCHANGED diskVars, phase \in Running,
             phase # "recording" \/ UNCHANGED <<phase, jobs>>,
             seen' \subseteq seen, refs' \cup pending' \subseteq refs \cup pending
      PROVE  Reaches(S)'
  <2>1. \A x \in Coming' : x \in Coming
    BY <1>3 DEF Coming, FoundPaths
  <2> QED
    BY <1>1, <1>3, <2>1, ReachIdles
<1>4. CASE StartDownload
  <2>1. seen' = PrimaryPaths /\ refs' = {} /\ pending' = {} /\ UNCHANGED evidence
    BY <1>4 DEF StartDownload, diskVars
  <2>2. \A x \in Coming' : x \in S
    BY <1>1, <2>1 DEF Coming, FoundPaths, Closed
  <2> QED
    BY <1>1, <2>1, <2>2 DEF Reaches, Journalled
<1>5. CASE StartOutputRepair \/ StartRepair \/ Kill \/ KillWhileCopying
  BY <1>2, <1>5 DEF StartOutputRepair, StartRepair, Kill, KillWhileCopying, diskVars
<1>6. CASE WavesEnd \/ MakeAlias \/ AliasesEnd \/ RepairFile \/ RepairEnds
  <2>1. UNCHANGED evidence
    BY <1>6 DEF WavesEnd, MakeAlias, AliasesEnd, RepairFile, RepairEnds, diskVars
  <2>2. phase' \notin Running
    BY <1>6 DEF WavesEnd, MakeAlias, AliasesEnd, RepairFile, RepairEnds, Copies
  <2> QED
    BY <1>2, <2>1, <2>2
<1>7. CASE Cancel
  <2>1. UNCHANGED <<phase, jobs, refs, pending, seen, diskVars>>
    BY <1>7 DEF Cancel
  <2> QED
    BY <1>2, <1>3, <2>1 DEF diskVars
<1>8. CASE UNCHANGED vars
  <2>1. UNCHANGED <<phase, jobs, refs, pending, seen, diskVars>>
    BY <1>8 DEF vars, processVars
  <2> QED
    BY <1>2, <1>3, <2>1 DEF diskVars
<1>9. CASE CancelledJob \/ MissedJob \/ JobsEnd
  <2>1. phase = "jobs" /\ UNCHANGED <<refs, pending, seen, diskVars>>
    BY <1>9 DEF CancelledJob, MissedJob, JobsEnd, Downloading
  <2> QED
    BY <1>3, <2>1
<1>10. CASE WaveResolved
  <2>1. phase = "resolving" /\ pending' = {} /\ UNCHANGED <<refs, seen, diskVars>>
    BY <1>10 DEF WaveResolved
  <2> QED
    BY <1>3, <2>1
<1>11. CASE NextWave
  <2>1. /\ phase = "waves" /\ refs' = {} /\ UNCHANGED <<seen, diskVars>>
        /\ pending' = {CHOOSE u \in Unchecked : Normalized(u) = key :
                         key \in {Normalized(u) : u \in Unchecked}}
    BY <1>11 DEF NextWave
  <2>2. ASSUME NEW w \in pending' PROVE w \in refs
    BY <2>1 DEF Unchecked
  <2> QED
    BY <1>3, <2>1, <2>2
<1>12. CASE ResolveReference
  <2>1. PICK u \in pending : /\ pending' = pending \ {u}
                             /\ \/ UNCHANGED seen
                                \/ Found(u) # None /\ seen' = seen \cup {PathOf(Found(u))}
                             /\ UNCHANGED <<phase, refs, diskVars>>
    BY <1>12, Resolving
  <2>2. phase = "resolving"
    BY <1>12 DEF ResolveReference
  <2>3. ASSUME NEW x \in Coming' PROVE x \in Coming
    <3>1. CASE x \in seen'
      BY <2>1, <3>1, FoundPathsMeans DEF Coming
    <3>2. CASE x \in FoundPaths(refs' \cup pending')
      <4>1. PICK v \in refs' \cup pending' : Found(v) # None /\ x = PathOf(Found(v))
        BY <3>2, FoundPathsMeans
      <4> QED
        BY <2>1, <4>1, FoundPathsMeans DEF Coming
    <3>3. x \in seen' \/ x \in FoundPaths(refs' \cup pending')
      BY DEF Coming, FoundPaths
    <3> QED
      BY <3>1, <3>2, <3>3
  <2> QED
    BY <1>1, <2>1, <2>2, <2>3, ReachIdles
<1>13. CASE SkippedJob
  <2>1. /\ phase = "jobs" /\ jobs # <<>> /\ HasFile(Current.path)
        /\ refs' = refs \cup ResumedReferences(Current.path)
        /\ UNCHANGED <<phase, pending, seen, diskVars>>
    BY <1>13 DEF SkippedJob, Downloading
  <2>2. PICK path : path = Current.path
    OBVIOUS
  <2>3. path \in Coming /\ HasFile(path)
    BY <2>1, <2>2, CurrentRight DEF HandInv, Coming
  <2>4. path \in S
    BY <1>1, <2>1, <2>3 DEF Reaches, Awaited
  <2>5. \A q : HasFile(q)' = HasFile(q) /\ Opens(q)' = Opens(q)
    BY <2>1 DEF HasFile, Opens, diskVars
  <2>6. Journalled' = Journalled
    BY <2>1 DEF Journalled, diskVars
  <2>7. ASSUME NEW x \in Coming' PROVE x \in S \/ Awaited(S, x)'
    <3>1. x \in Coming \/ x \in FoundPaths(ResumedReferences(path))
      BY <2>1, <2>2 DEF Coming, FoundPaths
    <3>2. CASE x \in Coming
      BY <1>1, <2>1, <2>5, <3>2 DEF Reaches, Awaited
    <3>3. CASE x \in FoundPaths(ResumedReferences(path))
      <4>1. PICK u \in ResumedReferences(path) : Found(u) # None /\ x = PathOf(Found(u))
        BY <3>3, FoundPathsMeans
      <4>2. x \in S \/ (x \in Opens(path) /\ ~ HasFile(x))
        BY <1>1, <2>3, <2>4, <4>1, SkippedRefs
      <4> QED
        BY <2>3, <2>4, <2>5, <4>2 DEF Awaited
    <3> QED
      BY <3>1, <3>2, <3>3
  <2> QED
    BY <1>1, <2>6, <2>7 DEF Reaches
<1>14. CASE StoreFile
  <2>1. PICK path, file : path = Current.path /\ file = Saved(Current.record, Current.path, known)
    OBVIOUS
  <2>2. /\ phase = "jobs" /\ phase' = "recording" /\ ~ HasFile(path)
        /\ disk' = Put(path, file)
        /\ UNCHANGED <<jobs, refs, pending, seen, evidence>>
    BY <1>14, <2>1 DEF StoreFile, Downloading, processVars
  <2>3. Journalled' = Journalled /\ Coming' = Coming /\ Current' = Current
    BY <2>2 DEF Journalled, Coming, Current
  <2>4. \A q : q # path => HasFile(q)' = HasFile(q) /\ (HasFile(q) => Opens(q)' = Opens(q))
    BY <2>2 DEF HasFile, Opens, Put
  <2>5. ASSUME NEW x \in Coming PROVE x \in S \/ Awaited(S, x)'
    <3>1. CASE Awaited(S, x)
      <4>1. PICK q \in S : HasFile(q) /\ x \in Opens(q)
        BY <3>1 DEF Awaited
      <4>2. ~ HasFile(x)
        BY <2>2, <3>1 DEF Awaited
      <4>3. HasFile(q)' /\ x \in Opens(q)'
        BY <2>2, <2>4, <4>1
      <4>4. ~ HasFile(x)' \/ x = path
        BY <2>4, <4>2
      <4> QED
        BY <2>1, <2>2, <2>3, <4>3, <4>4 DEF Awaited
    <3> QED
      BY <1>1, <2>2, <3>1 DEF Reaches
  <2> QED
    BY <1>1, <2>3, <2>5 DEF Reaches
<1>15. CASE RecordFile
  <2>1. PICK path, c : path = Current.path /\ c = Current.record
    OBVIOUS
  <2>2. /\ phase = "recording" /\ jobs # <<>> /\ path \in Places
        /\ evidence'[path] = c
        /\ \A p \in Places : p # path => evidence'[p] = evidence[p]
        /\ refs' = refs \cup References(c)
        /\ phase' = "jobs" /\ UNCHANGED <<pending, seen, disk>>
    BY <1>15, <2>1, JournalGrows DEF RecordFile
  <2>3. HasFile(path) /\ path \in seen /\ c # None
    BY <2>1, <2>2, CurrentRight, CurrentTyped, ArchiveAssumption DEF ArrivalInv, StoredInv, HandInv
  <2>4. \A q : HasFile(q)' = HasFile(q) /\ Opens(q)' = Opens(q)
    BY <2>2 DEF HasFile, Opens
  <2>5. path \in Journalled'
    BY <2>2, <2>3 DEF Journalled
  <2>6. path \in S
    <3>1. path \in S \/ Awaited(S, path)
      BY <1>1, <2>2, <2>3 DEF Reaches, Coming
    <3>2. ASSUME NEW q \in S, HasFile(q), path \in Opens(q) PROVE path \in S
      <4>1. path \in Led(q)'
        BY <2>4, <2>5, <3>2 DEF Led
      <4> QED
        BY <2>4, <3>2, <4>1 DEF Closed
    <3> QED
      BY <3>1, <3>2 DEF Awaited
  <2>7. Journalled' \subseteq S
    BY <1>1, <2>2, <2>6 DEF Reaches, Journalled
  <2>8. ASSUME NEW x \in Coming' PROVE x \in S \/ Awaited(S, x)'
    <3>1. x \in Coming \/ x \in FoundPaths(References(c))
      BY <2>2 DEF Coming, FoundPaths
    <3>2. CASE x \in Coming
      BY <1>1, <2>1, <2>2, <2>4, <2>6, <3>2 DEF Reaches, Awaited
    <3>3. CASE x \in FoundPaths(References(c))
      <4>1. x \in FoundPaths(Recalled(path)')
        BY <2>2, <2>3, <3>3 DEF Recalled, FoundPaths
      <4>2. x \in Led(path)'
        BY <4>1 DEF Led, FoundPaths
      <4> QED
        BY <2>3, <2>4, <2>6, <4>2 DEF Closed
    <3> QED
      BY <3>1, <3>2, <3>3
  <2> QED
    BY <2>7, <2>8 DEF Reaches
<1> QED
  BY <1>4, <1>5, <1>6, <1>7, <1>8, <1>9, <1>10, <1>11, <1>12, <1>13, <1>14, <1>15 DEF Next

-----------------------------------------------------------------------------
(* A download that meets no trouble: what it has seen has a file or a job,  *)
(* what the files without a job lead to is to come, and what was checked is *)
(* reached or about to be.                                                  *)
Smooth == phase \in DownloadPhases /\ pass # "repair" /\ gaps = {} /\ ~ cancelled
Reached(k) == \A e \in Archive : StandsFor(k, e) => PathOf(e) \in seen

SeenArrive == \A p \in seen : HasFile(p) \/ HasJob(p)
SeenLead == \A q \in seen : HasFile(q) /\ ~ HasJob(q) => \A x \in Led(q) : x \in Coming
CheckedReached == \A k \in checked : Reached(k) \/ \E v \in pending : Normalized(v) = k
WavesOver == phase \in {"topics", "directories", "done"} => Unchecked = {}
SmoothInv == Smooth => SeenArrive /\ SeenLead /\ CheckedReached /\ WavesOver

LEMMA SmoothBefore ==
  ASSUME ArrivalInv, [Next]_vars, Smooth', ~ StartDownload
  PROVE  /\ Smooth
         /\ \/ SkippedJob \/ StoreFile \/ RecordFile \/ JobsEnd \/ NextWave \/ ResolveReference
            \/ WaveResolved \/ WavesEnd \/ MakeAlias \/ AliasesEnd \/ UNCHANGED vars
<1> USE DEF Smooth, DownloadPhases
<1>1. CASE StartOutputRepair \/ StartRepair \/ Kill \/ KillWhileCopying \/ RepairFile \/ RepairEnds
  BY <1>1 DEF StartOutputRepair, StartRepair, Kill, KillWhileCopying, RepairFile, RepairEnds
<1>2. CASE Cancel \/ CancelledJob \/ MissedJob
  BY <1>2 DEF Cancel, CancelledJob, MissedJob
<1>3. CASE SkippedJob \/ StoreFile \/ RecordFile \/ JobsEnd
  BY <1>3 DEF SkippedJob, StoreFile, RecordFile, JobsEnd, Downloading, processVars
<1>4. CASE NextWave
  BY <1>4 DEF NextWave, ArrivalInv, PassInv
<1>5. CASE ResolveReference \/ WaveResolved \/ WavesEnd
  BY <1>5 DEF ResolveReference, WaveResolved, WavesEnd
<1>6. CASE MakeAlias
  BY <1>6 DEF MakeAlias, processVars
<1>7. CASE AliasesEnd
  BY <1>7 DEF AliasesEnd
<1>8. CASE UNCHANGED vars
  BY <1>8 DEF vars, processVars
<1> QED
  BY <1>1, <1>2, <1>3, <1>4, <1>5, <1>6, <1>7, <1>8 DEF Next

(* What happens to the jobs of a run without trouble.                       *)
LEMMA SmoothJobs ==
  ASSUME TInv, ArrivalInv, RefsTyped, HandInv, [Next]_vars, Smooth', ~ StartDownload,
         NEW p, HasJob(p)
  PROVE  HasJob(p)' \/ ((SkippedJob \/ RecordFile) /\ p = Current.path /\ HasFile(p))
<1>1. ASSUME UNCHANGED jobs PROVE HasJob(p)'
  BY <1>1 DEF HasJob
<1>2. CASE SkippedJob \/ RecordFile
  <2>1. jobs # <<>> /\ jobs' = Tail(jobs)
    BY <1>2 DEF SkippedJob, RecordFile, Downloading, TInv, JobsTyped
  <2>2. HasFile(Current.path)
    BY <1>2 DEF SkippedJob, RecordFile, ArrivalInv, StoredInv
  <2> QED
    BY <1>2, <2>1, <2>2, JobsLeft
<1>3. CASE StoreFile \/ JobsEnd \/ NextWave \/ WaveResolved \/ WavesEnd \/ MakeAlias \/ AliasesEnd
           \/ UNCHANGED vars
  BY <1>1, <1>3 DEF StoreFile, JobsEnd, NextWave, WaveResolved, WavesEnd, MakeAlias, AliasesEnd,
                    vars, processVars
<1>4. CASE ResolveReference
  <2>1. PICK u \in pending : \/ UNCHANGED jobs
                             \/ jobs' = Append(jobs, Job(Found(u), PathOf(Found(u))))
    BY <1>4, Resolving
  <2>2. CASE jobs' = Append(jobs, Job(Found(u), PathOf(Found(u))))
    <3>1. PICK i \in DOMAIN jobs : jobs[i].path = p
      BY DEF HasJob
    <3>2. jobs \in Seq(PossibleJobs)
      BY DEF TInv, JobsTyped
    <3>3. i \in DOMAIN jobs' /\ jobs'[i] = jobs[i]
      BY <2>2, <3>1, <3>2
    <3> QED
      BY <3>1, <3>3 DEF HasJob
  <2> QED
    BY <1>1, <2>1, <2>2
<1> QED
  BY <1>2, <1>3, <1>4, SmoothBefore

LEMMA StartHasJobs ==
  ASSUME StartDownload, NEW p \in seen'
  PROVE  HasJob(p)'
BY DEF StartDownload, PrimaryPaths, HasJob

(* A path is seen when its job is made.                                     *)
LEMMA SeenGrows ==
  ASSUME TInv, ArrivalInv, RefsTyped, HandInv, [Next]_vars, Smooth', ~ StartDownload
  PROVE  /\ \A p \in seen : p \in seen'
         /\ \A p \in seen' : p \in seen \/ HasJob(p)'
         /\ ~ ResolveReference => UNCHANGED seen
<1>1. CASE SkippedJob \/ StoreFile \/ RecordFile \/ JobsEnd \/ NextWave \/ WaveResolved \/ WavesEnd
           \/ MakeAlias \/ AliasesEnd \/ UNCHANGED vars
  BY <1>1 DEF SkippedJob, StoreFile, RecordFile, JobsEnd, NextWave, WaveResolved, WavesEnd,
              MakeAlias, AliasesEnd, vars, processVars
<1>2. CASE ResolveReference
  <2>1. PICK u \in pending :
          \/ UNCHANGED seen
          \/ /\ seen' = seen \cup {PathOf(Found(u))}
             /\ jobs' = IF PathOf(Found(u)) \in seen THEN jobs
                        ELSE Append(jobs, Job(Found(u), PathOf(Found(u))))
    BY <1>2, Resolving
  <2>2. ASSUME NEW p \in seen', p \notin seen PROVE HasJob(p)'
    <3>1. p = PathOf(Found(u)) /\ jobs' = Append(jobs, Job(Found(u), p))
      BY <2>1, <2>2
    <3>2. jobs \in Seq(PossibleJobs)
      BY DEF TInv, JobsTyped
    <3>3. Len(jobs) + 1 \in DOMAIN jobs' /\ jobs'[Len(jobs) + 1] = Job(Found(u), p)
      BY <3>1, <3>2
    <3>4. jobs'[Len(jobs) + 1].path = p
      BY <3>3 DEF Job
    <3> QED
      BY <3>3, <3>4 DEF HasJob
  <2> QED
    BY <1>2, <2>1, <2>2
<1> QED
  BY <1>1, <1>2, SmoothBefore

LEMMA SeenStayArriving ==
  TInv /\ ArrivalInv /\ RefsTyped /\ HandInv /\ SmoothInv /\ [Next]_vars /\ Smooth' => SeenArrive'
<1> SUFFICES ASSUME TInv, ArrivalInv, RefsTyped, HandInv, SmoothInv, [Next]_vars, Smooth',
                    NEW p \in seen'
             PROVE  HasFile(p)' \/ HasJob(p)'
  BY DEF SeenArrive
<1>1. CASE StartDownload
  BY <1>1, StartHasJobs
<1>2. CASE ~ StartDownload
  <2>1. p \in seen \/ HasJob(p)'
    BY <1>2, SeenGrows
  <2>2. CASE p \in seen /\ HasFile(p)
    BY <2>2, FilesStay
  <2>3. CASE p \in seen /\ HasJob(p)
    BY <1>2, <2>3, SmoothJobs, FilesStay
  <2>4. p \in seen => HasFile(p) \/ HasJob(p)
    BY <1>2, SmoothBefore DEF SmoothInv, SeenArrive
  <2> QED
    BY <2>1, <2>2, <2>3, <2>4
<1> QED
  BY <1>1, <1>2

(* While nothing troubles the run, what is to come stays so until it is     *)
(* seen: a reference is dropped only when its page is known or none is.     *)
LEMMA ComingGrows ==
  ASSUME OnePathEach, TInv, ArrivalInv, KnownInv, RefsTyped, HandInv, SmoothInv,
         [Next]_vars, Smooth', ~ StartDownload, NEW x \in Coming
  PROVE  x \in Coming'
<1>1. ASSUME seen \subseteq seen', refs \subseteq refs', pending \subseteq pending'
      PROVE  x \in Coming'
  BY <1>1 DEF Coming, FoundPaths
<1>2. CASE SkippedJob \/ StoreFile \/ RecordFile \/ JobsEnd
  BY <1>1, <1>2 DEF SkippedJob, StoreFile, RecordFile, JobsEnd, processVars
<1>3. CASE WavesEnd \/ MakeAlias \/ AliasesEnd \/ UNCHANGED vars
  BY <1>1, <1>3 DEF WavesEnd, MakeAlias, AliasesEnd, vars, processVars
<1>4. CASE WaveResolved
  BY <1>1, <1>4 DEF WaveResolved, Smooth
<1>5. CASE NextWave
  <2>1. /\ phase = "waves" /\ UNCHANGED seen
        /\ pending' = {CHOOSE u \in Unchecked : Normalized(u) = key :
                         key \in {Normalized(u) : u \in Unchecked}}
    BY <1>5 DEF NextWave
  <2>2. pending = {}
    BY <2>1 DEF HandInv, PendingRight
  <2>3. CASE x \in FoundPaths(refs)
    <3>1. PICK u \in refs : Found(u) # None /\ x = PathOf(Found(u))
      BY <2>3, FoundPathsMeans
    <3>2. IsUrl(u) /\ StandsFor(Normalized(u), Found(u)) /\ Found(u) \in Archive
      BY <3>1, FoundStands DEF RefsTyped, StandsFor
    <3>3. CASE u \in Unchecked
      <4>1. PICK w \in pending' : w \in Unchecked /\ Normalized(w) = Normalized(u)
        <5>1. PICK w : w = CHOOSE v \in Unchecked : Normalized(v) = Normalized(u)
          OBVIOUS
        <5>2. w \in Unchecked /\ Normalized(w) = Normalized(u)
          BY <3>3, <5>1
        <5>3. w \in pending'
          BY <2>1, <3>3, <5>1
        <5> QED
          BY <5>2, <5>3
      <4>2. IsUrl(w) /\ StandsFor(Normalized(w), Found(u))
        BY <3>2, <4>1 DEF RefsTyped, Unchecked
      <4>3. Found(w) # None /\ PathOf(Found(w)) = x
        BY <3>1, <4>2, StandingIsFound
      <4> QED
        BY <4>1, <4>3, FoundPathsMeans DEF Coming
    <3>4. CASE Normalized(u) \in checked
      <4>1. Reached(Normalized(u))
        BY <1>5, <2>2, <3>4, SmoothBefore DEF SmoothInv, CheckedReached
      <4>2. x \in seen
        BY <3>1, <3>2, <4>1 DEF Reached
      <4> QED
        BY <2>1, <4>2 DEF Coming
    <3> QED
      BY <3>1, <3>3, <3>4 DEF Unchecked
  <2> QED
    BY <2>1, <2>2, <2>3 DEF Coming
<1>6. CASE ResolveReference
  <2>1. PICK u \in pending :
          /\ IsUrl(u) /\ pending' = pending \ {u}
          /\ \/ KnownPath(u, known) # None /\ UNCHANGED seen
             \/ Found(u) = None /\ UNCHANGED seen
             \/ Found(u) # None /\ seen' = seen \cup {PathOf(Found(u))}
          /\ UNCHANGED refs
    BY <1>6, Resolving
  <2>2. CASE x \in seen
    BY <2>1, <2>2 DEF Coming
  <2>3. CASE x \in FoundPaths(refs \cup pending)
    <3>1. PICK v \in refs \cup pending : Found(v) # None /\ x = PathOf(Found(v))
      BY <2>3, FoundPathsMeans
    <3>2. CASE v # u
      <4>1. v \in refs' \cup pending'
        BY <2>1, <3>2
      <4> QED
        BY <3>1, <4>1, FoundPathsMeans DEF Coming
    <3>3. CASE v = u /\ KnownPath(u, known) # None /\ UNCHANGED seen
      <4>1. PICK k \in DOMAIN known : \E e : known[k] = PathOf(e) /\ StandsFor(Normalized(u), e)
        BY <2>1, <3>3, KnownPathRight
      <4>2. known[k] = x
        BY <2>1, <3>1, <3>3, <4>1, FoundStands, StandingPathsAgree
      <4> QED
        BY <3>3, <4>2 DEF HandInv, SeenRight, Coming
    <3> QED
      BY <2>1, <3>1, <3>2, <3>3 DEF Coming
  <2> QED
    BY <2>2, <2>3 DEF Coming
<1> QED
  BY <1>2, <1>3, <1>4, <1>5, <1>6, SmoothBefore

LEMMA LedSame ==
  ASSUME NEW q, disk'[q] = disk[q], UNCHANGED evidence, NEW x \in Led(q)'
  PROVE  x \in Led(q)
BY DEF Led, Opens, Recalled, AbsoluteUrls, Journalled, FoundPaths

(* A page just recorded leads to what was seen or what it refers to.        *)
LEMMA RecordedLeads ==
  ASSUME TInv, IInv, ArrivalInv, HandInv, FreshInv, [Next]_vars, RecordFile,
         NEW path, path = Current.path, NEW x \in Led(path)'
  PROVE  x \in seen \/ x \in Coming'
<1>1. PICK c : c = Current.record
  OBVIOUS
<1>2. /\ phase = "recording" /\ jobs # <<>> /\ path \in Places
      /\ evidence'[path] = c
      /\ \A p \in Places : p # path => evidence'[p] = evidence[p]
      /\ refs' = refs \cup References(c)
      /\ UNCHANGED disk
  BY <1>1, JournalGrows DEF RecordFile
<1>3. c # None /\ c \in Archive /\ path = PathOf(c)
  BY <1>1, <1>2, CurrentTyped, CurrentRight, ArchiveAssumption DEF IsRightAt, HandInv
<1>4. \A link \in disk[path].links : FreshLink(c, path, link, seen)
  BY <1>1, <1>2 DEF FreshInv
<1>5. CASE x \in FoundPaths(References(c))
  BY <1>2, <1>5 DEF Coming, FoundPaths
<1>6. \A u : u \notin WorthFollowing(AbsoluteUrls(path)')
  <2>1. ASSUME NEW u \in WorthFollowing(AbsoluteUrls(path)') PROVE FALSE
    <3>1. IsWorth(u) /\ u \in AbsoluteUrls(path)'
      BY <2>1, WorthMeans
    <3>2. PICK link \in disk[path].links : link.ref.kind = "absolute" /\ u = link.ref.url
      BY <1>2, <3>1 DEF AbsoluteUrls
    <3> QED
      BY <1>4, <3>1, <3>2 DEF FreshLink
  <2> QED
    BY <2>1
<1>7. ASSUME NEW y \in FoundPaths(Recalled(path)') PROVE y \in FoundPaths(References(c))
  <2>1. PICK u \in Recalled(path)' : Found(u) # None /\ y = PathOf(Found(u))
    BY <1>7, FoundPathsMeans
  <2>2. u \in References(c)
    BY <1>2, <1>3, <1>6, <2>1 DEF Recalled, WorthFollowing
  <2> QED
    BY <2>1, <2>2, FoundPathsMeans
<1>8. CASE x \in Opens(path)' /\ x \in Journalled'
  <2>1. x \in CapturePaths
    <3>1. CASE x = path
      BY <1>3, <3>1 DEF CapturePaths
    <3>2. CASE x # path
      <4>1. x \in Places /\ evidence[x] # None
        BY <1>2, <1>8, <3>2 DEF Journalled
      <4>2. evidence[x] \in Archive /\ x = PathOf(evidence[x])
        BY <4>1 DEF HandInv, EntriesRight, IsRightAt, Journalled, TInv, OtherTypes
      <4> QED
        BY <4>2 DEF CapturePaths
    <3> QED
      BY <3>1, <3>2
  <2>2. PICK link \in disk[path].links : x = ResolveLocal(path, link.ref)
    BY <1>2, <1>8 DEF Opens
  <2>3. x \in seen \/ x \in FoundPaths(References(c))
    BY <1>4, <2>1, <2>2 DEF FreshLink, Referenced
  <2> QED
    BY <1>5, <2>3
<1>9. x \in FoundPaths(Recalled(path)') \/ (x \in Opens(path)' /\ x \in Journalled')
  BY <1>1, <1>2 DEF Led, FoundPaths
<1> QED
  BY <1>5, <1>7, <1>8, <1>9

LEMMA SeenStayLeading ==
  ASSUME OnePathEach, TInv, IInv, ArrivalInv, KnownInv, RefsTyped, HandInv, FreshInv, SmoothInv,
         [Next]_vars, Smooth'
  PROVE  SeenLead'
<1> SUFFICES ASSUME NEW q \in seen', HasFile(q)', ~ HasJob(q)', NEW x \in Led(q)'
             PROVE  x \in Coming'
  BY DEF SeenLead
<1>1. ~ StartDownload
  BY StartHasJobs
<1>2. /\ q \in seen /\ q \in Places
      /\ \A p \in seen : p \in seen'
      /\ ~ ResolveReference => UNCHANGED seen
  BY <1>1, SeenGrows DEF HandInv, SeenRight
<1>3. Smooth /\ SeenArrive /\ SeenLead
  BY <1>1, SmoothBefore DEF SmoothInv
<1>4. ASSUME HasFile(q), ~ HasJob(q), x \in Led(q) PROVE x \in Coming'
  BY <1>1, <1>2, <1>3, <1>4, ComingGrows DEF SeenLead
<1>5. ~ SkippedJob /\ ~ RecordFile => ~ HasJob(q)
  BY <1>1, SmoothJobs
<1>6. CASE JobsEnd \/ NextWave \/ ResolveReference \/ WaveResolved \/ WavesEnd \/ AliasesEnd
           \/ UNCHANGED vars
  <2>1. UNCHANGED <<disk, evidence>>
    BY <1>6 DEF JobsEnd, NextWave, ResolveReference, WaveResolved, WavesEnd, AliasesEnd, vars,
                diskVars
  <2>2. HasFile(q) /\ x \in Led(q)
    BY <2>1, LedSame DEF HasFile
  <2>3. ~ HasJob(q)
    <3>1. UNCHANGED jobs \/ ResolveReference
      BY <1>6 DEF JobsEnd, NextWave, WaveResolved, WavesEnd, AliasesEnd, vars, processVars
    <3>2. ResolveReference => ~ SkippedJob /\ ~ RecordFile
      BY DEF ResolveReference, SkippedJob, RecordFile, Downloading
    <3> QED
      BY <1>5, <3>1, <3>2 DEF HasJob
  <2> QED
    BY <1>4, <2>2, <2>3
<1>7. CASE StoreFile
  <2>1. /\ jobs # <<>> /\ UNCHANGED <<jobs, evidence>>
        /\ disk' = Put(Current.path, Saved(Current.record, Current.path, known))
    BY <1>7 DEF StoreFile, Downloading, processVars
  <2>2. ~ HasJob(q)
    BY <2>1 DEF HasJob
  <2>3. q # Current.path
    <3>1. 1 \in DOMAIN jobs /\ Current = jobs[1]
      BY <2>1 DEF TInv, JobsTyped, Current
    <3> QED
      BY <2>2, <3>1 DEF HasJob
  <2>4. HasFile(q) /\ disk'[q] = disk[q]
    BY <2>1, <2>3 DEF HasFile, Put
  <2> QED
    BY <1>4, <2>1, <2>2, <2>4, LedSame
<1>8. CASE MakeAlias
  <2>1. jobs = <<>> /\ UNCHANGED <<jobs, evidence>>
    BY <1>8, <1>3 DEF MakeAlias, Copies, ArrivalInv, PassInv, Smooth, DownloadPhases, processVars
  <2>2. ~ HasJob(q) /\ HasFile(q)
    BY <1>2, <1>3, <2>1 DEF HasJob, SeenArrive
  <2>3. PICK copy \in Copies : disk' = Put(copy.to, disk[copy.from])
    BY <1>8 DEF MakeAlias
  <2>4. disk'[q] = disk[q]
    BY <2>2, <2>3, AliasesAreNew DEF HasFile, Put
  <2> QED
    BY <1>4, <2>1, <2>2, <2>4, LedSame
<1>9. CASE SkippedJob
  <2>1. /\ refs' = refs \cup ResumedReferences(Current.path) /\ HasFile(Current.path)
        /\ UNCHANGED <<disk, evidence, seen>>
    BY <1>9 DEF SkippedJob, diskVars
  <2>2. HasFile(q) /\ x \in Led(q)
    BY <2>1, LedSame DEF HasFile
  <2>3. CASE HasJob(q)
    <3>1. q = Current.path
      BY <1>1, <2>3, SmoothJobs
    <3>2. x \in PrimaryPaths \/ x \in FoundPaths(ResumedReferences(q))
      BY <2>2, LedIsFollowed
    <3>3. x \in seen \/ x \in FoundPaths(ResumedReferences(Current.path))
      BY <1>3, <3>1, <3>2 DEF HandInv, SeenRight, Smooth
    <3> QED
      BY <2>1, <3>3 DEF Coming, FoundPaths
  <2> QED
    BY <1>4, <2>2, <2>3
<1>10. CASE RecordFile
  <2>1. /\ UNCHANGED <<disk, seen>> /\ jobs # <<>>
        /\ \A p \in Places : p # Current.path => evidence'[p] = evidence[p]
    BY <1>10, JournalGrows DEF RecordFile
  <2>2. CASE q = Current.path
    BY <1>2, <1>10, <2>1, <2>2, RecordedLeads DEF Coming
  <2>3. CASE q # Current.path
    <3>1. ~ HasJob(q) /\ HasFile(q)
      BY <1>1, <2>1, <2>3, SmoothJobs DEF HasFile
    <3>2. x \in Led(q) \/ x = Current.path
      <4>1. Recalled(q)' = Recalled(q) /\ Opens(q)' = Opens(q)
        BY <1>2, <2>1, <2>3 DEF Recalled, AbsoluteUrls, Opens
      <4>2. \A y \in Journalled' : y \in Journalled \/ y = Current.path
        BY <2>1 DEF Journalled
      <4> QED
        BY <4>1, <4>2 DEF Led, FoundPaths
    <3>3. Current.path \in seen
      BY <2>1, CurrentRight DEF HandInv
    <3> QED
      BY <1>4, <2>1, <3>1, <3>2, <3>3 DEF Coming
  <2> QED
    BY <2>2, <2>3
<1> QED
  BY <1>1, <1>6, <1>7, <1>8, <1>9, <1>10, SmoothBefore

LEMMA CheckedStayReached ==
  ASSUME OnePathEach, TInv, ArrivalInv, KnownInv, RefsTyped, HandInv, SmoothInv,
         [Next]_vars, Smooth'
  PROVE  CheckedReached'
<1>1. CASE StartDownload
  BY <1>1 DEF StartDownload, CheckedReached
<1>2. ASSUME ~ StartDownload, UNCHANGED <<checked, pending>> PROVE CheckedReached'
  BY <1>2, SeenGrows, SmoothBefore DEF SmoothInv, CheckedReached, Reached, StandsFor
<1>3. CASE SkippedJob \/ StoreFile \/ RecordFile \/ JobsEnd \/ WavesEnd \/ MakeAlias \/ AliasesEnd
           \/ UNCHANGED vars
  BY <1>1, <1>2, <1>3 DEF SkippedJob, StoreFile, RecordFile, JobsEnd, WavesEnd, MakeAlias,
                          AliasesEnd, vars, processVars
<1>4. CASE WaveResolved
  <2>1. ~ cancelled
    BY <1>4 DEF WaveResolved, Smooth
  <2> QED
    BY <1>1, <1>2, <1>4, <2>1 DEF WaveResolved
<1>5. CASE NextWave
  <2>1. /\ phase = "waves" /\ UNCHANGED seen
        /\ checked' = checked \cup {Normalized(u) : u \in Unchecked}
        /\ pending' = {CHOOSE u \in Unchecked : Normalized(u) = key :
                         key \in {Normalized(u) : u \in Unchecked}}
    BY <1>5 DEF NextWave
  <2>2. pending = {}
    BY <2>1 DEF HandInv, PendingRight
  <2>3. ~ StartDownload
    BY <2>1 DEF StartDownload, Ended
  <2>4. ASSUME NEW k \in checked' PROVE Reached(k)' \/ \E v \in pending' : Normalized(v) = k
    <3>1. CASE k \in checked
      <4>1. Reached(k)
        BY <2>2, <2>3, <3>1, SmoothBefore DEF SmoothInv, CheckedReached
      <4> QED
        BY <2>1, <4>1 DEF Reached, StandsFor
    <3>2. CASE k \in {Normalized(u) : u \in Unchecked}
      <4>1. PICK u \in Unchecked : Normalized(u) = k
        BY <3>2
      <4>2. PICK w : w = CHOOSE v \in Unchecked : Normalized(v) = k
        OBVIOUS
      <4>3. Normalized(w) = k
        BY <4>1, <4>2
      <4>4. w \in pending'
        BY <2>1, <3>2, <4>2
      <4> QED
        BY <4>3, <4>4
    <3> QED
      BY <2>1, <3>1, <3>2
  <2> QED
    BY <2>4 DEF CheckedReached
<1>6. CASE ResolveReference
  <2>1. PICK u \in pending :
          /\ IsUrl(u) /\ pending' = pending \ {u} /\ UNCHANGED checked
          /\ \/ KnownPath(u, known) # None /\ UNCHANGED seen
             \/ Found(u) = None /\ UNCHANGED seen
             \/ Found(u) # None /\ seen' = seen \cup {PathOf(Found(u))}
    BY <1>6, Resolving
  <2>2. ~ StartDownload
    BY <1>6 DEF StartDownload, Ended, ResolveReference
  <2>3. ASSUME NEW e \in Archive, StandsFor(Normalized(u), e) PROVE PathOf(e) \in seen'
    <3>1. Found(u) # None /\ PathOf(Found(u)) = PathOf(e)
      BY <2>1, <2>3, StandingIsFound
    <3>2. CASE KnownPath(u, known) # None /\ UNCHANGED seen
      <4>1. PICK k \in DOMAIN known : \E f : known[k] = PathOf(f) /\ StandsFor(Normalized(u), f)
        BY <2>1, <3>2, KnownPathRight
      <4>2. known[k] = PathOf(e)
        BY <2>3, <4>1, StandingPathsAgree
      <4> QED
        BY <3>2, <4>2 DEF HandInv, SeenRight
    <3> QED
      BY <2>1, <3>1, <3>2
  <2>4. ASSUME NEW k \in checked PROVE Reached(k)' \/ \E v \in pending' : Normalized(v) = k
    <3>1. Reached(k) \/ \E v \in pending : Normalized(v) = k
      BY <2>2, SmoothBefore DEF SmoothInv, CheckedReached
    <3>2. CASE Reached(k)
      BY <2>2, <3>2, SeenGrows DEF Reached, StandsFor
    <3>3. CASE k = Normalized(u)
      BY <2>3, <3>3 DEF Reached, StandsFor
    <3> QED
      BY <2>1, <3>1, <3>2, <3>3
  <2> QED
    BY <2>1, <2>4 DEF CheckedReached
<1> QED
  BY <1>1, <1>3, <1>4, <1>5, <1>6, SmoothBefore

LEMMA WavesStayOver ==
  ASSUME ArrivalInv, SmoothInv, [Next]_vars, Smooth'
  PROVE  WavesOver'
<1> USE DEF WavesOver
<1>1. CASE StartDownload
  BY <1>1 DEF StartDownload
<1>2. ~ StartDownload => Smooth /\ WavesOver
  BY SmoothBefore DEF SmoothInv
<1>3. CASE SkippedJob \/ StoreFile \/ RecordFile \/ NextWave \/ ResolveReference \/ WaveResolved
  BY <1>3 DEF SkippedJob, StoreFile, RecordFile, Downloading, NextWave, ResolveReference,
              WaveResolved
<1>4. CASE JobsEnd
  BY <1>4 DEF JobsEnd, Smooth
<1>5. CASE WavesEnd
  <2>1. Unchecked = {} /\ UNCHANGED <<refs, checked>>
    BY <1>5 DEF WavesEnd, Smooth
  <2> QED
    BY <2>1 DEF Unchecked
<1>6. CASE MakeAlias \/ AliasesEnd \/ UNCHANGED vars
  <2>1. UNCHANGED <<refs, checked>>
    BY <1>6 DEF MakeAlias, AliasesEnd, vars, processVars
  <2>2. phase' \in {"topics", "directories", "done"} => phase \in {"topics", "directories", "done"}
    BY <1>6 DEF MakeAlias, AliasesEnd, vars, processVars
  <2>3. ~ StartDownload \/ phase' = "jobs"
    BY DEF StartDownload
  <2> QED
    BY <1>2, <2>1, <2>2, <2>3 DEF Unchecked
<1> QED
  BY <1>1, <1>3, <1>4, <1>5, <1>6, SmoothBefore

LEMMA SmoothStays ==
  ASSUME OnePathEach
  PROVE  TInv /\ IInv /\ ArrivalInv /\ KnownInv /\ RefsTyped /\ HandInv /\ FreshInv /\ SmoothInv
           /\ [Next]_vars => SmoothInv'
BY SeenStayArriving, SeenStayLeading, CheckedStayReached, WavesStayOver DEF SmoothInv

(* Nothing is left out: the listed pages have files, and so have the pages  *)
(* that a journalled one refers to.                                         *)
Settled ==
  /\ \A p \in PrimaryPaths : HasFile(p)
  /\ \A p \in Journalled : \A x \in Referenced(evidence[p]) : HasFile(x)

(* When a run without trouble has nothing left to do, what it has seen is   *)
(* closed.                                                                  *)
LEMMA SmoothRunsSettle ==
  ASSUME OnePathEach, TInv, IInv, ArrivalInv, RefsTyped, HandInv, ReachInv, SmoothInv,
         Smooth, jobs = <<>>, pending = {}, Unchecked = {}
  PROVE  Settled /\ \A p \in seen : HasFile(p)
<1>1. \A p : ~ HasJob(p)
  BY DEF HasJob
<1>2. PrimaryPaths \subseteq seen /\ seen \in SUBSET Places
  BY DEF HandInv, SeenRight, Smooth
<1>3. ASSUME NEW x \in Coming PROVE x \in seen
  <2>1. CASE x \in FoundPaths(refs)
    <3>1. PICK u \in refs : Found(u) # None /\ x = PathOf(Found(u))
      BY <2>1, FoundPathsMeans
    <3>2. Normalized(u) \in checked
      BY <3>1 DEF Unchecked
    <3>3. Reached(Normalized(u))
      BY <3>2 DEF SmoothInv, CheckedReached
    <3>4. StandsFor(Normalized(u), Found(u)) /\ Found(u) \in Archive
      BY <3>1, FoundStands DEF RefsTyped, StandsFor
    <3> QED
      BY <3>1, <3>3, <3>4 DEF Reached
  <2> QED
    BY <2>1 DEF Coming
<1>4. \A p \in seen : HasFile(p)
  BY <1>1 DEF SmoothInv, SeenArrive
<1>5. \A q \in seen : Led(q) \subseteq seen
  BY <1>1, <1>3, <1>4 DEF SmoothInv, SeenLead
<1>6. Closed(seen)
  BY <1>2, <1>5 DEF Closed
<1>7. Journalled \subseteq seen
  BY <1>2, <1>6 DEF ReachInv, Reaches
<1>8. ASSUME NEW p \in Journalled, NEW x \in Referenced(evidence[p]) PROVE HasFile(x)
  <2>1. p \in seen /\ evidence[p] # None
    BY <1>7 DEF Journalled
  <2>2. x \in Led(p)
    BY <2>1 DEF Led, Recalled, Referenced, FoundPaths
  <2> QED
    BY <1>4, <1>5, <2>1, <2>2
<1> QED
  BY <1>2, <1>4, <1>8 DEF Settled

LEMMA NothingIsLost ==
  ASSUME OnePathEach, TInv, IInv, ArrivalInv, RefsTyped, HandInv, ReachInv, SmoothInv
  PROVE  ResumeLosesNothing
<1>1. ListedPagesArrive
  BY ArrivalFollows
<1>2. ASSUME phase = "done", ~ cancelled, gaps = {}, NEW p \in Places, evidence[p] # None,
             NEW u \in References(evidence[p]), Found(u) # None
      PROVE  HasFile(PathOf(Found(u)))
  <2>1. Smooth
    BY <1>2 DEF Smooth, DownloadPhases, ArrivalInv, PassInv
  <2>2. jobs = <<>> /\ pending = {} /\ Unchecked = {}
    BY <1>2, <2>1 DEF ArrivalInv, PassInv, HandInv, PendingRight, SmoothInv, WavesOver
  <2>3. Settled
    BY <2>1, <2>2, SmoothRunsSettle
  <2>4. PathOf(Found(u)) \in Referenced(evidence[p])
    BY <1>2, FoundPathsMeans DEF Referenced
  <2> QED
    BY <1>2, <2>3, <2>4 DEF Settled, Journalled
<1> QED
  BY <1>1, <1>2 DEF ResumeLosesNothing

LEMMA InitResumes == Init => HandInv /\ GuessInv /\ FreshInv /\ SmoothInv
BY DEF Init, HandInv, RefsRight, JobsRight, SeenRight, EntriesRight, PendingRight, Journalled,
       DownloadPhases, GuessInv, FreshInv, SmoothInv, Smooth

(* What is known of a resumed mirror in every state.                        *)
ResumeInv ==
  /\ TInv /\ IInv /\ ArrivalInv /\ RefsTyped /\ KnownInv
  /\ HandInv /\ GuessInv /\ FreshInv /\ ReachInv /\ SmoothInv

LEMMA InitResumed == Init => ResumeInv
BY InitTyped, InitEstablishes, InitArrives, InitResumes, ReachStarts
   DEF Init, ResumeInv, RefsTyped, KnownInv

LEMMA ResumeStays ==
  ASSUME OnePathEach, LinksAreClear
  PROVE  ResumeInv /\ [Next]_vars => ResumeInv'
<1> SUFFICES ASSUME ResumeInv, [Next]_vars PROVE ResumeInv'
  OBVIOUS
<1>1. TInv' /\ IInv' /\ RefsTyped' /\ KnownInv'
  BY TypesStay, NextPreserves, RefsStayTyped, KnownStays DEF ResumeInv
<1>2. ArrivalInv'
  BY PassesStay, ComingStays, StoredStays DEF ResumeInv, ArrivalInv
<1>3. HandInv' /\ GuessInv' /\ FreshInv'
  BY HandStays, GuessesStay, FreshStays DEF ResumeInv
<1>4. ReachInv' /\ SmoothInv'
  BY ReachStays, SmoothStays DEF ResumeInv
<1> QED
  BY <1>1, <1>2, <1>3, <1>4 DEF ResumeInv

(* On a site whose captures can be told apart by their addresses and whose  *)
(* links are clear, a download that meets no trouble leaves nothing out,    *)
(* whatever was cancelled, missed or killed in the runs before it           *)
(* (download_site, resumed_references, resolve_extra_download_jobs).        *)
THEOREM ResumedRunsLoseNothing ==
  ASSUME OnePathEach, LinksAreClear
  PROVE  Spec => []ResumeLosesNothing
<1>1. ResumeInv => ResumeLosesNothing
  BY NothingIsLost DEF ResumeInv
<1> QED
  BY <1>1, InitResumed, ResumeStays, PTL DEF Spec

-----------------------------------------------------------------------------
(* While nothing goes wrong every file is a whole page, at its own path if  *)
(* it is that of a capture, and each page of the archive that its links     *)
(* open is there, listed, referred to by it or just being downloaded. Once  *)
(* the waves are over no such page is missing.                              *)
HasEntry(c) == evidence[PathOf(c)] = c \/ (phase = "recording" /\ Current.record = c)
IsExpected(c, x) ==
  \/ x \in DOMAIN disk \/ x \in PrimaryPaths \/ x \in Referenced(c)
  \/ x \in seen /\ phase \in Running
CalmFile(p) ==
  /\ disk[p].state = "whole"
  /\ p \in CapturePaths => PathOf(disk[p].of) = p
  /\ HasEntry(disk[p].of)
  /\ \A link \in disk[p].links :
       LET x == ResolveLocal(p, link.ref) IN x \in CapturePaths => IsExpected(disk[p].of, x)
CalmInv ==
  incidents = 0 =>
    /\ ~ cancelled /\ gaps = {}
    /\ phase \notin Running => DOMAIN disk = {} \/ Settled
    /\ \A p \in DOMAIN disk : CalmFile(p)

LEMMA CalmFollows == CalmInv => AliasesFillGaps
<1> SUFFICES ASSUME CalmInv, incidents = 0, NEW p \in DOMAIN disk, p \in CapturePaths
             PROVE  IsOwn(p)
  BY DEF AliasesFillGaps, CapturePaths
<1> QED
  BY DEF CalmInv, CalmFile, IsOwn, IsWhole

(* The steps that are possible while nothing goes wrong.                    *)
LEMMA CalmSteps ==
  ASSUME TInv, CalmInv, [Next]_vars, incidents' = 0
  PROVE  /\ incidents = 0 /\ ~ cancelled /\ gaps = {} /\ ~ cancelled' /\ gaps' = {}
         /\ \/ StartDownload \/ StartOutputRepair \/ StartRepair
            \/ SkippedJob \/ StoreFile \/ RecordFile \/ JobsEnd
            \/ NextWave \/ ResolveReference \/ WaveResolved \/ WavesEnd
            \/ MakeAlias \/ AliasesEnd \/ RepairFile \/ RepairEnds \/ UNCHANGED vars
<1>1. incidents \in Nat
  BY ArchiveAssumption DEF TInv, OtherTypes
<1>2. incidents = 0 => ~ cancelled /\ gaps = {}
  BY DEF CalmInv
<1>3. ~ (Cancel \/ Kill \/ MissedJob \/ KillWhileCopying)
  <2>1. \A incident : ~ Happens(incident)
    BY <1>1 DEF Happens
  <2> QED
    BY <2>1 DEF Cancel, Kill, MissedJob, KillWhileCopying
<1>4. CASE StartDownload \/ StartOutputRepair \/ StartRepair \/ AliasesEnd \/ RepairFile
           \/ RepairEnds
  BY <1>2, <1>4 DEF StartDownload, StartOutputRepair, StartRepair, AliasesEnd, RepairFile,
                    RepairEnds, Forget, processVars
<1>5. CASE SkippedJob \/ StoreFile \/ RecordFile \/ JobsEnd \/ CancelledJob
  BY <1>2, <1>5 DEF SkippedJob, StoreFile, RecordFile, JobsEnd, CancelledJob, processVars
<1>6. CASE NextWave \/ ResolveReference \/ WaveResolved \/ WavesEnd
  <2>1. UNCHANGED <<cancelled, gaps, incidents>>
    BY <1>6 DEF NextWave, ResolveReference, WaveResolved, WavesEnd
  <2> QED
    BY <1>2, <1>6, <2>1
<1>7. CASE MakeAlias \/ UNCHANGED vars
  BY <1>2, <1>7 DEF MakeAlias, vars, processVars
<1> QED
  BY <1>3, <1>4, <1>5, <1>6, <1>7 DEF Next

(* An alias is made for a path that a page opens.                           *)
LEMMA CopyIsOpened ==
  ASSUME TInv, NEW copy \in Copies
  PROVE  \E p \in DOMAIN disk : \E link \in disk[p].links : copy.to = ResolveLocal(p, link.ref)
<1>1. /\ DOMAIN Pages = shelf /\ shelf \subseteq DOMAIN disk
      /\ \A p \in shelf : Pages[p].links = disk[p].links
  BY DEF Pages, TInv, OtherTypes
<1>2. PICK pl \in LinksOf(Pages) : copy.to = ResolveLocal(pl[1], pl[2].ref)
  <2>1. CASE phase = "topics"
    <3>1. copy \in TopicAliases(DOMAIN disk, Pages)
      BY <2>1 DEF Copies
    <3>2. PICK pl \in LinksOf(Pages) : /\ MissingTopic(DOMAIN disk, pl[1], pl[2]) # None
                                       /\ copy.to = MissingTopic(DOMAIN disk, pl[1], pl[2])
      BY <3>1 DEF TopicAliases
    <3> QED
      BY <3>2 DEF MissingTopic
  <2>2. CASE phase = "directories"
    <3>1. copy \in DirectoryAliases(DOMAIN disk, Pages)
      BY <2>2 DEF Copies
    <3> QED
      BY <3>1, DirectoryCopies
  <2>3. CASE phase \notin {"topics", "directories"}
    BY <2>3 DEF Copies
  <2> QED
    BY <2>1, <2>2, <2>3
<1>3. pl[1] \in DOMAIN Pages /\ pl[2] \in Pages[pl[1]].links
  BY DEF LinksOf
<1> QED
  BY <1>1, <1>2, <1>3

(* No alias takes the place of a page that the archive has.                 *)
LEMMA AliasesElsewhere ==
  ASSUME TInv, CalmInv, incidents = 0, NEW copy \in Copies
  PROVE  copy.to \notin CapturePaths
<1> SUFFICES ASSUME copy.to \in CapturePaths PROVE FALSE
  OBVIOUS
<1>1. phase \in {"topics", "directories"}
  BY DEF Copies
<1>2. phase \notin Running /\ phase # "recording"
  BY <1>1 DEF Running
<1>3. PICK p \in DOMAIN disk : \E link \in disk[p].links : copy.to = ResolveLocal(p, link.ref)
  BY CopyIsOpened
<1>4. PICK c : c = disk[p].of
  OBVIOUS
<1>5. Settled /\ CalmFile(p)
  BY <1>2, <1>3 DEF CalmInv
<1>6. evidence[PathOf(c)] = c /\ IsExpected(c, copy.to)
  BY <1>2, <1>3, <1>4, <1>5 DEF CalmFile, HasEntry
<1>7. c \in Archive /\ PathOf(c) \in Journalled
  <2>1. c \in Archive
    BY <1>4 DEF TInv, FilesTyped, IsFile
  <2> QED
    BY <1>6, <2>1, PathsOfCaptures, ArchiveAssumption DEF Journalled
<1>8. copy.to \in PrimaryPaths \/ copy.to \in Referenced(c)
  BY <1>2, <1>6, AliasesAreNew DEF IsExpected
<1>9. HasFile(copy.to)
  BY <1>5, <1>6, <1>7, <1>8 DEF Settled
<1> QED
  BY <1>9, AliasesAreNew DEF HasFile

LEMMA SettledStays ==
  ASSUME TInv, [Next]_vars, Settled, UNCHANGED evidence
  PROVE  Settled'
<1>1. Journalled' = Journalled
  BY DEF Journalled
<1>2. ASSUME NEW p \in Journalled', NEW x \in Referenced(evidence[p])' PROVE HasFile(x)'
  <2>1. p \in Journalled /\ x \in Referenced(evidence[p])
    BY <1>1, <1>2 DEF Referenced, FoundPaths
  <2>2. HasFile(x)
    BY <2>1 DEF Settled
  <2> QED
    BY <2>2, FilesStay
<1>3. ASSUME NEW p \in PrimaryPaths PROVE HasFile(p)'
  BY <1>3, FilesStay DEF Settled
<1> QED
  BY <1>2, <1>3 DEF Settled, Referenced, FoundPaths

LEMMA CalmDisk ==
  ASSUME TInv, CalmInv, [Next]_vars, incidents' = 0
  PROVE  /\ \/ UNCHANGED disk
            \/ StoreFile /\ disk' = Put(Current.path, Saved(Current.record, Current.path, known))
            \/ MakeAlias /\ \E copy \in Copies : disk' = Put(copy.to, disk[copy.from])
            \/ RepairFile /\ DOMAIN disk' = DOMAIN disk
         /\ DOMAIN disk \subseteq DOMAIN disk'
         /\ DOMAIN disk = {} => DOMAIN disk' = {} \/ StoreFile
<1>1. CASE StartDownload \/ StartOutputRepair \/ StartRepair \/ SkippedJob \/ RecordFile \/ JobsEnd
  BY <1>1 DEF StartDownload, StartOutputRepair, StartRepair, SkippedJob, RecordFile, JobsEnd,
              diskVars
<1>2. CASE NextWave \/ ResolveReference \/ WaveResolved \/ WavesEnd \/ AliasesEnd \/ RepairEnds
           \/ UNCHANGED vars
  <2>1. UNCHANGED disk
    BY <1>2 DEF NextWave, ResolveReference, WaveResolved, WavesEnd, AliasesEnd, RepairEnds, vars,
                diskVars
  <2> QED
    BY <2>1
<1>3. CASE StoreFile
  BY <1>3 DEF StoreFile, Put
<1>4. CASE MakeAlias
  <2>1. PICK copy \in Copies : disk' = Put(copy.to, disk[copy.from])
    BY <1>4 DEF MakeAlias
  <2>2. copy.from \in DOMAIN disk
    BY CopiesTyped
  <2>3. DOMAIN disk \subseteq DOMAIN disk'
    BY <2>1 DEF Put
  <2> QED
    BY <1>4, <2>1, <2>2, <2>3
<1>5. CASE RepairFile
  BY <1>5, RepairedFiles
<1> QED
  BY <1>1, <1>2, <1>3, <1>4, <1>5, CalmSteps

(* Without trouble a download ends when its waves do.                       *)
LEMMA CalmEnd ==
  ASSUME TInv, ArrivalInv, HandInv, CalmInv, [Next]_vars, incidents' = 0,
         phase \in Running, phase' \notin Running
  PROVE  WavesEnd /\ Smooth /\ jobs = <<>> /\ pending = {} /\ Unchecked = {}
<1> USE DEF Running
<1>1. ~ cancelled /\ gaps = {}
  BY CalmSteps
<1>2. CASE StartDownload \/ StartOutputRepair \/ StartRepair \/ SkippedJob \/ StoreFile
           \/ RecordFile
  BY <1>2 DEF StartDownload, StartOutputRepair, StartRepair, SkippedJob, StoreFile, RecordFile,
              Downloading, Ended
<1>3. CASE JobsEnd
  BY <1>1, <1>3 DEF JobsEnd
<1>4. CASE NextWave \/ ResolveReference \/ WaveResolved
  BY <1>4 DEF NextWave, ResolveReference, WaveResolved
<1>5. CASE MakeAlias \/ AliasesEnd \/ RepairFile \/ RepairEnds \/ UNCHANGED vars
  BY <1>5 DEF MakeAlias, AliasesEnd, RepairFile, RepairEnds, vars, Copies
<1>6. CASE WavesEnd
  BY <1>1, <1>6 DEF WavesEnd, Smooth, DownloadPhases, ArrivalInv, PassInv, HandInv, PendingRight
<1> QED
  BY <1>2, <1>3, <1>4, <1>5, <1>6, CalmSteps

LEMMA CalmRunsSettle ==
  ASSUME OnePathEach, ResumeInv, CalmInv, [Next]_vars, incidents' = 0, phase' \notin Running
  PROVE  DOMAIN disk' = {} \/ Settled'
<1> USE DEF ResumeInv
<1>1. CASE phase \notin Running
  <2>1. ~ RecordFile /\ ~ StoreFile
    BY <1>1 DEF RecordFile, StoreFile, Downloading, Running
  <2>2. UNCHANGED evidence
    BY <2>1, JournalGrows
  <2>3. DOMAIN disk = {} \/ Settled
    BY <1>1, CalmSteps DEF CalmInv
  <2> QED
    BY <2>1, <2>2, <2>3, CalmDisk, SettledStays
<1>2. CASE phase \in Running
  <2>1. WavesEnd /\ Smooth /\ jobs = <<>> /\ pending = {} /\ Unchecked = {}
    BY <1>2, CalmEnd
  <2>2. Settled
    BY <2>1, SmoothRunsSettle
  <2>3. UNCHANGED evidence
    BY <2>1 DEF WavesEnd, diskVars
  <2> QED
    BY <2>2, <2>3, SettledStays
<1> QED
  BY <1>1, <1>2

LEMMA CalmExpected ==
  ASSUME OnePathEach, ResumeInv, CalmInv, [Next]_vars, incidents' = 0,
         NEW c, NEW x, IsExpected(c, x)
  PROVE  IsExpected(c, x)'
<1> USE DEF ResumeInv
<1>1. CASE x \in DOMAIN disk
  BY <1>1, CalmDisk DEF IsExpected
<1>2. CASE x \in PrimaryPaths \/ x \in Referenced(c)
  BY <1>2 DEF IsExpected, Referenced, FoundPaths
<1>3. CASE x \in seen /\ phase \in Running /\ phase' \in Running
  <2>1. ~ StartDownload
    BY <1>3 DEF StartDownload, Ended, Running
  <2>2. Smooth'
    <3>1. PassInv'
      BY PassesStay
    <3>2. ~ cancelled' /\ gaps' = {}
      BY CalmSteps
    <3> QED
      BY <1>3, <3>1, <3>2 DEF Smooth, PassInv, Running, DownloadPhases
  <2>3. x \in seen'
    BY <1>3, <2>1, <2>2, SeenGrows
  <2> QED
    BY <1>3, <2>3 DEF IsExpected
<1>4. CASE x \in seen /\ phase \in Running /\ phase' \notin Running
  <2>1. Smooth /\ jobs = <<>> /\ pending = {} /\ Unchecked = {}
    BY <1>4, CalmEnd
  <2>2. HasFile(x)
    BY <1>4, <2>1, SmoothRunsSettle
  <2> QED
    BY <2>2, CalmDisk DEF HasFile, IsExpected
<1> QED
  BY <1>1, <1>2, <1>3, <1>4 DEF IsExpected

LEMMA CalmEntry ==
  ASSUME ResumeInv, CalmInv, [Next]_vars, incidents' = 0, NEW c \in Archive, HasEntry(c)
  PROVE  HasEntry(c)'
<1> USE DEF ResumeInv
<1>1. CASE evidence[PathOf(c)] = c
  BY <1>1, JournalGrows, PathsOfCaptures, ArchiveAssumption DEF HasEntry
<1>2. CASE phase = "recording" /\ Current.record = c
  <2>1. jobs # <<>>
    BY <1>2 DEF TInv, JobsTyped
  <2>2. Current.path = PathOf(c)
    BY <1>2, <2>1, CurrentRight DEF IsRightAt, HandInv
  <2>3. CASE RecordFile
    BY <1>2, <2>2, <2>3, JournalGrows DEF HasEntry
  <2>4. CASE UNCHANGED vars
    BY <1>2, <2>4 DEF HasEntry, vars, processVars, diskVars, Current
  <2>5. CASE StartDownload \/ StartOutputRepair \/ StartRepair \/ SkippedJob \/ StoreFile \/ JobsEnd
    BY <1>2, <2>5 DEF StartDownload, StartOutputRepair, StartRepair, SkippedJob, StoreFile, JobsEnd,
                      Downloading, Ended
  <2>6. CASE NextWave \/ ResolveReference \/ WaveResolved \/ WavesEnd
    BY <1>2, <2>6 DEF NextWave, ResolveReference, WaveResolved, WavesEnd
  <2>7. CASE MakeAlias \/ AliasesEnd \/ RepairFile \/ RepairEnds
    BY <1>2, <2>7 DEF MakeAlias, AliasesEnd, RepairFile, RepairEnds, Copies
  <2> QED
    BY <2>3, <2>4, <2>5, <2>6, <2>7, CalmSteps
<1> QED
  BY <1>1, <1>2 DEF HasEntry

LEMMA CalmFiles ==
  ASSUME OnePathEach, LinksAreClear, ResumeInv, CalmInv, [Next]_vars, incidents' = 0,
         NEW p \in DOMAIN disk'
  PROVE  CalmFile(p)'
<1> USE DEF ResumeInv
<1>1. \A q \in DOMAIN disk : CalmFile(q) /\ disk[q].of \in Archive
  BY CalmSteps DEF CalmInv, TInv, FilesTyped, IsFile
<1>2. ASSUME p \in DOMAIN disk, disk'[p].state = disk[p].state, disk'[p].of = disk[p].of,
             \A link \in disk'[p].links :
               link \in disk[p].links \/ ResolveLocal(p, link.ref) \in DOMAIN disk
      PROVE  CalmFile(p)'
  <2>1. PICK c \in Archive : c = disk[p].of /\ c = disk'[p].of
    BY <1>1, <1>2
  <2>2. HasEntry(c)'
    BY <1>1, <1>2, <2>1, CalmEntry DEF CalmFile
  <2>3. ASSUME NEW link \in disk'[p].links, ResolveLocal(p, link.ref) \in CapturePaths
        PROVE  IsExpected(c, ResolveLocal(p, link.ref))'
    <3>1. IsExpected(c, ResolveLocal(p, link.ref))
      BY <1>1, <1>2, <2>1, <2>3 DEF CalmFile, IsExpected
    <3> QED
      BY <3>1, CalmExpected
  <2>4. disk'[p].state = "whole" /\ (p \in CapturePaths => PathOf(c) = p)
    BY <1>1, <1>2, <2>1 DEF CalmFile
  <2> QED
    BY <2>1, <2>2, <2>3, <2>4 DEF CalmFile
<1>3. ASSUME NEW q, NEW file, disk' = Put(q, file), p # q PROVE CalmFile(p)'
  <2>1. p \in DOMAIN disk /\ disk'[p] = disk[p]
    BY <1>3 DEF Put
  <2> QED
    BY <1>2, <2>1
<1>4. CASE UNCHANGED disk
  BY <1>2, <1>4
<1>5. CASE StoreFile /\ disk' = Put(Current.path, Saved(Current.record, Current.path, known))
  <2>1. PICK path, c, file : /\ path = Current.path /\ c = Current.record
                             /\ file = Saved(Current.record, Current.path, known)
    OBVIOUS
  <2>2. /\ phase' = "recording" /\ disk' = Put(path, file)
        /\ c \in Archive /\ path = PathOf(c)
        /\ \A link \in file.links : FreshLink(c, path, link, seen)
    BY <1>5, <2>1, StoredPage DEF ArrivalInv
  <2>3. UNCHANGED <<jobs, seen>>
    BY <1>5 DEF StoreFile, processVars
  <2>4. CASE p = path
    <3>1. file.of = c /\ file.state = "whole" /\ disk'[p] = file
      BY <2>1, <2>2, <2>4 DEF Saved, Put
    <3>2. HasEntry(c)'
      BY <2>1, <2>2, <2>3 DEF HasEntry, Current
    <3>3. ASSUME NEW link \in file.links, ResolveLocal(p, link.ref) \in CapturePaths
          PROVE  IsExpected(c, ResolveLocal(p, link.ref))'
      BY <2>2, <2>3, <2>4, <3>3 DEF FreshLink, IsExpected, Running
    <3> QED
      BY <2>2, <2>4, <3>1, <3>2, <3>3 DEF CalmFile
  <2> QED
    BY <1>3, <2>2, <2>4
<1>6. CASE MakeAlias /\ \E copy \in Copies : disk' = Put(copy.to, disk[copy.from])
  <2>1. PICK copy \in Copies : disk' = Put(copy.to, disk[copy.from])
    BY <1>6
  <2>2. /\ copy.from \in DOMAIN disk /\ IsPath(copy.to) /\ copy.to \notin CapturePaths
    BY CopiesTyped, AliasesElsewhere, CalmSteps
  <2>3. PICK c \in Archive : c = disk[copy.from].of
    BY <1>1, <2>2
  <2>4. CASE p = copy.to
    <3>1. disk'[p] = disk[copy.from] /\ CalmFile(copy.from)
      BY <1>1, <2>1, <2>2, <2>4 DEF Put
    <3>2. HasEntry(c)'
      BY <2>3, <3>1, CalmEntry DEF CalmFile
    <3>3. ASSUME NEW link \in disk[copy.from].links, ResolveLocal(p, link.ref) \in CapturePaths
          PROVE  IsExpected(c, ResolveLocal(p, link.ref))'
      <4>1. ResolveLocal(p, link.ref) = ResolveLocal(copy.from, link.ref)
        BY <2>2, <2>4, CopyOpensAsSource
      <4>2. IsExpected(c, ResolveLocal(p, link.ref))
        BY <2>3, <3>1, <3>3, <4>1 DEF CalmFile
      <4> QED
        BY <4>2, CalmExpected
    <3> QED
      BY <2>2, <2>3, <2>4, <3>1, <3>2, <3>3 DEF CalmFile
  <2> QED
    BY <1>3, <2>1, <2>4
<1>7. CASE RepairFile
  <2>1. p \in DOMAIN disk /\ disk'[p].state = disk[p].state /\ disk'[p].of = disk[p].of
    BY <1>7, RepairedFiles
  <2>2. \A link \in disk'[p].links :
          link \in disk[p].links \/ ResolveLocal(p, link.ref) \in DOMAIN disk
    BY <1>7, <2>1, RepairedLinks
  <2> QED
    BY <1>2, <2>1, <2>2
<1> QED
  BY <1>4, <1>5, <1>6, <1>7, CalmDisk

LEMMA CalmStays ==
  ASSUME OnePathEach, LinksAreClear
  PROVE  ResumeInv /\ CalmInv /\ [Next]_vars => CalmInv'
<1> SUFFICES ASSUME ResumeInv, CalmInv, [Next]_vars, incidents' = 0
             PROVE  /\ ~ cancelled' /\ gaps' = {}
                    /\ phase' \notin Running => DOMAIN disk' = {} \/ Settled'
                    /\ \A p \in DOMAIN disk' : CalmFile(p)'
  BY DEF CalmInv
<1>1. ~ cancelled' /\ gaps' = {}
  BY CalmSteps DEF ResumeInv
<1> QED
  BY <1>1, CalmRunsSettle, CalmFiles

(* On such a site an alias takes no place of an archived page as long as    *)
(* nothing goes wrong: the pages come before the aliases (download_site,    *)
(* create_missing_topic_aliases, create_missing_directory_aliases).         *)
THEOREM AliasesOnlyFillGaps ==
  ASSUME OnePathEach, LinksAreClear
  PROVE  Spec => []AliasesFillGaps
<1>1. Init => CalmInv
  BY DEF Init, CalmInv
<1>2. CalmInv => AliasesFillGaps
  BY CalmFollows
<1> QED
  BY <1>1, <1>2, InitResumed, ResumeStays, CalmStays, PTL DEF Spec
=============================================================================
