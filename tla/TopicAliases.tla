----------------------------- MODULE TopicAliases -----------------------------
(***************************************************************************)
(* Which copies of saved pages stand in for missing ones, and which links   *)
(* the offline repair changes: src/src/alias_repair.rs and                  *)
(* repair_local_navigation_html of src/src/link_validation.rs.              *)
(*                                                                          *)
(* files is the set of paths with a file. pages maps the HTML files among   *)
(* them to what is read in them: [title, posts, usable, links], the title   *)
(* of a topic or None, the ids of its posts, and a set of links [ref, text, *)
(* post, row]: the post its fragment names and the list row it stands in,   *)
(* or None.                                                                 *)
(***************************************************************************)
EXTENDS SiteMapper

IsTopic(path) ==
  LET parts == LastOf(path).parts
  IN  Len(parts) >= 2 /\ SubSeq(parts, 1, 2) = <<"viewtopic", "php">>

IsTopicCopy(path) ==
  LastOf(path).parts = <<"viewtopic", "php", "html">> /\ LastOf(path).hash # None

(* build_topic_title_index and build_post_anchor_index, of one directory.   *)
Topics(pages, dir) == {p \in DOMAIN pages : IsTopic(p) /\ FrontOf(p) = dir}
Titled(pages, dir, title) == {p \in Topics(pages, dir) : pages[p].title = title}
HoldersOf(pages, dir, post) == {p \in Topics(pages, dir) : post \in pages[p].posts}

(* The first of the candidates, in the fixed order of their paths.          *)
First(S) == CHOOSE p \in S : TRUE

(* missing_topic_target: the topic page a link misses, or None.             *)
MissingTopic(files, page, link) ==
  LET target == ResolveLocal(page, link.ref)
  IN  IF target # None /\ target \notin files /\ target # <<>> /\ IsTopicCopy(target)
      THEN target ELSE None

(* container_alias_source: a link beside this one tells which of the topics *)
(* with its title is meant.                                                 *)
ToldBySibling(files, pages, page, link, titled, dir) ==
  {p \in titled :
     /\ link.row # None
     /\ \E s \in pages[page].links :
          /\ s.row = link.row
          /\ <<s.ref, s.post>> # <<link.ref, link.post>>
          /\ \/ ResolveLocal(page, s.ref) = p /\ p \in files
             \/ s.post # None /\ p \in HoldersOf(pages, dir, s.post)}

(* alias_source_for_link: by the post a link names, by the page it stands   *)
(* on, by the title it shows, and by its row if several have that title.    *)
AliasSource(files, pages, page, link, target) ==
  LET dir == FrontOf(target)
      here == FrontOf(page) = dir
      holders == HoldersOf(pages, dir, link.post)
      titled == Titled(pages, dir, link.text)
      told == ToldBySibling(files, pages, page, link, titled, dir)
  IN  IF link.post # None /\ here /\ link.post \in pages[page].posts THEN page
      ELSE IF link.post # None /\ holders # {} THEN First(holders)
      ELSE IF here /\ pages[page].title # None
              /\ link.text \in {"print view", pages[page].title} THEN page
      ELSE IF Cardinality(titled) = 1 THEN First(titled)
      ELSE IF told # {} THEN First(told)
      ELSE None

LinksOf(pages) == UNION {{<<p, link>> : link \in pages[p].links} : p \in DOMAIN pages}

(* create_missing_topic_aliases: the copies to make, as [from, to].         *)
TopicAliases(files, pages) ==
  LET missing == {pl \in LinksOf(pages) : MissingTopic(files, pl[1], pl[2]) # None}
      copies == {LET to == MissingTopic(files, pl[1], pl[2])
                 IN  [from |-> AliasSource(files, pages, pl[1], pl[2], to), to |-> to] :
                 pl \in missing}
  IN  {copy \in copies : copy.from # None}

(* create_missing_directory_aliases: index.htm for a missing index.html.    *)
DirectoryAliases(files, pages) ==
  LET targets == {ResolveLocal(pl[1], pl[2].ref) : pl \in LinksOf(pages)} \ {None, <<>>}
      beside(t) == Append(FrontOf(t), IndexHtm)
  IN  {[from |-> beside(t), to |-> t] :
         t \in {m \in targets : /\ LastOf(m) = IndexHtml /\ ~ TargetExists(files, m)
                               /\ beside(m) \in DOMAIN pages /\ pages[beside(m)].usable}}

-----------------------------------------------------------------------------
\* repair_local_navigation_html.
ScriptExtensions == {"php", "cgi", "asp", "aspx", "jsp", "cfm"}
ASSUME SuffixAssumption == None \notin ScriptExtensions

SessionKeys == {"sid", "sessionid", "session_id", "phpsessid", "jsessionid", "aspsessionid",
                "cfid", "cftoken"}

AsHtml(name) == [name EXCEPT !.parts = Append(@, "html")]
ToHtml(path) == Append(FrontOf(path), AsHtml(LastOf(path)))

(* existing_html_navigation_target: a missing script without a query of its *)
(* own whose HTML counterpart was saved.                                    *)
Repairable(files, saved, page, ref) ==
  LET target == ResolveLocal(page, ref)
  IN  /\ target \notin {None, <<>>}
      /\ ref.down # <<>>
      /\ ~ TargetExists(files, target)
      /\ Extension(LastOf(target).parts) \in ScriptExtensions
      /\ ref.query = None \/ \A pair \in ref.query : pair.key \in SessionKeys
      /\ ToHtml(target) \in saved

\* Not the code: the session goes, the suffix is forgotten.
WithoutSession(ref) == [ref EXCEPT !.query = None]

(* The reference does not end in a slash.                                   *)
RepairedRef(ref) == [ref EXCEPT !.down = ToHtml(@), !.query = None]
=============================================================================
