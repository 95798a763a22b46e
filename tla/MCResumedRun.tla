----------------------------- MODULE MCResumedRun -----------------------------
(* ResumedRun for a small forum at example.org. Only the home page, the     *)
(* press page and a photo are in the listing; the topics are reached by     *)
(* links, under other spellings, and one of them in a cycle. The paths      *)
(* guessed for the photo and for the file "readme" are not the ones they are*)
(* stored at.                                                               *)
EXTENDS ResumedRun

Same(part) == part
MCRootHost == <<"example", "org">>

Url(host, segs, slash, query) ==
  [scheme |-> "http", host |-> host, port |-> None, segs |-> segs, slash |-> slash,
   query |-> query]
Pair(k, v) == [key |-> k, value |-> v]
Files == <<"files", "example", "org">>
Www == <<"www", "example", "org">>

Href(segs, slash, query) ==
  [Local(FALSE, 0, [i \in DOMAIN segs |-> Name(segs[i])], query) EXCEPT !.slash = slash]
Link(ref, text, post, row) ==
  [ref |-> ref, kind |-> "document", text |-> text, post |-> post, row |-> row]
Topic == <<"viewtopic", "php">>
Page(url, title, posts, links) ==
  [url |-> url, mime |-> "text/html", title |-> title, posts |-> posts, usable |-> TRUE,
   links |-> links]

Home ==
  Page(Url(MCRootHost, <<>>, TRUE, None), None, {},
       {Link(Href(<<Topic>>, FALSE, {Pair("t", "1")}), "Help", None, None),
        Link(Href(<<Topic>>, FALSE, {Pair("t", "2"), Pair("sid", "7")}), "Help", None, None),
        Link(Href(<<Topic>>, FALSE, {Pair("p", "9")}), "Last post", "9", None),
        Link(Href(<<<<"press">>>>, TRUE, None), "Press", None, None),
        Link(Href(<<<<"faq", "php">>>>, FALSE, {Pair("sid", "7")}), "FAQ", None, None),
        Link(Href(<<<<"photo", "jpg">>>>, FALSE, None), "Photo", None, None)})
Photo ==
  [Page(Url(MCRootHost, <<<<"photo", "jpg">>>>, FALSE, None), None, {}, {}) EXCEPT
     !.mime = "image/jpeg"]
Press == Page(Url(MCRootHost, <<<<"press">>, <<"index", "htm">>>>, FALSE, None), None, {}, {})
Topic1 ==
  Page(Url(MCRootHost, <<Topic>>, FALSE, {Pair("t", "1")}), "Help", {"9"},
       {Link(Absolute(Url(Www, <<>>, TRUE, None)), "Home", None, None),
        Link(Href(<<Topic>>, FALSE, {Pair("t", "3")}), "Help", None, "list"),
        Link(Href(<<Topic>>, FALSE, {Pair("p", "9")}), "Last post", "9", "list"),
        Link(Href(<<Topic>>, FALSE, {Pair("t", "1"), Pair("mode", "print")}), "print view", None, None)})
PrintView == Page(Url(MCRootHost, <<Topic>>, FALSE, {Pair("t", "1"), Pair("mode", "print")}), None, {}, {})
Topic2 ==
  Page(Url(Www, <<Topic>>, FALSE, {Pair("t", "2")}), "Help", {},
       {Link(Href(<<<<"faq", "php">>>>, FALSE, None), "FAQ", None, None),
        Link(Absolute(Url(Files, <<<<"readme">>>>, FALSE, None)), "Files", None, None)})
Readme ==
  [Page(Url(Files, <<<<"readme">>>>, FALSE, None), None, {}, {}) EXCEPT !.mime = "text/plain"]
Faq == Page(Url(MCRootHost, <<<<"faq", "php">>>>, FALSE, None), None, {}, {})

MCListing == <<Home, Press, Photo>>
MCArchive == {Home, Press, Photo, Topic1, Topic2, Faq, Readme, PrintView}

ASSUME MCClear == OnePathEach /\ LinksAreClear
=============================================================================
