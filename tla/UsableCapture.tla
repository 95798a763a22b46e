---------------------------- MODULE UsableCapture ----------------------------
(***************************************************************************)
(* What becomes of a page that was fetched by the buffered loop of          *)
(* SnapshotFetch and turns out to be an archived error or redirect page     *)
(* (src/src/downloader.rs, maybe_replace_unusable_capture): every capture   *)
(* of the page is tried in turn until one is usable and mentions the site.  *)
(* The fetch of a candidate, fetch_record_bytes, is one step here: it is    *)
(* the loop of SnapshotFetch without the switch to other captures.          *)
(***************************************************************************)
EXTENDS SnapshotFetch

CONSTANTS
  Inspected, \* captures for which should_detect_soft_redirect holds
  Digest,    \* Digest[c]: the digest CDX gives for a capture
  NoDigest   \* the digest "-" or an empty one

ASSUME DigestAssumption == Inspected \subseteq Captures /\ Captures \subseteq DOMAIN Digest

VARIABLE hunt  \* where find_usable_capture is, and the capture that is kept

usableVars == <<vars, hunt>>

Phases == {"off", "hunting", "over"}
Hunt(phase, targets, queue, digests, kept) ==
  [phase |-> phase, targets |-> targets, queue |-> queue, digests |-> digests, kept |-> kept]

ServedNatures == Natures \ {"missing", "broken"}

(* Replays with the same digest have the same body.                         *)
HuntInit ==
  /\ hunt = Hunt("off", <<>>, <<>>, {}, Selected)
  /\ \A c, d \in Captures :
       /\ Digest[c] = Digest[d] /\ Digest[c] # NoDigest
       /\ {nature[c], nature[d]} \subseteq ServedNatures
       => nature[c] = nature[d]

-----------------------------------------------------------------------------
ErrorPage(c) == c \in Inspected /\ nature[c] = "error"

(* remember_digest.                                                         *)
Remembered(digests, c) == digests \cup ({Digest[c]} \ {NoDigest})

(* A page that is usable, or not inspected, is kept as it is.               *)
Inspect ==
  /\ pc = "done" /\ outcome = "saved" /\ mode = "buffered"
  /\ hunt.phase = "off"
  /\ hunt' = IF ErrorPage(current)
             THEN Hunt("hunting", Targets[current], <<>>, Remembered({}, current), current)
             ELSE Hunt("over", <<>>, <<>>, {}, current)

Hunting == hunt.phase = "hunting"
Candidate == Head(hunt.queue)
Over(kept) == hunt' = Hunt("over", <<>>, <<>>, {}, kept)
NextCandidate == hunt' = [hunt EXCEPT !.queue = Tail(@)]

(* The exact lookup of the next URL of the page.                            *)
ListCandidates ==
  /\ Hunting
  /\ hunt.queue = <<>> /\ hunt.targets # <<>>
  /\ hunt' = Hunt("hunting", Tail(hunt.targets), Listing[Head(hunt.targets)], hunt.digests, hunt.kept)

(* A lookup fails: the error page is kept.                                  *)
ListingFails ==
  /\ Hunting
  /\ hunt.queue = <<>> /\ hunt.targets # <<>>
  /\ Over(current)

(* The capture itself, a body already seen, and what is not a page.         *)
PassedOver(c) == c = current \/ Digest[c] \in hunt.digests \/ c \notin Inspected

PassOver ==
  /\ Hunting
  /\ hunt.queue # <<>>
  /\ ~ cancelled
  /\ PassedOver(Candidate)
  /\ NextCandidate

Tries == Hunting /\ hunt.queue # <<>> /\ ~ cancelled /\ ~ PassedOver(Candidate)

\* Not the code: the digest is remembered before the body is there.
CandidateFailsRemembered ==
  /\ Tries
  /\ hunt' = [hunt EXCEPT !.queue = Tail(@), !.digests = Remembered(@, Candidate)]

CandidateFails ==
  /\ Tries
  /\ NextCandidate

(* is_unusable_html_capture and mentions_site_identity of its body.         *)
CandidateServed ==
  /\ Tries
  /\ nature[Candidate] \in ServedNatures
  /\ IF nature[Candidate] = "good" THEN Over(Candidate)
     ELSE hunt' = [hunt EXCEPT !.queue = Tail(@), !.digests = Remembered(@, Candidate)]

HuntCancelled ==
  /\ Hunting
  /\ hunt.queue # <<>>
  /\ cancelled
  /\ Over(current)

NothingUsable ==
  /\ Hunting
  /\ hunt.queue = <<>> /\ hunt.targets = <<>>
  /\ Over(current)

CancelHunt ==
  /\ Hunting
  /\ ~ cancelled
  /\ cancelled' = TRUE
  /\ UNCHANGED <<fetchVars, routeVars, mode, nature, hunt>>

HuntStep ==
  \/ Inspect \/ ListCandidates \/ ListingFails \/ PassOver
  \/ CandidateFails \/ CandidateServed \/ HuntCancelled \/ NothingUsable
=============================================================================
