-------------------------- MODULE MCSnapshotFetch --------------------------
(* SnapshotFetch and UsableCapture on three captures of one file: the       *)
(* selected one, a variant spelling of its URL that CDX reports as longer   *)
(* than the cap, and one found only under the normalized URL that has the   *)
(* digest of the variant. Observers remember what was asked.                *)
EXTENDS UsableCapture

MCCaptures == {"a1", "b1", "n1"}
MCTargets == [a1 |-> <<"A", "N">>, b1 |-> <<"B", "N">>, n1 |-> <<"N">>]
MCListing == [A |-> <<"b1", "a1">>, B |-> <<"b1", "a1">>, N |-> <<"b1", "n1">>]
MCDigest == [a1 |-> NoDigest, b1 |-> "same", n1 |-> "same"]

VARIABLES
  asked,    \* captures whose replay Wayback has answered for
  lost      \* captures the hunt failed to fetch, all of them if a lookup failed

mcVars == <<usableVars, asked, lost>>

MCInit == Init /\ HuntInit /\ asked = {} /\ lost = {}

Asks == pc = "request" /\ pc' \in {"reading", "looking up"}

FetchNext ==
  /\ Next
  /\ asked' = IF Asks THEN asked \cup {current} ELSE asked
  /\ UNCHANGED <<hunt, lost>>

HuntNext ==
  /\ HuntStep
  /\ lost' = IF ListingFails THEN Captures
             ELSE IF CandidateFails THEN lost \cup {Candidate} ELSE lost
  /\ UNCHANGED <<vars, asked>>

MCNext == FetchNext \/ HuntNext \/ (CancelHunt /\ UNCHANGED <<asked, lost>>)

MCSpec == MCInit /\ [][MCNext]_mcVars /\ Fairness

-----------------------------------------------------------------------------
TypeOK ==
  /\ RouteTypeOK
  /\ mode \in Modes
  /\ pc \in {"request", "reading", "switching", "looking up", "sleeping", "done"}
  /\ current \in Captures
  /\ seen \in CaptureSets
  /\ attempt \in 0 .. MaxRetryShift
  /\ sleepIn \in 0 .. MaxRetryDelay
  /\ failure \in Failures
  /\ outcome \in Outcomes
  /\ temp \in BOOLEAN
  /\ hunt.phase \in Phases /\ hunt.kept \in Captures

(* A fetch that was not cancelled reports a file as unavailable only when   *)
(* Wayback has answered for the selected capture and for every eligible one *)
(* that the index lists under the file's original or normalized URL.        *)
UnavailableMeansAllTried ==
  outcome = "unavailable" /\ ~ cancelled =>
    \A c \in ListedFor(Selected) : Eligible(c) => c \in asked

(* However the lookups and the captures' spellings overlap, a fetch never   *)
(* goes back to a capture it has already asked Wayback for, so a cycle of   *)
(* captures cannot keep it busy for ever.                                   *)
NoCaptureTwice == [][current' # current => current' \notin asked]_mcVars

(* The destination only ever changes from the file that was there to the    *)
(* whole body of one capture, with the fetch succeeding and no temporary    *)
(* file left; a failed, refused or interrupted transfer leaves it alone.    *)
DestinationIsWhole ==
  /\ outcome # "none" => ~ temp
  /\ IF outcome = "saved" /\ mode # "buffered"
     THEN dest = SavedFrom(current) /\ nature[current] \notin {"broken", "missing"}
     ELSE dest = Old

(* No file longer than the cap is saved, whichever capture it comes from    *)
(* and whatever length CDX gave for it.                                     *)
CapHolds ==
  mode = "limited" /\ dest # Old => nature[dest.of] # "large" /\ (dest.of = Selected \/ dest.of \notin Oversized)

LookupsAnswered == SF_vars(Steady(LookupAnswers \/ LookupFails))

(* After Ctrl-C a fetch that no longer finds a usable SSH route ends once   *)
(* the requests and the lookup in flight have been answered, whatever       *)
(* retries and captures it was going through.                               *)
CancelledFetchEnds ==
  LookupsAnswered /\ <>[](active = Direct) => (cancelled ~> pc = "done")

(* After Ctrl-C every fetch ends once the requests and the lookup in flight *)
(* have been answered.                                                      *)
CtrlCStopsFetch == LookupsAnswered => (cancelled ~> pc = "done")

(* The fetch holds on to a capture that cannot be read although the index   *)
(* offers another one.                                                      *)
Stuck == pc # "done" /\ nature[current] = "broken" /\ OpenTargets # {}

WaybackAnswers == SF_vars(Steady(Served)) /\ SF_vars(Steady(LookupAnswers))

(* A streamed fetch that ends up on the direct route leaves a capture that  *)
(* can never be read for another one (SNAPSHOT_ALTERNATE_CAPTURE_AFTER_-    *)
(* ATTEMPTS), provided Wayback serves it and answers lookups often enough.  *)
StreamLeavesUnreadable ==
  mode # "buffered" /\ WaybackAnswers /\ <>[](active = Direct) => []<>(~ Stuck)

(* An archived error page is kept only if no listed capture of the page     *)
(* that could be fetched is usable: neither the failure of one candidate    *)
(* nor what was learnt from another hides a third                           *)
(* (src/src/downloader.rs:2951-3026).                                       *)
UsableIsFound ==
  hunt.phase = "over" /\ ~ cancelled /\ ErrorPage(hunt.kept) =>
    \A c \in ListedFor(current) \cap Inspected : nature[c] = "good" => c \in lost

(* Every fetch leaves a capture that can never be read for another one.     *)
UnreadableIsLeft == WaybackAnswers => []<>(~ Stuck)
=============================================================================
