---------------------------- MODULE SnapshotFetch ----------------------------
(***************************************************************************)
(* Fetching one archived file from Wayback (src/src/downloader.rs):         *)
(*   "stream"    download_record_to_file                                    *)
(*   "limited"   download_record_to_file_limited, with a cap on the bytes   *)
(*   "buffered"  fetch_record_bytes_with_alternate_capture, for pages that  *)
(*               are inspected and rewritten before they are saved          *)
(* The three loops retry transient failures without limit, switch between   *)
(* the direct route and SSH, and move to another indexed capture of the     *)
(* same file when a replay is missing (404, 410, 451) or cannot be read.    *)
(* Ctrl-C may come at any time.                                             *)
(***************************************************************************)
EXTENDS RetryDelay, Sequences, WaybackClient

CONSTANTS
  Captures,      \* replay identities: pairs (timestamp, original URL)
  Selected,      \* the capture the file was selected with
  Targets,       \* Targets[c]: fallback_capture_targets of c's original URL
  Listing,       \* Listing[t]: captures an exact CDX lookup of t returns, in order
  Oversized,     \* captures whose CDX length exceeds the cap
  AlternateAfter,\* SNAPSHOT_ALTERNATE_CAPTURE_AFTER_ATTEMPTS
  SshAfterErrors \* direct 5xx answers in a row before SSH is tried (retry.rs)

CaptureSets == SUBSET Captures
ListedFor(c) ==
  UNION {{Listing[Targets[c][i]][j] : j \in DOMAIN Listing[Targets[c][i]]} : i \in DOMAIN Targets[c]}

ASSUME CapturesAssumption ==
  /\ Selected \in Captures
  /\ Oversized \subseteq Captures
  /\ AlternateAfter \in 1 .. MaxRetryShift + 1
  /\ SshAfterErrors \in 0 .. MaxRetryShift

ASSUME IndexAssumption ==
  /\ \A c \in Captures : Targets[c] \in Seq(DOMAIN Listing)
  /\ \A t \in DOMAIN Listing : Listing[t] \in Seq(Captures)

(* The index answers alike for every spelling it maps to one file: whatever *)
(* an alternate capture was found through, its own lookups cover what the   *)
(* later lookups of the capture it replaces would have returned.            *)
ASSUME VariantsAgreeAssumption ==
  \A c \in Captures : \A i \in DOMAIN Targets[c] :
    \A j \in DOMAIN Listing[Targets[c][i]] : \A k \in i .. Len(Targets[c]) :
      \A m \in DOMAIN Listing[Targets[c][k]] :
        Listing[Targets[c][k]][m] \in ListedFor(Listing[Targets[c][i]][j])

VARIABLES
  mode,       \* which of the three loops runs
  nature,     \* nature[c]: what a replay of c that Wayback serves is like
  pc, current, attempt, sleepIn, failure,
  seen,       \* seen_records: captures already selected or switched to
  outcome,    \* how the fetch ended
  cancelled,  \* the CancellationFlag
  dest, temp  \* the destination and its temporary file

fetchVars == <<pc, current, attempt, sleepIn, failure, seen, outcome, dest, temp>>
vars == <<fetchVars, routeVars, mode, nature, cancelled>>

Modes == {"stream", "limited", "buffered"}
(* "large" bodies are longer than the cap, whatever CDX says. Of pages,     *)
(* "error" is an archived error or redirect page, and "foreign" a page that *)
(* does not mention the site.                                               *)
Natures == {"good", "large", "error", "foreign", "missing", "broken"}
NaturesOf(loop) ==
  {"good", "missing", "broken"}
    \cup (CASE loop = "stream" -> {} [] loop = "limited" -> {"large"}
            [] loop = "buffered" -> {"error", "foreign"})
Failures == {"none", "429", "403", "5xx", "connect", "body", "missing"}
Outcomes == {"none", "saved", "too large", "unavailable", "failed", "interrupted"}

Old == [kind |-> "old"]
SavedFrom(c) == [kind |-> "capture", of |-> c]

Init ==
  /\ RouteInit
  /\ mode \in Modes
  /\ nature \in [Captures -> NaturesOf(mode)]
  /\ pc = "request"
  /\ current = Selected
  /\ attempt = 0
  /\ sleepIn = 0
  /\ failure = "none"
  /\ seen = {Selected}
  /\ outcome = "none"
  /\ cancelled = FALSE
  /\ dest = Old
  /\ temp = FALSE

-----------------------------------------------------------------------------
Finish(how) ==
  /\ pc' = "done"
  /\ outcome' = how
  /\ failure' = "none"
  /\ UNCHANGED <<current, attempt, sleepIn, seen>>

\* Not the code: every retry starts counting again.
RetryAfresh(delay) ==
  /\ pc' = "sleeping"
  /\ sleepIn' = delay
  /\ attempt' = 0
  /\ failure' = "none"
  /\ UNCHANGED <<current, seen, outcome>>

(* retry_snapshot_after_status / _after_error up to the sleep itself.       *)
RetryIn(delay) ==
  /\ pc' = "sleeping"
  /\ sleepIn' = delay
  /\ attempt' = Bump(attempt)
  /\ failure' = "none"
  /\ UNCHANGED <<current, seen, outcome>>

(* A failure for which another route is tried before anything else.         *)
TrySwitching(why) ==
  /\ pc' = "switching"
  /\ failure' = why
  /\ SwitchRoute
  /\ UNCHANGED <<current, attempt, sleepIn, seen, outcome>>

LookForAlternate(why) ==
  /\ pc' = "looking up"
  /\ failure' = why
  /\ UNCHANGED <<current, attempt, sleepIn, seen, outcome>>

(* fetch_snapshot_response_once, by what it returns.                        *)
Served ==
  /\ pc = "request"
  /\ nature[current] # "missing"
  /\ pc' = "reading"
  /\ temp' = (mode # "buffered")
  /\ UNCHANGED <<current, attempt, sleepIn, failure, seen, outcome, dest, routeVars>>

(* Content-Length already exceeds the cap: no temporary file is created.    *)
DeclaredTooLarge ==
  /\ pc = "request"
  /\ mode = "limited"
  /\ nature[current] = "large"
  /\ Finish("too large")
  /\ UNCHANGED <<dest, temp, routeVars>>

Missing ==
  /\ pc = "request"
  /\ nature[current] = "missing"
  /\ LookForAlternate("missing")
  /\ UNCHANGED <<dest, temp, routeVars>>

(* should_try_ssh_after_status.                                             *)
RetryableStatus(why) ==
  /\ pc = "request"
  /\ why \in {"429", "5xx"}
  /\ IF why = "429" \/ (active = Direct /\ attempt >= SshAfterErrors)
     THEN TrySwitching(why)
     ELSE (\E delay \in StatusDelays(attempt) : RetryIn(delay)) /\ UNCHANGED routeVars
  /\ UNCHANGED <<dest, temp>>

Unreached(why) ==
  /\ pc = "request"
  /\ why \in {"connect", "403"}
  /\ TrySwitching(why)
  /\ UNCHANGED <<dest, temp>>

(* Any other error status, or an error of send() that is neither a failed   *)
(* connection nor a timeout.                                                *)
Rejected ==
  /\ pc = "request"
  /\ Finish("failed")
  /\ UNCHANGED <<dest, temp, routeVars>>

\* Not the code: the bytes that arrive are not counted.
BodyArrivesUncounted ==
  /\ pc = "reading"
  /\ nature[current] # "broken"
  /\ Finish("saved")
  /\ dest' = IF mode = "buffered" THEN dest ELSE SavedFrom(current)
  /\ temp' = FALSE
  /\ UNCHANGED routeVars

(* The body arrives in full: the temporary file is renamed into place, or   *)
(* the bytes are handed to the caller.                                      *)
BodyArrives ==
  /\ pc = "reading"
  /\ nature[current] # "broken"
  /\ mode = "limited" => nature[current] # "large"
  /\ Finish("saved")
  /\ dest' = IF mode = "buffered" THEN dest ELSE SavedFrom(current)
  /\ temp' = FALSE
  /\ UNCHANGED routeVars

BodyTooLarge ==
  /\ pc = "reading"
  /\ mode = "limited"
  /\ nature[current] = "large"
  /\ Finish("too large")
  /\ temp' = FALSE
  /\ UNCHANGED <<dest, routeVars>>

\* Not the code: the temporary file is left behind.
BodyFailsUntidily ==
  /\ pc = "reading"
  /\ TrySwitching("body")
  /\ UNCHANGED <<dest, temp>>

(* Reading or decoding the body fails, a timeout included.                  *)
BodyFails ==
  /\ pc = "reading"
  /\ TrySwitching("body")
  /\ temp' = FALSE
  /\ UNCHANGED dest

(* The temporary file cannot be created, written or renamed.                *)
WriteFails ==
  /\ pc = "reading"
  /\ mode # "buffered"
  /\ Finish("failed")
  /\ temp' = FALSE
  /\ UNCHANGED <<dest, routeVars>>

RouteSearch ==
  /\ pc \in {"switching", "looking up"}
  /\ SearchStep
  /\ UNCHANGED fetchVars

(* A CDX lookup goes through the same client and may switch routes too.     *)
LookupSwitchesRoute ==
  /\ pc = "looking up"
  /\ SwitchRoute
  /\ UNCHANGED fetchVars

(* A new route is tried at once with a fresh attempt counter. Without one,  *)
(* only the streamed loops consider another capture after body failures     *)
(* (maybe_switch_to_alternate_snapshot).                                    *)
SwitchAnswered ==
  /\ pc = "switching"
  /\ search.phase = "none"
  /\ IF switched
     THEN pc' = "request" /\ attempt' = 0 /\ failure' = "none"
          /\ UNCHANGED <<current, sleepIn, seen, outcome>>
     ELSE IF failure = "403"
     THEN Finish("failed")
     ELSE IF failure = "body" /\ mode # "buffered" /\ attempt + 1 >= AlternateAfter
     THEN LookForAlternate("body")
     ELSE \E delay \in IF failure \in {"429", "5xx"} THEN StatusDelays(attempt)
                       ELSE {Backoff(attempt)} : RetryIn(delay)
  /\ UNCHANGED <<dest, temp, routeVars>>

-----------------------------------------------------------------------------
(* alternate_snapshot_candidate_from_records over each target in turn: the  *)
(* first capture not seen before; oversized ones are passed over when there *)
(* is a cap, and are not remembered.                                        *)
Eligible(c) == mode = "limited" => c \notin Oversized
\* Not the code: only the current capture is passed over.
OtherCaptures(target) ==
  {j \in DOMAIN Listing[target] : Listing[target][j] # current /\ Eligible(Listing[target][j])}

Candidates(target) ==
  {j \in DOMAIN Listing[target] : Listing[target][j] \notin seen /\ Eligible(Listing[target][j])}
\* Not the code: the lookups stop after the first URL.
FirstTargetOnly == {i \in DOMAIN Targets[current] : i = 1 /\ Candidates(Targets[current][i]) # {}}

OpenTargets == {i \in DOMAIN Targets[current] : Candidates(Targets[current][i]) # {}}

First(positions) == {i \in positions : \A k \in positions : i <= k}

SwitchTo(next) ==
  /\ current' = next
  /\ seen' = seen \cup {next}
  /\ attempt' = 0
  /\ pc' = "request"
  /\ failure' = "none"
  /\ UNCHANGED <<sleepIn, outcome>>

(* Without a candidate, a missing replay is reported as unavailable and an  *)
(* unreadable one is retried. A cancelled run finds no candidate.           *)
NoAlternate ==
  IF failure = "missing"
  THEN Finish("unavailable")
  ELSE RetryIn(Backoff(attempt))

LookupAnswers ==
  /\ pc = "looking up"
  /\ search.phase = "none"
  /\ IF cancelled \/ OpenTargets = {}
     THEN NoAlternate
     ELSE \E i \in First(OpenTargets) :
            LET target == Targets[current][i]
            IN  \E j \in First(Candidates(target)) : SwitchTo(Listing[target][j])
  /\ UNCHANGED <<dest, temp, routeVars>>

(* The CDX lookup itself fails: never taken for a missing snapshot.         *)
LookupFails ==
  /\ pc = "looking up"
  /\ search.phase = "none"
  /\ IF failure = "missing" THEN Finish("failed") ELSE RetryIn(Backoff(attempt))
  /\ UNCHANGED <<dest, temp, routeVars>>

-----------------------------------------------------------------------------
(* sleep_before_snapshot_retry looks at the flag before every second.       *)
WakeUp ==
  /\ pc = "sleeping"
  /\ sleepIn = 0
  /\ pc' = "request"
  /\ UNCHANGED <<current, attempt, sleepIn, failure, seen, outcome, dest, temp, routeVars>>

\* Not the code: the flag ends the wait and the fetch goes on.
InterruptedSleepRetries ==
  /\ pc = "sleeping"
  /\ sleepIn > 0
  /\ cancelled
  /\ pc' = "request"
  /\ sleepIn' = 0
  /\ UNCHANGED <<current, attempt, failure, seen, outcome, dest, temp, routeVars>>

InterruptSleep ==
  /\ pc = "sleeping"
  /\ sleepIn > 0
  /\ cancelled
  /\ Finish("interrupted")
  /\ UNCHANGED <<dest, temp, routeVars>>

(* Once cancelled, a sleep lasts no longer than the step it is in; in its   *)
(* last step it ends without another look at the flag.                      *)
Tick ==
  /\ pc # "done"
  /\ pc = "sleeping" /\ cancelled => sleepIn = 1
  /\ RouteTick
  /\ sleepIn' = Elapse(sleepIn)
  /\ UNCHANGED <<pc, current, attempt, failure, seen, outcome, dest, temp>>

Cancel ==
  /\ ~ cancelled
  /\ pc # "done"
  /\ cancelled' = TRUE
  /\ UNCHANGED <<fetchVars, routeVars, mode, nature>>

Answer ==
  \/ Served
  \/ DeclaredTooLarge
  \/ Missing
  \/ \E why \in {"429", "5xx"} : RetryableStatus(why)
  \/ \E why \in {"connect", "403"} : Unreached(why)
  \/ Rejected
  \/ BodyArrives
  \/ BodyTooLarge
  \/ BodyFails
  \/ WriteFails
  \/ LookupAnswers
  \/ LookupFails

Program == RouteSearch \/ SwitchAnswered \/ WakeUp \/ InterruptSleep

Steady(A) == A /\ UNCHANGED <<mode, nature, cancelled>>

Next ==
  Steady(Answer) \/ Steady(Program) \/ Steady(LookupSwitchesRoute) \/ Steady(Tick) \/ Cancel

(* Requests and lookups end, if only by their timeout, and time goes on.    *)
Fairness == WF_vars(Steady(Answer)) /\ WF_vars(Steady(Program)) /\ WF_vars(Steady(Tick))

Spec == Init /\ [][Next]_vars /\ Fairness
=============================================================================
