---------------------------- MODULE MCCdxSearch ----------------------------
(* CdxSearch with observers: variables that remember what happened, read by *)
(* the properties and by no action of the model.                            *)
EXTENDS CdxSearch

(* Originals 2 and 3 differ by a fragment only.                             *)
MCCanonical == <<"home", "page", "page">>
Line(time, original) == [time |-> time, original |-> original]
MCBodies ==
  {<<Line(2, 3), Line(3, 1), Line(3, 2)>>, <<Line(1, 2), Line(1, 3), Line(1, 2)>>,
   <<Line(1, 1), Malformed>>}

VARIABLES
  quiet,     \* time since the last request was sent, up to MaxInterval
  owed,      \* time left of the wait the last failure asked for
  accepted,  \* requests accepted since the last HTTP 429, up to the threshold
  probe      \* the request in flight follows a cooldown of MaxRetryDelay

observers == <<quiet, owed, accepted, probe>>
mcVars == <<vars, observers>>

Sends == pc = "waiting" /\ pc' = "sent"
StartsSleeping == pc = "backing off" /\ pc' = "sleeping"
AsksToWait == /\ pc \in {"sent", "reading"}
              /\ pc' \in {"switching", "backing off"}
              /\ failure'.why # "403"
Reroutes == pc = "switching" /\ pc' = "waiting"

MCInit ==
  /\ Init
  /\ quiet = MaxInterval
  /\ owed = 0
  /\ accepted = 0
  /\ probe = FALSE

ObserveStep ==
  /\ quiet' = IF Sends THEN 0 ELSE quiet
  /\ owed' = IF AsksToWait THEN Longest(owed, failure'.delay)
             ELSE IF Reroutes THEN 0 ELSE owed
  /\ accepted' = IF failure' # failure /\ failure'.why = "429" THEN 0
                 ELSE IF pc = "sent" /\ pc' = "reading" /\ accepted < SuccessesBeforeSpeedup
                 THEN accepted + 1 ELSE accepted
  /\ probe' = IF Sends THEN resetPending ELSE probe /\ pc' # "waiting"

ObserveTick ==
  /\ quiet' = IF quiet < MaxInterval THEN quiet + 1 ELSE quiet
  /\ owed' = IF owed > 0 THEN owed - 1 ELSE 0
  /\ UNCHANGED <<accepted, probe>>

MCNext == (Step /\ ObserveStep) \/ (Tick /\ ObserveTick)

MCSpec == MCInit /\ [][MCNext]_mcVars /\ Fairness

-----------------------------------------------------------------------------
(* Requests of one run, whatever they fetch and however they fail, are at   *)
(* least MinInterval apart, route switches and immediate retries included   *)
(* (MIN_CDX_REQUEST_INTERVAL, reserve_cdx_request_at).                      *)
RequestsApart == [][Sends => quiet >= MinInterval]_mcVars

(* A wait is owed from the moment a failure asks for it, Retry-After        *)
(* included, and however long the routes are then searched: no request is   *)
(* sent before it is over, unless the search found another route. That one  *)
(* is asked at once, and the wait is dropped with it (src/src/cdx.rs:379).  *)
NoRequestWhileOwed == [][Sends => owed = 0]_mcVars

(* The spacing is relaxed only after CDX_SUCCESSES_BEFORE_SPEEDUP accepted  *)
(* requests since Wayback last answered 429.                                *)
SpeedupIsEarned ==
  [][interval' < interval => accepted + 1 >= SuccessesBeforeSpeedup]_mcVars

(* Of the failures that may pass, a connection lost while the body arrives  *)
(* is the only one that ends fetch_all_records: failed requests, 429, 5xx   *)
(* and timeouts are retried at any point of the exchange, whatever routes   *)
(* and attempts lie in between (is_cdx_connectivity_error).                 *)
OnlyLostBodiesAreFinal ==
  lookup = "all" /\ result \in Transient => result = "read error"

(* A lookup that succeeds, after however many broken bodies and retries,    *)
(* returns of its last answer: for a discovery one record for each URL, no  *)
(* other capture of that URL being preferred to it, in the order of their   *)
(* originals; for any other lookup all records, as often as the answer has  *)
(* them, preferred captures first (src/src/cdx.rs:174-288).                 *)
ListingIsSelection ==
  result = "ok" =>
    LET answer == Returned(lookup)
    IN  IF lookup = "all"
        THEN /\ answer \in Rearrangements(body)
             /\ \A i, j \in DOMAIN answer : Preferred(answer[i], answer[j]) => i < j
        ELSE /\ \A i \in DOMAIN answer : answer[i] \in RecordsOf(body)
             /\ \A i, j \in DOMAIN answer :
                  /\ Key(answer[i]) = Key(answer[j]) => i = j
                  /\ i < j => answer[i].original <= answer[j].original
             /\ \A r \in RecordsOf(body) : \E i \in DOMAIN answer :
                  Key(answer[i]) = Key(r) /\ ~ Preferred(r, answer[i])

(* Of the bodies that begin to arrive, again and again one does to the end. *)
BodyIsRead == pc = "reading" /\ (MoreLines => NextLine = Malformed)
BodiesArrive ==
  /\ []<>(pc = "reading") => []<>BodyIsRead
  /\ SF_vars(ReadBody \/ LineRefused)

(* Where some route is not blocked, ssh starts when it is asked often       *)
(* enough, and Wayback accepts a request and delivers a body when asked     *)
(* often enough through a route it does not block, every lookup ends.       *)
LookupsEnd ==
  /\ blocked # Routes
  /\ SF_vars(TunnelReady /\ RouteSearch)
  /\ SF_vars(Accepted)
  /\ BodiesArrive
  => []<>(pc = "idle")

(* After a cooldown of the maximal length the next failure asks for a       *)
(* shorter wait.                                                            *)
ShortProbeAfterLongCooldown ==
  [][StartsSleeping /\ probe => sleepIn' < MaxRetryDelay]_mcVars

(* No failure of reading a body that may pass ends a lookup, the first      *)
(* discovery included.                                                      *)
BodyFailuresAreRetried == result \notin ReadFailures
=============================================================================
