----------------------------- MODULE CdxSearch -----------------------------
(***************************************************************************)
(* CDX lookups of src/src/cdx.rs: fetch_latest_records (the first discovery *)
(* of a run) and fetch_all_records (every other lookup), each sending its   *)
(* request with send_cdx_request, which retries without limit, paces itself *)
(* by CDX_COOLDOWN and switches routes through the WaybackClient.           *)
(*                                                                         *)
(* The program downloads one file at a time, so there is one lookup at a    *)
(* time, and they follow one another for the whole run. Wayback and ssh are *)
(* the environment: any answer may come, except that a blocked route only   *)
(* ever refuses.                                                            *)
(***************************************************************************)
EXTENDS CdxCooldown, CdxListing, WaybackClient

CONSTANT
  SshAfterErrors \* direct 5xx answers in a row before SSH is tried (retry.rs)

ASSUME SshAfterErrorsAssumption == SshAfterErrors \in 0 .. MaxRetryShift

VARIABLES
  pc,           \* where the lookup is
  lookup,       \* "latest" (fetch_latest_records) or "all" (fetch_all_records)
  attempt,      \* attempt of send_cdx_request
  readAttempt,  \* attempt of fetch_all_records_with_policy
  sleepIn,      \* time left of sleep(delay)
  failure,      \* the failure being handled
  result,       \* how the last lookup ended, "none" while one is running
  blocked       \* routes through which Wayback never serves this client

searchVars == <<pc, lookup, attempt, readAttempt, sleepIn, failure, result>>
vars == <<cooldownVars, routeVars, listingVars, searchVars, blocked>>

Routes == 0 .. NumFallbacks

(* Failures a request can meet. "connect" covers refused connections and    *)
(* timeouts; "send" every other error of send(); "read timeout" and "read   *)
(* error", a connection lost, happen while the body arrives. Transient are  *)
(* those that may pass: connections that fail, timeouts, 429 and 5xx.       *)
Refusals == {"429", "403", "connect", "send"}
SendFailures == Refusals \cup {"5xx"}
ReadFailures == {"read timeout", "read error"}
Transient == {"429", "5xx", "connect", "send", "read timeout", "read error"}
NoFailure == [why |-> "none", delay |-> 0]
Failures == [why : {"none"} \cup SendFailures \cup ReadFailures,
             delay : 0 .. MaxRetryDelay]
Results == {"none", "ok"} \cup SendFailures \cup ReadFailures \cup {"status", "bad line"}

Init ==
  /\ CooldownInit
  /\ RouteInit
  /\ ListingInit
  /\ pc = "idle"
  /\ lookup = "all"
  /\ attempt = 0
  /\ readAttempt = 0
  /\ sleepIn = 0
  /\ failure = NoFailure
  /\ result = "none"
  /\ blocked \in SUBSET Routes

-----------------------------------------------------------------------------
StartLookup(kind) ==
  /\ pc = "idle"
  /\ pc' = "waiting"
  /\ lookup' = kind
  /\ attempt' = 0
  /\ readAttempt' = 0
  /\ result' = "none"
  /\ Discard
  /\ UNCHANGED <<sleepIn, failure, cooldownVars, routeVars, blocked>>

(* wait_for_cdx_request_slot, then client.get(..).send().                   *)
SendRequest ==
  /\ pc = "waiting"
  /\ ReserveRequest
  /\ pc' = "sent"
  /\ UNCHANGED <<lookup, attempt, readAttempt, sleepIn, failure, result, routeVars, listingVars,
                 blocked>>

Ended(how) ==
  /\ pc' = "idle"
  /\ result' = how
  /\ failure' = NoFailure
  /\ UNCHANGED <<lookup, attempt, readAttempt, sleepIn>>

(* A 2xx status: the caller goes on to read the body.                       *)
Accepted ==
  /\ pc = "sent"
  /\ active \notin blocked
  /\ RememberSuccess
  /\ \E answer \in Bodies : BeginBody(answer)
  /\ pc' = "reading"
  /\ UNCHANGED <<lookup, attempt, readAttempt, sleepIn, failure, result, routeVars, blocked>>

(* error_for_status: any other error status ends the lookup.                *)
RefusedForGood ==
  /\ pc = "sent"
  /\ active \notin blocked
  /\ Ended("status")
  /\ UNCHANGED <<cooldownVars, routeVars, listingVars, blocked>>

\* Not the code: only the direct route is ever left.
SwitchesFromDirectOnly(why) ==
  active = Direct /\ (why = "5xx" => attempt >= SshAfterErrors)

(* should_try_ssh_after_status, and try_switch_wayback_route on every error *)
(* that is not a status.                                                    *)
SwitchesRoute(why) ==
  IF why = "5xx" THEN active = Direct /\ attempt >= SshAfterErrors ELSE TRUE

FailsWith(why, delay) ==
  /\ failure' = [why |-> why, delay |-> delay]
  /\ IF SwitchesRoute(why)
     THEN SwitchRoute /\ pc' = "switching"
     ELSE UNCHANGED routeVars /\ pc' = "backing off"
  /\ UNCHANGED <<lookup, attempt, readAttempt, sleepIn, result, blocked>>

(* send() fails, or the status is 403: no header gives a delay.             *)
NotDelivered(why) ==
  /\ pc = "sent"
  /\ why \in {"connect", "send", "403"}
  /\ FailsWith(why, Backoff(attempt))
  /\ UNCHANGED <<cooldownVars, listingVars>>

RateLimited ==
  /\ pc = "sent"
  /\ RememberRateLimit
  /\ \E delay \in StatusDelays(attempt) :
       FailsWith("429", delay)
  /\ UNCHANGED listingVars

ServerError ==
  /\ pc = "sent"
  /\ active \notin blocked
  /\ \E delay \in StatusDelays(attempt) :
       FailsWith("5xx", delay)
  /\ UNCHANGED <<cooldownVars, listingVars>>

(* The body of an accepted answer, line by line. fetch_all_records retries  *)
(* a timeout with its own attempt counter; every other error, and any error *)
(* of fetch_latest_records, ends the lookup, and so does a line that cannot *)
(* be parsed.                                                               *)
ReadLine ==
  /\ pc = "reading"
  /\ IngestLine(lookup)
  /\ UNCHANGED <<cooldownVars, routeVars, searchVars, blocked>>

ReadBody ==
  /\ pc = "reading"
  /\ ~ MoreLines
  /\ Ended("ok")
  /\ UNCHANGED <<cooldownVars, routeVars, listingVars, blocked>>

LineRefused ==
  /\ pc = "reading"
  /\ MoreLines
  /\ NextLine = Malformed
  /\ Discard
  /\ Ended("bad line")
  /\ UNCHANGED <<cooldownVars, routeVars, blocked>>

\* Not the code: a timeout of the body is final for every lookup.
ReadFailureIsFinal(why) ==
  /\ pc = "reading"
  /\ Discard
  /\ Ended(why)
  /\ UNCHANGED <<cooldownVars, routeVars, blocked>>

ReadFails(why) ==
  /\ pc = "reading"
  /\ Discard
  /\ UNCHANGED cooldownVars
  /\ IF lookup = "all" /\ why = "read timeout"
     THEN FailsWith(why, Backoff(readAttempt))
     ELSE Ended(why) /\ UNCHANGED <<routeVars, blocked>>

(* The outcome of a switch: a new route is tried at once with a fresh       *)
(* attempt counter; without one a 403 is final and the rest backs off.      *)
SwitchAnswered ==
  /\ pc = "switching"
  /\ search.phase = "none"
  /\ IF switched
     THEN /\ pc' = "waiting"
          /\ attempt' = 0
          /\ readAttempt' = IF failure.why \in ReadFailures THEN 0 ELSE readAttempt
          /\ failure' = NoFailure
          /\ UNCHANGED <<lookup, sleepIn, result>>
     ELSE IF failure.why = "403"
     THEN Ended("403")
     ELSE pc' = "backing off" /\ UNCHANGED <<lookup, attempt, readAttempt, sleepIn, failure, result>>
  /\ UNCHANGED <<cooldownVars, routeVars, listingVars, blocked>>

(* remember_cdx_cooldown, except for send() errors that are neither a       *)
(* failed connection nor a timeout, and sleep(delay).                       *)
BackOff ==
  /\ pc = "backing off"
  /\ pc' = "sleeping"
  /\ IF failure.why = "send"
     THEN sleepIn' = failure.delay /\ UNCHANGED cooldownVars
     ELSE RememberCooldown(failure.delay) /\ sleepIn' = allowedIn'
  /\ UNCHANGED <<lookup, attempt, readAttempt, failure, result, routeVars, listingVars, blocked>>

WakeUp ==
  /\ pc = "sleeping"
  /\ sleepIn = 0
  /\ pc' = "waiting"
  /\ IF failure.why \in ReadFailures
     THEN attempt' = 0 /\ readAttempt' = Bump(readAttempt)
     ELSE attempt' = Bump(attempt) /\ readAttempt' = readAttempt
  /\ failure' = NoFailure
  /\ UNCHANGED <<lookup, sleepIn, result, cooldownVars, routeVars, listingVars, blocked>>

RouteSearch ==
  /\ pc = "switching"
  /\ SearchStep
  /\ UNCHANGED <<cooldownVars, searchVars, listingVars, blocked>>

(* Time passes while the lookup waits for something.                        *)
Tick ==
  /\ pc \notin {"backing off"}
  /\ CooldownTick
  /\ RouteTick
  /\ sleepIn' = Elapse(sleepIn)
  /\ UNCHANGED <<pc, lookup, attempt, readAttempt, failure, result, listingVars, blocked>>

Answer ==
  \/ Accepted
  \/ RefusedForGood
  \/ \E why \in Refusals \ {"429"} : NotDelivered(why)
  \/ RateLimited
  \/ ServerError
  \/ ReadLine
  \/ ReadBody
  \/ LineRefused
  \/ \E why \in ReadFailures : ReadFails(why)

(* Steps the program takes without waiting for anyone.                      *)
Program == SendRequest \/ SwitchAnswered \/ BackOff \/ WakeUp \/ RouteSearch

Step == (\E kind \in {"latest", "all"} : StartLookup(kind)) \/ Answer \/ Program

Next == Step \/ Tick

Fairness == WF_vars(Program) /\ WF_vars(Answer) /\ WF_vars(Tick)

Spec == Init /\ [][Next]_vars /\ Fairness

-----------------------------------------------------------------------------
TypeOK ==
  /\ CooldownTypeOK
  /\ RouteTypeOK
  /\ pc \in {"idle", "waiting", "sent", "reading", "switching", "backing off", "sleeping"}
  /\ lookup \in {"latest", "all"}
  /\ attempt \in 0 .. MaxRetryShift
  /\ readAttempt \in 0 .. MaxRetryShift
  /\ sleepIn \in 0 .. MaxRetryDelay
  /\ failure \in Failures
  /\ result \in Results
  /\ ListingTypeOK
  /\ blocked \subseteq Routes

(* At any point of a discovery the record kept for a URL is, of the lines   *)
(* of this answer read so far, the first of those that no other one of the  *)
(* URL is preferred to; nothing is left of answers that broke off           *)
(* (src/src/cdx.rs:648-686).                                                *)
ChosenIsBest ==
  lookup = "latest" =>
    /\ \A i \in 1 .. read : Key(body[i]) \in DOMAIN chosen
    /\ \A k \in DOMAIN chosen : \E i \in 1 .. read :
         /\ chosen[k] = body[i]
         /\ Key(body[i]) = k
         /\ \A j \in 1 .. read : Key(body[j]) = k =>
              /\ ~ Preferred(body[j], body[i])
              /\ j < i => Preferred(body[i], body[j])
=============================================================================
