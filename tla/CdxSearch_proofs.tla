-------------------------- MODULE CdxSearch_proofs --------------------------
(* For any answers of the index, any failures and both strategies: what a   *)
(* discovery has kept of the lines it has read. Only the steps that read a  *)
(* body or drop what was read matter; all others leave the listing alone.   *)
EXTENDS MCCdxSearch, WaybackClient_proofs, OrderFacts

(* Between two bodies of one lookup nothing is kept.                        *)
NothingKept == read = 0 /\ chosen = <<>> /\ records = <<>>
Between == pc \in {"waiting", "sent", "switching", "backing off", "sleeping"}

IInv ==
  /\ ChosenIsBest
  /\ read \in Nat /\ read <= Len(body)
  /\ \A i \in 1 .. read : body[i] # Malformed
  /\ Between => NothingKept
  /\ body \in Bodies \cup {<<>>}

LEMMA EmptyIsBest == read = 0 /\ chosen = <<>> => ChosenIsBest
<1> SUFFICES ASSUME read = 0, chosen = <<>> PROVE ChosenIsBest
  OBVIOUS
<1>1. 1 .. read = {} /\ DOMAIN chosen = {}
  OBVIOUS
<1> QED
  BY <1>1 DEF ChosenIsBest

LEMMA DiscardEstablishes == Discard => IInv'
<1> SUFFICES ASSUME Discard PROVE IInv'
  OBVIOUS
<1>1. ChosenIsBest'
  <2>1. 1 .. read' = {} /\ DOMAIN chosen' = {}
    BY DEF Discard
  <2> QED
    BY <2>1 DEF ChosenIsBest
<1> QED
  BY <1>1 DEF IInv, Discard, NothingKept

LEMMA InitEstablishes == Init => IInv
BY EmptyIsBest DEF Init, ListingInit, IInv, NothingKept

(* The lines of an answer are records with a time, or malformed.            *)
LEMMA LinesAreTimed ==
  ASSUME body \in Bodies \cup {<<>>}, NEW i \in 1 .. Len(body), body[i] # Malformed
  PROVE  body[i].time \in Nat
<1>1. body \in Bodies
  OBVIOUS
<1>2. body \in Seq(RecordsOf(body) \cup {Malformed})
  BY <1>1, ListingAssumption
<1>3. body[i] \in RecordsOf(body)
  BY <1>2 DEF RecordsOf
<1> QED
  BY <1>1, <1>3, ListingAssumption

LEMMA BodyIsSeq == IInv => Len(body) \in Nat
<1> SUFFICES ASSUME IInv PROVE Len(body) \in Nat
  OBVIOUS
<1>1. CASE body = <<>>
  BY <1>1
<1>2. CASE body \in Bodies
  BY <1>2, ListingAssumption
<1> QED
  BY <1>1, <1>2 DEF IInv

(* The times of the lines that were read can be compared.                   *)
LEMMA TimesOfRead ==
  ASSUME IInv, MoreLines, NextLine # Malformed, NEW i \in 1 .. read + 1
  PROVE  body[i].time \in Nat
<1>1. i \in 1 .. Len(body)
  BY BodyIsSeq DEF IInv, MoreLines
<1>2. body[i] # Malformed
  BY DEF IInv, NextLine
<1> QED
  BY <1>1, <1>2, LinesAreTimed DEF IInv

(* ingest_cdx_line keeps the better of two lines, the earlier of equal ones.*)
LEMMA IngestKeepsBest ==
  ASSUME IInv, MoreLines, NextLine # Malformed, lookup = "latest", UNCHANGED <<lookup, body>>,
         IngestLatest(NextLine), read' = read + 1
  PROVE  ChosenIsBest'
<1> DEFINE line == body[read + 1]
           k0 == Key(line)
           Best(k, i, n, c) ==
             /\ c[k] = body[i]
             /\ Key(body[i]) = k
             /\ \A j \in 1 .. n : Key(body[j]) = k =>
                  /\ ~ Preferred(body[j], body[i])
                  /\ j < i => Preferred(body[i], body[j])
<1>1. read \in Nat /\ 1 .. read' = 1 .. read \cup {read + 1}
  BY DEF IInv
<1>2. \A i \in 1 .. read + 1 : body[i].time \in Nat
  BY TimesOfRead
<1>3. /\ \A i \in 1 .. read : Key(body[i]) \in DOMAIN chosen
      /\ \A k \in DOMAIN chosen : \E i \in 1 .. read : Best(k, i, read, chosen)
  BY DEF IInv, ChosenIsBest
<1>4. \A k \in DOMAIN chosen \ {k0} : \E i \in 1 .. read' : Best(k, i, read', chosen)
  <2> SUFFICES ASSUME NEW k \in DOMAIN chosen \ {k0}
               PROVE  \E i \in 1 .. read' : Best(k, i, read', chosen)
    OBVIOUS
  <2>1. PICK i \in 1 .. read : Best(k, i, read, chosen)
    BY <1>3
  <2>2. Best(k, i, read', chosen)
    BY <1>1, <2>1
  <2> QED
    BY <1>1, <2>2
<1>5. CASE k0 \in DOMAIN chosen /\ KeepExisting(chosen[k0], line)
  <2>1. chosen' = chosen
    BY <1>5 DEF IngestLatest, NextLine
  <2>2. PICK i \in 1 .. read : Best(k0, i, read, chosen)
    BY <1>3, <1>5
  <2>3. ~ Preferred(line, body[i]) /\ ~ (read + 1 < i)
    BY <1>1, <1>2, <1>5, <2>2 DEF KeepExisting, Preferred
  <2>4. Best(k0, i, read', chosen)
    BY <1>1, <2>2, <2>3
  <2>5. \A k \in DOMAIN chosen' : \E j \in 1 .. read' : Best(k, j, read', chosen')
    BY <1>1, <1>4, <2>1, <2>4
  <2>6. \A j \in 1 .. read' : Key(body[j]) \in DOMAIN chosen'
    BY <1>1, <1>3, <1>5, <2>1
  <2> QED
    BY <2>5, <2>6 DEF ChosenIsBest, Key, Preferred
<1>6. CASE ~ (k0 \in DOMAIN chosen /\ KeepExisting(chosen[k0], line))
  <2>1. chosen' = [k \in DOMAIN chosen \cup {k0} |-> IF k = k0 THEN line ELSE chosen[k]]
    BY <1>6 DEF IngestLatest, NextLine
  <2>2. \A j \in 1 .. read : Key(body[j]) = k0 => Preferred(line, body[j])
    <3> SUFFICES ASSUME NEW j \in 1 .. read, Key(body[j]) = k0
                 PROVE  Preferred(line, body[j])
      OBVIOUS
    <3>1. k0 \in DOMAIN chosen
      BY <1>3
    <3>2. PICK i \in 1 .. read : Best(k0, i, read, chosen)
      BY <1>3, <3>1
    <3>3. ~ Preferred(body[j], body[i]) /\ ~ KeepExisting(body[i], line)
      BY <1>6, <3>1, <3>2
    <3>4. body[i].time \in Nat /\ body[j].time \in Nat /\ line.time \in Nat
      BY <1>1, <1>2
    <3> QED
      BY <3>3, <3>4 DEF Preferred, KeepExisting
  <2>3. \A j \in 1 .. read' : Key(body[j]) = k0 =>
          ~ Preferred(body[j], line) /\ (j < read + 1 => Preferred(line, body[j]))
    <3> SUFFICES ASSUME NEW j \in 1 .. read', Key(body[j]) = k0
                 PROVE  ~ Preferred(body[j], line) /\ (j < read + 1 => Preferred(line, body[j]))
      OBVIOUS
    <3>1. body[j].time \in Nat /\ line.time \in Nat
      BY <1>1, <1>2
    <3>2. CASE j = read + 1
      BY <1>1, <3>1, <3>2 DEF Preferred
    <3>3. CASE j \in 1 .. read
      BY <2>2, <3>1, <3>3 DEF Preferred
    <3> QED
      BY <1>1, <3>2, <3>3
  <2>4. Best(k0, read + 1, read', chosen')
    BY <2>1, <2>3
  <2>5. \A k \in DOMAIN chosen' : \E j \in 1 .. read' : Best(k, j, read', chosen')
    <3> SUFFICES ASSUME NEW k \in DOMAIN chosen'
                 PROVE  \E j \in 1 .. read' : Best(k, j, read', chosen')
      OBVIOUS
    <3>1. CASE k = k0
      BY <1>1, <2>4, <3>1
    <3>2. CASE k # k0
      <4>1. k \in DOMAIN chosen /\ chosen'[k] = chosen[k]
        BY <2>1, <3>2
      <4>2. PICK j \in 1 .. read' : Best(k, j, read', chosen)
        BY <1>4, <3>2, <4>1
      <4> QED
        BY <4>1, <4>2
    <3> QED
      BY <3>1, <3>2
  <2>6. \A j \in 1 .. read' : Key(body[j]) \in DOMAIN chosen'
    BY <1>1, <1>3, <2>1
  <2> QED
    BY <2>5, <2>6 DEF ChosenIsBest, Key, Preferred
<1> QED
  BY <1>5, <1>6

(* A step that reads no body and drops nothing.                             *)
LEMMA OthersPreserve ==
  ASSUME IInv, UNCHANGED <<listingVars, lookup>>, Between' => NothingKept
  PROVE  IInv'
<1>1. ChosenIsBest'
  BY DEF IInv, ChosenIsBest, listingVars, Key, Preferred
<1> QED
  BY <1>1 DEF IInv, listingVars, NothingKept

LEMMA NextPreserves == IInv /\ [Next]_vars => IInv'
<1> SUFFICES ASSUME IInv, [Next]_vars PROVE IInv'
  OBVIOUS
<1>1. ASSUME NEW kind, StartLookup(kind) PROVE IInv'
  BY <1>1, DiscardEstablishes DEF StartLookup
<1>2. CASE SendRequest
  BY <1>2, OthersPreserve DEF SendRequest, IInv, Between
<1>3. CASE Accepted
  <2>1. PICK answer \in Bodies : BeginBody(answer)
    BY <1>3 DEF Accepted
  <2>2. NothingKept /\ lookup' = lookup /\ pc' = "reading"
    BY <1>3 DEF Accepted, IInv, Between
  <2>3. ChosenIsBest'
    <3>1. 1 .. read' = {} /\ DOMAIN chosen' = {}
      BY <2>1, <2>2 DEF BeginBody, NothingKept
    <3> QED
      BY <3>1 DEF ChosenIsBest
  <2>4. body' \in Seq(RecordsOf(body') \cup {Malformed})
    BY <2>1, ListingAssumption DEF BeginBody
  <2> QED
    BY <2>1, <2>2, <2>3, <2>4 DEF BeginBody, IInv, Between
<1>4. CASE RefusedForGood
  BY <1>4, OthersPreserve DEF RefusedForGood, Ended, Between
<1>5. ASSUME NEW why, NotDelivered(why) PROVE IInv'
  BY <1>5, OthersPreserve DEF NotDelivered, FailsWith, IInv, Between, SwitchRoute, vars
<1>6. CASE RateLimited
  BY <1>6, OthersPreserve DEF RateLimited, FailsWith, IInv, Between
<1>7. CASE ServerError
  BY <1>7, OthersPreserve DEF ServerError, FailsWith, IInv, Between
<1>8. CASE ReadLine
  <2>1. pc = "reading" /\ MoreLines /\ NextLine # Malformed /\ read' = read + 1 /\ body' = body
    BY <1>8 DEF ReadLine, IngestLine
  <2>2. lookup' = lookup /\ pc' = pc
    BY <1>8 DEF ReadLine, searchVars
  <2>3. ChosenIsBest'
    <3>1. CASE lookup = "latest"
      BY <1>8, <2>1, <2>2, <3>1, IngestKeepsBest DEF ReadLine, IngestLine
    <3>2. CASE lookup # "latest"
      BY <2>2, <3>2 DEF ChosenIsBest
    <3> QED
      BY <3>1, <3>2
  <2>4. \A i \in 1 .. read' : body'[i] # Malformed
    BY <2>1 DEF IInv, NextLine
  <2>5. read' \in Nat /\ read' <= Len(body')
    BY <2>1, BodyIsSeq DEF IInv, MoreLines
  <2> QED
    BY <2>1, <2>2, <2>3, <2>4, <2>5 DEF IInv, Between
<1>9. CASE ReadBody
  BY <1>9, OthersPreserve DEF ReadBody, Ended, Between
<1>10. CASE LineRefused
  BY <1>10, DiscardEstablishes DEF LineRefused
<1>11. ASSUME NEW why, ReadFails(why) PROVE IInv'
  BY <1>11, DiscardEstablishes DEF ReadFails
<1>12. CASE SwitchAnswered
  BY <1>12, OthersPreserve DEF SwitchAnswered, Ended, IInv, Between
<1>13. CASE BackOff
  BY <1>13, OthersPreserve DEF BackOff, IInv, Between
<1>14. CASE WakeUp
  BY <1>14, OthersPreserve DEF WakeUp, IInv, Between
<1>15. CASE RouteSearch
  BY <1>15, OthersPreserve DEF RouteSearch, searchVars, IInv, Between
<1>16. CASE Tick
  BY <1>16, OthersPreserve DEF Tick, IInv, Between
<1>17. CASE UNCHANGED vars
  BY <1>17, OthersPreserve DEF vars, searchVars, IInv, Between
<1> QED
  BY <1>1, <1>2, <1>3, <1>4, <1>5, <1>6, <1>7, <1>8, <1>9, <1>10, <1>11, <1>12, <1>13, <1>14,
     <1>15, <1>16, <1>17 DEF Next, Step, Answer, Program

(* Whatever the index answers and however often bodies break off, a         *)
(* discovery keeps for each URL the best of the lines it has read           *)
(* (fetch_latest_records, ingest_cdx_line, keep_existing).                  *)
THEOREM DiscoveryKeepsBest == Spec => []ChosenIsBest
<1>1. IInv => ChosenIsBest
  BY DEF IInv
<1> QED
  BY <1>1, InitEstablishes, NextPreserves, PTL DEF Spec

-----------------------------------------------------------------------------
(* A lookup changes the routes only as the client does.                     *)
LEMMA LookupIsRouteStep == [Next]_vars => [RouteNext]_routeVars
<1> SUFFICES ASSUME [Next]_vars PROVE [RouteNext]_routeVars
  OBVIOUS
<1>1. ASSUME NEW why, NEW delay, FailsWith(why, delay) PROVE SwitchRoute \/ UNCHANGED routeVars
  BY <1>1 DEF FailsWith
<1>2. CASE (\E kind \in {"latest", "all"} : StartLookup(kind)) \/ SendRequest \/ SwitchAnswered
           \/ BackOff \/ WakeUp \/ Accepted \/ RefusedForGood \/ ReadLine \/ ReadBody \/ LineRefused
  BY <1>2 DEF StartLookup, SendRequest, SwitchAnswered, BackOff, WakeUp, Accepted, RefusedForGood,
              ReadLine, ReadBody, LineRefused
<1>3. CASE RateLimited \/ ServerError
  BY <1>1, <1>3 DEF RateLimited, ServerError, RouteNext
<1>4. ASSUME NEW why, NotDelivered(why) PROVE [RouteNext]_routeVars
  BY <1>1, <1>4 DEF NotDelivered, RouteNext
<1>5. ASSUME NEW why, ReadFails(why) PROVE [RouteNext]_routeVars
  BY <1>1, <1>5 DEF ReadFails, RouteNext
<1>6. CASE RouteSearch \/ Tick
  BY <1>6 DEF RouteSearch, Tick, RouteNext
<1>7. CASE UNCHANGED vars
  BY <1>7 DEF vars, routeVars
<1> QED
  BY <1>2, <1>3, <1>4, <1>5, <1>6, <1>7 DEF Next, Step, Answer, Program

(* Lookups use the routes as the client provides them: what holds of the    *)
(* routes under any use holds while lookups run (try_switch_wayback_route). *)
THEOREM LookupsUseTheRoutes == Spec => RouteInit /\ [][RouteNext]_routeVars
<1>1. Init => RouteInit
  BY DEF Init
<1> QED
  BY <1>1, LookupIsRouteStep, PTL DEF Spec

-----------------------------------------------------------------------------
LEMMA DelaysBounded ==
  \A attempts : /\ Backoff(attempts) \in 0 .. MaxRetryDelay
                /\ \A delay \in StatusDelays(attempts) : delay \in 0 .. MaxRetryDelay
<1>1. \A attempts : Backoff(attempts) \in 0 .. MaxRetryDelay
  BY RetryAssumption DEF Backoff
<1>2. \A seconds \in RetryAfters : RetryAfter(seconds) \in 0 .. MaxRetryDelay
  BY RetryAssumption DEF RetryAfter
<1> QED
  BY <1>1, <1>2 DEF StatusDelays

LEMMA BumpTyped ==
  ASSUME NEW count \in 0 .. MaxRetryShift PROVE Bump(count) \in 0 .. MaxRetryShift
BY RetryAssumption DEF Bump

LEMMA ElapseTyped ==
  ASSUME NEW left \in 0 .. MaxRetryDelay PROVE Elapse(left) \in 0 .. MaxRetryDelay
BY RetryAssumption DEF Elapse

(* What any use of CDX_COOLDOWN keeps.                                      *)
CooldownNext ==
  \/ ReserveRequest \/ RememberSuccess \/ RememberRateLimit \/ CooldownTick
  \/ \E delay \in 0 .. MaxRetryDelay : RememberCooldown(delay)

LEMMA CooldownTyped == CooldownTypeOK /\ [CooldownNext]_cooldownVars => CooldownTypeOK'
<1> SUFFICES ASSUME CooldownTypeOK, [CooldownNext]_cooldownVars PROVE CooldownTypeOK'
  OBVIOUS
<1> USE RetryAssumption, CooldownAssumption
<1>1. resetPending' \in BOOLEAN
  <2>1. ASSUME NEW delay, RememberCooldown(delay) PROVE resetPending' \in BOOLEAN
    <3> DEFINE wait == Longest(delay, Backoff(throttleScore))
    <3>1. (wait >= MaxRetryDelay) \in BOOLEAN
      OBVIOUS
    <3>2. resetPending' = IF wait > allowedIn THEN wait >= MaxRetryDelay ELSE resetPending
      BY <2>1, Zenon DEF RememberCooldown
    <3>3. CASE wait > allowedIn
      BY <3>1, <3>2, <3>3, Zenon
    <3>4. CASE ~ (wait > allowedIn)
      BY <3>2, <3>4, Zenon DEF CooldownTypeOK
    <3> QED
      BY <3>3, <3>4, Zenon
  <2>2. CASE ReserveRequest \/ RememberSuccess
    BY <2>2, Zenon DEF ReserveRequest, RememberSuccess
  <2>3. CASE RememberRateLimit \/ CooldownTick \/ UNCHANGED cooldownVars
    BY <2>3, Zenon DEF RememberRateLimit, CooldownTick, cooldownVars, CooldownTypeOK
  <2> QED
    BY <2>1, <2>2, <2>3, Zenon DEF CooldownNext
<1> DEFINE Counters == /\ allowedIn \in 0 .. MaxRetryDelay
                       /\ pacingIn \in 0 .. MaxInterval
                       /\ throttleScore \in 0 .. MaxRetryShift
                       /\ interval \in MinInterval .. MaxInterval
                       /\ successes \in 0 .. SuccessesBeforeSpeedup - 1
<1>2. Counters
  BY DEF CooldownTypeOK
<1>3. CASE ReserveRequest
  <2>1. throttleScore' \in 0 .. MaxRetryShift
    BY <1>2, <1>3 DEF ReserveRequest
  <2>2. Counters'
    BY <1>2, <1>3, <2>1 DEF ReserveRequest
  <2> QED
    BY <1>1, <2>2 DEF CooldownTypeOK
<1>4. CASE RememberSuccess
  <2>1. interval' \in MinInterval .. MaxInterval /\ successes' \in 0 .. SuccessesBeforeSpeedup - 1
    BY <1>2, <1>4 DEF RememberSuccess, Longest
  <2>2. Counters'
    BY <1>2, <1>4, <2>1 DEF RememberSuccess
  <2> QED
    BY <1>1, <2>2 DEF CooldownTypeOK
<1>5. CASE RememberRateLimit
  BY <1>1, <1>2, <1>5 DEF RememberRateLimit, CooldownTypeOK
<1>6. CASE CooldownTick
  BY <1>1, <1>2, <1>6 DEF CooldownTick, Elapse, CooldownTypeOK
<1>7. ASSUME NEW delay \in 0 .. MaxRetryDelay, RememberCooldown(delay) PROVE CooldownTypeOK'
  <2>1. Longest(delay, Backoff(throttleScore)) \in 0 .. MaxRetryDelay
    BY DelaysBounded DEF Longest
  <2>2. Longest(allowedIn, Longest(delay, Backoff(throttleScore))) \in 0 .. MaxRetryDelay
    BY <1>2, <2>1 DEF Longest
  <2>3. Bump(throttleScore) \in 0 .. MaxRetryShift
    BY <1>2, BumpTyped
  <2>4. Counters'
    BY <1>2, <1>7, <2>2, <2>3 DEF RememberCooldown
  <2> QED
    BY <1>1, <2>4 DEF CooldownTypeOK
<1>8. CASE UNCHANGED cooldownVars
  BY <1>8 DEF cooldownVars, CooldownTypeOK
<1> QED
  BY <1>3, <1>4, <1>5, <1>6, <1>7, <1>8 DEF CooldownNext

(* Lookups change the cooldown only by its operations, with delays in range.*)
LEMMA LookupIsCooldownStep ==
  ASSUME failure.delay \in 0 .. MaxRetryDelay, [Next]_vars PROVE [CooldownNext]_cooldownVars
<1>1. CASE \E kind \in {"latest", "all"} : StartLookup(kind)
  BY <1>1 DEF StartLookup
<1>2. CASE SendRequest \/ Accepted \/ RateLimited \/ Tick
  BY <1>2 DEF SendRequest, Accepted, RateLimited, Tick, CooldownNext
<1>3. CASE BackOff
  BY <1>3 DEF BackOff, CooldownNext
<1>4. CASE RefusedForGood \/ ServerError \/ ReadLine \/ ReadBody \/ LineRefused
  BY <1>4 DEF RefusedForGood, ServerError, ReadLine, ReadBody, LineRefused
<1>5. ASSUME NEW why, NotDelivered(why) \/ ReadFails(why) PROVE UNCHANGED cooldownVars
  BY <1>5 DEF NotDelivered, ReadFails
<1>6. CASE SwitchAnswered \/ WakeUp \/ RouteSearch
  BY <1>6 DEF SwitchAnswered, WakeUp, RouteSearch
<1>7. CASE UNCHANGED vars
  BY <1>7 DEF vars, cooldownVars
<1> QED
  BY <1>1, <1>2, <1>3, <1>4, <1>5, <1>6, <1>7 DEF Next, Step, Answer, Program

(* The variables of the retry loops.                                        *)
LoopTypeOK ==
  /\ pc \in {"idle", "waiting", "sent", "reading", "switching", "backing off", "sleeping"}
  /\ lookup \in {"latest", "all"}
  /\ attempt \in 0 .. MaxRetryShift
  /\ readAttempt \in 0 .. MaxRetryShift
  /\ sleepIn \in 0 .. MaxRetryDelay
  /\ failure \in Failures
  /\ result \in Results
  /\ blocked \subseteq Routes

LEMMA FailureTyped ==
  ASSUME LoopTypeOK, NEW why \in SendFailures \cup ReadFailures, NEW delay \in 0 .. MaxRetryDelay,
         FailsWith(why, delay)
  PROVE  LoopTypeOK'
BY DEF LoopTypeOK, FailsWith, Failures, Routes

LEMMA EndTyped ==
  ASSUME LoopTypeOK, NEW how \in Results, Ended(how), UNCHANGED blocked
  PROVE  LoopTypeOK'
<1>1. NoFailure \in Failures
  BY RetryAssumption DEF NoFailure, Failures
<1> QED
  BY <1>1 DEF LoopTypeOK, Ended, Routes

LEMMA LoopTyped ==
  ASSUME LoopTypeOK, CooldownTypeOK', [Next]_vars PROVE LoopTypeOK'
<1> USE RetryAssumption
<1>0. NoFailure \in Failures /\ Bump(attempt) \in 0 .. MaxRetryShift
      /\ Bump(readAttempt) \in 0 .. MaxRetryShift /\ 0 \in 0 .. MaxRetryShift
  <2>1. NoFailure \in Failures
    BY DEF NoFailure, Failures
  <2>2. attempt \in 0 .. MaxRetryShift /\ readAttempt \in 0 .. MaxRetryShift
    BY DEF LoopTypeOK
  <2> QED
    BY <2>1, <2>2, BumpTyped
<1>1. CASE \E kind \in {"latest", "all"} : StartLookup(kind)
  <2>1. PICK kind \in {"latest", "all"} : StartLookup(kind)
    BY <1>1
  <2> QED
    BY <1>0, <2>1 DEF StartLookup, LoopTypeOK, Results, Routes
<1>2. CASE SendRequest \/ Accepted
  BY <1>2 DEF SendRequest, Accepted, LoopTypeOK, Routes
<1>3. CASE RefusedForGood \/ ReadBody
  BY <1>3, EndTyped DEF RefusedForGood, ReadBody, Results
<1>4. CASE LineRefused
  BY <1>4, EndTyped DEF LineRefused, Results
<1>5. ASSUME NEW why \in Refusals \ {"429"}, NotDelivered(why) PROVE LoopTypeOK'
  BY <1>5, FailureTyped, DelaysBounded DEF NotDelivered, SendFailures
<1>6. CASE RateLimited
  BY <1>6, FailureTyped, DelaysBounded DEF RateLimited, SendFailures, Refusals
<1>7. CASE ServerError
  BY <1>7, FailureTyped, DelaysBounded DEF ServerError, SendFailures
<1>8. ASSUME NEW why \in ReadFailures, ReadFails(why) PROVE LoopTypeOK'
  <2>1. CASE FailsWith(why, Backoff(readAttempt))
    BY <2>1, FailureTyped, DelaysBounded
  <2>2. CASE Ended(why) /\ UNCHANGED blocked
    BY <2>2, EndTyped DEF Results
  <2> QED
    BY <1>8, <2>1, <2>2 DEF ReadFails
<1>9. CASE SwitchAnswered
  <2>1. CASE switched
    BY <1>0, <1>9, <2>1 DEF SwitchAnswered, LoopTypeOK, Routes
  <2>2. CASE ~ switched /\ failure.why = "403"
    BY <1>9, <2>2, EndTyped DEF SwitchAnswered, Results, SendFailures, Refusals
  <2>3. CASE ~ switched /\ failure.why # "403"
    BY <1>9, <2>3 DEF SwitchAnswered, LoopTypeOK, Routes
  <2> QED
    BY <2>1, <2>2, <2>3
<1>10. CASE BackOff
  <2>1. sleepIn' \in 0 .. MaxRetryDelay
    BY <1>10 DEF BackOff, CooldownTypeOK, LoopTypeOK, Failures
  <2> QED
    BY <1>10, <2>1 DEF BackOff, LoopTypeOK, Routes
<1>11. CASE WakeUp
  BY <1>0, <1>11 DEF WakeUp, LoopTypeOK, Routes
<1>12. CASE Tick
  <2>1. Elapse(sleepIn) \in 0 .. MaxRetryDelay
    BY ElapseTyped DEF LoopTypeOK
  <2> QED
    BY <1>12, <2>1 DEF Tick, LoopTypeOK, Routes
<1>13. CASE ReadLine \/ RouteSearch \/ UNCHANGED vars
  <2>1. UNCHANGED <<searchVars, blocked>>
    BY <1>13 DEF ReadLine, RouteSearch, vars
  <2> QED
    BY <2>1 DEF searchVars, LoopTypeOK, Routes
<1> QED
  BY <1>1, <1>2, <1>3, <1>4, <1>5, <1>6, <1>7, <1>8, <1>9, <1>10, <1>11, <1>12, <1>13
     DEF Next, Step, Answer, Program

-----------------------------------------------------------------------------
LEMMA DiscardTyped == Discard => ListingTypeOK'
BY DEF Discard, ListingTypeOK, RecordsOf

LEMMA ListingTyped == ListingTypeOK /\ IInv /\ [Next]_vars => ListingTypeOK'
<1> SUFFICES ASSUME ListingTypeOK, IInv, [Next]_vars PROVE ListingTypeOK'
  OBVIOUS
<1>1. CASE UNCHANGED listingVars
  BY <1>1 DEF listingVars, ListingTypeOK, RecordsOf, Key
<1>2. CASE Discard
  BY <1>2, DiscardTyped
<1>3. CASE Accepted
  <2>1. PICK answer \in Bodies : BeginBody(answer)
    BY <1>3 DEF Accepted
  <2>2. chosen' = <<>> /\ records' = <<>> /\ read' = 0 /\ body' = answer
    BY <1>3, <2>1 DEF Accepted, BeginBody, IInv, Between, NothingKept
  <2>3. Len(answer) \in Nat
    BY ListingAssumption
  <2> QED
    BY <2>2, <2>3 DEF ListingTypeOK
<1>4. CASE ReadLine
  <2>1. /\ MoreLines /\ NextLine # Malformed /\ read' = read + 1 /\ body' = body
        /\ IngestLatest(NextLine) \/ IngestAll(NextLine)
    BY <1>4 DEF ReadLine, IngestLine
  <2>2. Len(body) \in Nat /\ read \in Nat
    BY BodyIsSeq DEF IInv
  <2>3. read + 1 \in 1 .. Len(body)
    BY <2>1, <2>2 DEF MoreLines
  <2>4. body \in Bodies
    BY <2>3 DEF ListingTypeOK
  <2>5. DOMAIN body = 1 .. Len(body)
    BY <2>4, ListingAssumption
  <2>6. NextLine \in RecordsOf(body)
    BY <2>1, <2>3, <2>5 DEF RecordsOf, NextLine
  <2>7. records' \in Seq(RecordsOf(body))
    BY <2>1, <2>6 DEF IngestLatest, IngestAll, ListingTypeOK
  <2>8. \A k \in DOMAIN chosen' : chosen'[k] \in RecordsOf(body) /\ Key(chosen'[k]) = k
    <3>1. CASE chosen' = chosen
      BY <3>1 DEF ListingTypeOK
    <3>2. CASE chosen' = [k \in DOMAIN chosen \cup {Key(NextLine)} |->
                            IF k = Key(NextLine) THEN NextLine ELSE chosen[k]]
      BY <2>6, <3>2 DEF ListingTypeOK
    <3> QED
      BY <2>1, <3>1, <3>2 DEF IngestLatest, IngestAll
  <2>9. read' \in 0 .. Len(body)
    BY <2>1, <2>2, <2>3
  <2> QED
    BY <2>1, <2>4, <2>7, <2>8, <2>9 DEF ListingTypeOK, RecordsOf, Key
<1>5. ASSUME NEW why, NotDelivered(why) \/ ReadFails(why) PROVE Discard \/ UNCHANGED listingVars
  BY <1>5 DEF NotDelivered, ReadFails
<1>6. CASE (\E kind \in {"latest", "all"} : StartLookup(kind)) \/ LineRefused
  BY <1>6, DiscardTyped DEF StartLookup, LineRefused
<1>7. CASE SendRequest \/ RefusedForGood \/ RateLimited \/ ServerError \/ ReadBody \/ Program \/ Tick
  BY <1>1, <1>7 DEF SendRequest, RefusedForGood, RateLimited, ServerError, ReadBody, Program,
                    SwitchAnswered, BackOff, WakeUp, RouteSearch, Tick
<1>8. CASE UNCHANGED vars
  BY <1>1, <1>8 DEF vars
<1> QED
  BY <1>1, <1>2, <1>3, <1>4, <1>5, <1>6, <1>7, <1>8 DEF Next, Step, Answer

TInv == IInv /\ RouteInv /\ CooldownTypeOK /\ LoopTypeOK /\ ListingTypeOK

LEMMA InitTyped == Init => TInv
<1> SUFFICES ASSUME Init PROVE TInv
  OBVIOUS
<1>1. CooldownTypeOK
  <2>1. resetPending \in BOOLEAN
    BY Zenon DEF Init, CooldownInit
  <2> QED
    BY <2>1, RetryAssumption, CooldownAssumption DEF Init, CooldownInit, CooldownTypeOK
<1>2. LoopTypeOK
  BY RetryAssumption DEF Init, LoopTypeOK, NoFailure, Failures, Results
<1>3. ListingTypeOK
  BY DEF Init, ListingInit, ListingTypeOK
<1> QED
  BY <1>1, <1>2, <1>3, InitEstablishes, RouteInitial DEF TInv, Init

LEMMA StepTyped == TInv /\ [Next]_vars => TInv'
<1> SUFFICES ASSUME TInv, [Next]_vars PROVE TInv'
  OBVIOUS
<1>1. CooldownTypeOK'
  <2>1. failure.delay \in 0 .. MaxRetryDelay
    BY DEF TInv, LoopTypeOK, Failures
  <2> QED
    BY <2>1, LookupIsCooldownStep, CooldownTyped DEF TInv
<1> QED
  BY <1>1, NextPreserves, LookupIsRouteStep, RouteStep, LoopTyped, ListingTyped DEF TInv

(* For any delays, fallbacks and answers: what a failed request adds up to  *)
(* over any number of retries stays in range - the backoff, the spacing and *)
(* the attempt counters saturate (remember_cdx_rate_limit,                  *)
(* remember_cdx_cooldown, retry_after_delay).                               *)
THEOREM LookupsStayInRange == Spec => []TypeOK
<1>1. TInv => TypeOK
  BY DEF TInv, TypeOK, RouteInv, LoopTypeOK
<1> QED
  BY <1>1, InitTyped, StepTyped, PTL DEF Spec

-----------------------------------------------------------------------------
\* What observers of the lookups see.

LEMMA StepsTyped == TInv /\ [MCNext]_mcVars => TInv'
BY StepTyped DEF MCNext, Next, mcVars, vars

LEMMA InitiallyTyped == MCInit => TInv
BY InitTyped DEF MCInit

(* What can happen to a lookup that ends is what the steps make of it.      *)
LEMMA ResultsOfSteps == OnlyLostBodiesAreFinal /\ [Next]_vars => OnlyLostBodiesAreFinal'
<1> SUFFICES ASSUME OnlyLostBodiesAreFinal, [Next]_vars PROVE OnlyLostBodiesAreFinal'
  OBVIOUS
<1> USE DEF OnlyLostBodiesAreFinal
<1>1. CASE UNCHANGED <<lookup, result>>
  BY <1>1
<1>2. CASE result' \notin Transient
  BY <1>2
<1>3. ASSUME NEW kind, StartLookup(kind) PROVE result' \notin Transient
  BY <1>3 DEF StartLookup, Transient
<1>4. CASE RefusedForGood \/ ReadBody \/ LineRefused
  BY <1>4, <1>2 DEF RefusedForGood, ReadBody, LineRefused, Ended, Transient
<1>5. CASE SendRequest \/ Accepted \/ BackOff \/ WakeUp \/ Tick
  BY <1>1, <1>5 DEF SendRequest, Accepted, BackOff, WakeUp, Tick
<1>6. ASSUME NEW why, NotDelivered(why) PROVE UNCHANGED <<lookup, result>>
  BY <1>6 DEF NotDelivered, FailsWith
<1>7. CASE RateLimited \/ ServerError
  BY <1>1, <1>7 DEF RateLimited, ServerError, FailsWith
<1>8. CASE ReadLine \/ RouteSearch \/ UNCHANGED vars
  BY <1>1, <1>8 DEF ReadLine, RouteSearch, vars, searchVars
<1>9. ASSUME NEW why \in ReadFailures, ReadFails(why) PROVE OnlyLostBodiesAreFinal'
  BY <1>1, <1>9 DEF ReadFails, FailsWith, Ended, ReadFailures, Transient
<1>10. CASE SwitchAnswered
  BY <1>1, <1>2, <1>10 DEF SwitchAnswered, Ended, Transient
<1> QED
  BY <1>2, <1>3, <1>4, <1>5, <1>6, <1>7, <1>8, <1>9, <1>10 DEF Next, Step, Answer, Program

(* However long the index, the network or the routes fail, refusals, server *)
(* errors and timeouts do not end a lookup of fetch_all_records; of the     *)
(* failures that may pass only a connection lost in mid-body does           *)
(* (send_cdx_request, fetch_all_records_with_policy).                       *)
THEOREM RetriesNeverEnd == MCSpec => []OnlyLostBodiesAreFinal
<1>1. MCInit => OnlyLostBodiesAreFinal
  BY DEF MCInit, Init, OnlyLostBodiesAreFinal, Transient
<1>2. [MCNext]_mcVars => [Next]_vars
  BY DEF MCNext, Next, mcVars
<1> QED
  BY <1>1, <1>2, ResultsOfSteps, PTL DEF MCSpec

LEMMA FailureKept ==
  ASSUME NEW why, NEW delay, FailsWith(why, delay)
  PROVE  failure'.why = why /\ pc' \in {"switching", "backing off"} /\ sleepIn' = sleepIn
<1>1. failure' = [why |-> why, delay |-> delay]
  BY DEF FailsWith
<1>2. failure'.why = why
  BY <1>1
<1> QED
  BY <1>2 DEF FailsWith

LEMMA EndKept ==
  ASSUME NEW how, Ended(how) PROVE failure'.why = "none" /\ pc' = "idle" /\ sleepIn' = sleepIn
BY DEF Ended, NoFailure

(* A step that leaves the cooldown alone, sends nothing and starts no sleep.*)
Passes ==
  /\ UNCHANGED <<cooldownVars, sleepIn>>
  /\ failure' = failure \/ failure'.why # "429"
  /\ \/ /\ pc \in {"idle", "sent", "reading"}
        /\ pc' \notin {"sleeping", "sent"}
        /\ pc = "sent" => pc' # "reading"
     \/ pc = "switching" /\ pc' = "waiting"
     \/ pc = "switching" /\ pc' = "idle" /\ failure.why = "403"
     \/ pc = "switching" /\ pc' \in {"switching", "backing off"} /\ UNCHANGED failure
     \/ pc = "sleeping" /\ sleepIn = 0 /\ pc' = "waiting"

(* Every step but the lapse of time: what it does to the shared cooldown.   *)
LEMMA StepsOfTheCooldown ==
  ASSUME Step
  PROVE  \/ Sends /\ ReserveRequest /\ UNCHANGED <<sleepIn, failure>>
         \/ pc = "sent" /\ pc' = "reading" /\ RememberSuccess /\ UNCHANGED <<sleepIn, failure>>
         \/ /\ pc = "sent" /\ pc' \in {"switching", "backing off"}
            /\ RememberRateLimit /\ failure'.why = "429" /\ UNCHANGED sleepIn
         \/ /\ StartsSleeping /\ UNCHANGED failure
            /\ \/ sleepIn' = failure.delay /\ UNCHANGED cooldownVars
               \/ RememberCooldown(failure.delay) /\ sleepIn' = allowedIn'
         \/ Passes
<1> USE DEF Sends, StartsSleeping
<1>1. ASSUME NEW kind, StartLookup(kind) PROVE Passes
  BY <1>1 DEF StartLookup, Passes
<1>2. CASE SendRequest
  BY <1>2 DEF SendRequest
<1>3. CASE Accepted
  BY <1>3 DEF Accepted
<1>4. CASE RefusedForGood \/ ReadBody \/ LineRefused
  BY <1>4, EndKept DEF RefusedForGood, ReadBody, LineRefused, Passes
<1>5. ASSUME NEW why \in Refusals \ {"429"}, NotDelivered(why) PROVE Passes
  BY <1>5, FailureKept DEF NotDelivered, Passes
<1>6. CASE RateLimited
  BY <1>6, FailureKept DEF RateLimited
<1>7. CASE ServerError
  <2>1. pc = "sent" /\ UNCHANGED cooldownVars /\ \E delay : FailsWith("5xx", delay)
    BY <1>7 DEF ServerError
  <2>2. failure'.why = "5xx" /\ pc' \in {"switching", "backing off"} /\ sleepIn' = sleepIn
    BY <2>1, FailureKept
  <2> QED
    BY <2>1, <2>2 DEF Passes
<1>8. CASE ReadLine
  BY <1>8 DEF ReadLine, searchVars, Passes
<1>9. ASSUME NEW why \in ReadFailures, ReadFails(why) PROVE Passes
  <2>1. why # "429"
    BY DEF ReadFailures
  <2>2. CASE FailsWith(why, Backoff(readAttempt))
    <3>1. failure'.why = why /\ pc' \in {"switching", "backing off"} /\ sleepIn' = sleepIn
      BY <2>2, FailureKept
    <3>2. pc = "reading" /\ UNCHANGED cooldownVars
      BY <1>9 DEF ReadFails
    <3> QED
      BY <2>1, <3>1, <3>2 DEF Passes
  <2>3. CASE Ended(why)
    BY <1>9, <2>3, EndKept DEF ReadFails, Passes
  <2> QED
    BY <1>9, <2>2, <2>3 DEF ReadFails
<1>10. CASE SwitchAnswered
  <2>1. pc = "switching" /\ UNCHANGED cooldownVars
    BY <1>10 DEF SwitchAnswered
  <2>2. CASE switched
    <3>1. failure'.why # "429"
      BY <1>10, <2>2 DEF SwitchAnswered, NoFailure
    <3> QED
      BY <1>10, <2>1, <2>2, <3>1 DEF SwitchAnswered, Passes
  <2>3. CASE ~ switched /\ failure.why = "403"
    <3>1. Ended("403")
      BY <1>10, <2>3 DEF SwitchAnswered
    <3> QED
      BY <2>1, <2>3, <3>1, EndKept DEF Passes
  <2>4. CASE ~ switched /\ failure.why # "403"
    BY <1>10, <2>1, <2>4 DEF SwitchAnswered, Passes
  <2> QED
    BY <2>2, <2>3, <2>4
<1>11. CASE BackOff
  BY <1>11 DEF BackOff
<1>12. CASE WakeUp
  <2>1. failure'.why # "429"
    BY <1>12 DEF WakeUp, NoFailure
  <2> QED
    BY <1>12, <2>1 DEF WakeUp, Passes
<1>13. CASE RouteSearch
  BY <1>13 DEF RouteSearch, searchVars, Passes
<1> QED
  BY <1>1, <1>2, <1>3, <1>4, <1>5, <1>6, <1>7, <1>8, <1>9, <1>10, <1>11, <1>12, <1>13
     DEF Step, Answer, Program

-----------------------------------------------------------------------------
\* Pacing. What is booked and the time since the last request make up the
\* smallest interval; what is owed is covered by the failure while routes are
\* searched, and by the cooldown or the sleep of the caller afterwards, and
\* nothing is owed while a request or its answer is under way;
\* successes count among the requests accepted since the last 429.
PacingInv == quiet \in 0 .. MaxInterval /\ pacingIn + quiet >= MinInterval

CoverInv ==
  /\ owed \in Nat
  /\ pc \in {"idle", "sent", "reading"} => owed = 0
  /\ pc \in {"switching", "backing off"} => owed <= failure.delay
  /\ pc \in {"switching", "backing off"} /\ failure.why = "403" => owed = 0
  /\ pc \in {"waiting", "sleeping"} => owed <= Longest(allowedIn, sleepIn)
  /\ pc # "sleeping" => sleepIn = 0

EarnedInv == accepted \in 0 .. SuccessesBeforeSpeedup /\ successes <= accepted

LEMMA PacingStep == TInv /\ PacingInv /\ [MCNext]_mcVars => PacingInv'
<1> SUFFICES ASSUME TInv, PacingInv, [MCNext]_mcVars PROVE PacingInv'
  OBVIOUS
<1> USE CooldownAssumption
<1>0. pacingIn \in 0 .. MaxInterval /\ interval \in MinInterval .. MaxInterval
      /\ quiet \in 0 .. MaxInterval /\ pacingIn + quiet >= MinInterval
  BY DEF TInv, CooldownTypeOK, PacingInv
<1>1. CASE Step /\ ObserveStep
  <2>1. CASE Sends /\ ReserveRequest
    BY <1>0, <1>1, <2>1 DEF ObserveStep, ReserveRequest, PacingInv
  <2>2. CASE ~ Sends /\ pacingIn' = pacingIn
    BY <1>0, <1>1, <2>2 DEF ObserveStep, PacingInv
  <2>3. (Sends /\ ReserveRequest) \/ pacingIn' = pacingIn
    <3>1. RememberSuccess \/ RememberRateLimit \/ UNCHANGED cooldownVars => pacingIn' = pacingIn
      BY DEF RememberSuccess, RememberRateLimit, cooldownVars
    <3>2. RememberCooldown(failure.delay) => pacingIn' = pacingIn
      BY DEF RememberCooldown
    <3>3. Passes => UNCHANGED cooldownVars
      BY DEF Passes
    <3>4. \/ Sends /\ ReserveRequest
          \/ RememberSuccess \/ RememberRateLimit \/ UNCHANGED cooldownVars
          \/ RememberCooldown(failure.delay)
      BY <1>1, <3>3, StepsOfTheCooldown
    <3> QED
      BY <3>1, <3>2, <3>4
  <2>4. Sends => ReserveRequest
    BY <1>1, StepsOfTheCooldown DEF Sends, StartsSleeping, Passes
  <2> QED
    BY <2>1, <2>2, <2>3, <2>4
<1>2. CASE Tick /\ ObserveTick
  <2>1. pacingIn' = Elapse(pacingIn) /\ quiet' = IF quiet < MaxInterval THEN quiet + 1 ELSE quiet
    BY <1>2 DEF Tick, CooldownTick, ObserveTick
  <2> QED
    BY <1>0, <2>1 DEF Elapse, PacingInv
<1>3. CASE UNCHANGED mcVars
  BY <1>3 DEF mcVars, vars, observers, cooldownVars, PacingInv
<1> QED
  BY <1>1, <1>2, <1>3 DEF MCNext

LEMMA CoverStep == TInv /\ CoverInv /\ [MCNext]_mcVars => CoverInv'
<1> SUFFICES ASSUME TInv, CoverInv, [MCNext]_mcVars PROVE CoverInv'
  OBVIOUS
<1>0. allowedIn \in 0 .. MaxRetryDelay /\ sleepIn \in 0 .. MaxRetryDelay
      /\ failure.delay \in 0 .. MaxRetryDelay /\ MaxRetryDelay \in Nat
  BY RetryAssumption DEF TInv, CooldownTypeOK, LoopTypeOK, Failures
<1>1. /\ failure'.delay \in 0 .. MaxRetryDelay
      /\ allowedIn' \in 0 .. MaxRetryDelay /\ sleepIn' \in 0 .. MaxRetryDelay
  BY StepsTyped DEF TInv, CooldownTypeOK, LoopTypeOK, Failures
<1>2. pc \in {"idle", "sent", "reading"} => owed = 0
  BY DEF CoverInv
<1>3. owed \in Nat /\ (pc # "sleeping" => sleepIn = 0)
  BY DEF CoverInv
<1>4. ASSUME owed' = 0, pc' # "sleeping" => sleepIn' = 0 PROVE CoverInv'
  <2>1. owed' \in Nat /\ owed' <= failure'.delay /\ owed' <= Longest(allowedIn', sleepIn')
    BY <1>0, <1>1, <1>4 DEF Longest
  <2> QED
    BY <1>4, <2>1 DEF CoverInv
<1>5. CASE Step /\ ObserveStep
  <2>1. CASE Sends /\ ReserveRequest /\ UNCHANGED <<sleepIn, failure>>
    <3>1. owed' = owed /\ allowedIn = 0 /\ pc = "waiting" /\ pc' = "sent"
      BY <1>5, <2>1 DEF ObserveStep, ReserveRequest, Sends, AsksToWait, Reroutes
    <3>2. owed = 0
      BY <1>3, <3>1 DEF CoverInv, Longest
    <3> QED
      BY <1>3, <1>4, <2>1, <3>1, <3>2
  <2>2. CASE pc = "sent" /\ pc' = "reading" /\ UNCHANGED sleepIn
    <3>1. owed' = owed
      BY <1>5, <2>2 DEF ObserveStep, AsksToWait, Reroutes
    <3> QED
      BY <1>2, <1>3, <1>4, <2>2, <3>1
  <2>3. CASE /\ pc \in {"sent", "reading"} /\ pc' \in {"switching", "backing off"}
             /\ failure'.why # "403" /\ UNCHANGED sleepIn
    <3>1. owed' = Longest(0, failure'.delay)
      BY <1>2, <1>5, <2>3 DEF ObserveStep, AsksToWait
    <3>2. owed' = failure'.delay /\ owed' \in Nat
      BY <1>0, <1>1, <3>1 DEF Longest
    <3>3. sleepIn' = 0
      BY <1>3, <2>3
    <3> QED
      <4>1. owed' <= failure'.delay
        BY <1>0, <1>1, <3>2
      <4> QED
        BY <2>3, <3>2, <3>3, <4>1 DEF CoverInv
  <2>4. CASE /\ StartsSleeping /\ UNCHANGED failure
             /\ \/ sleepIn' = failure.delay /\ UNCHANGED cooldownVars
                \/ RememberCooldown(failure.delay) /\ sleepIn' = allowedIn'
    <3>1. pc = "backing off" /\ pc' = "sleeping"
      BY <2>4 DEF StartsSleeping
    <3>2. owed' = owed
      BY <1>5, <3>1 DEF ObserveStep, AsksToWait, Reroutes
    <3>3. owed <= failure.delay
      BY <3>1 DEF CoverInv
    <3>4. sleepIn' >= failure.delay
      <4>1. CASE sleepIn' = failure.delay
        BY <1>0, <4>1
      <4>2. CASE RememberCooldown(failure.delay) /\ sleepIn' = allowedIn'
        <5>1. sleepIn' = Longest(allowedIn, Longest(failure.delay, Backoff(throttleScore)))
          BY <4>2 DEF RememberCooldown
        <5>2. Backoff(throttleScore) \in 0 .. MaxRetryDelay
          BY DelaysBounded
        <5> QED
          BY <1>0, <5>1, <5>2 DEF Longest
      <4> QED
        BY <2>4, <4>1, <4>2
    <3>5. owed' \in Nat /\ owed' <= Longest(allowedIn', sleepIn')
      BY <1>0, <1>1, <1>3, <3>2, <3>3, <3>4 DEF Longest
    <3> QED
      BY <3>1, <3>5 DEF CoverInv
  <2>5. CASE Passes /\ pc \in {"idle", "sent", "reading"}
    <3>1. owed = 0 /\ sleepIn' = 0 /\ pc' \notin {"sleeping", "sent"}
      BY <1>2, <1>3, <2>5 DEF Passes
    <3>2. CASE AsksToWait
      <4>1. pc' \in {"switching", "backing off"} /\ failure'.why # "403"
        BY <3>2 DEF AsksToWait
      <4>2. owed' = Longest(0, failure'.delay)
        BY <1>5, <3>1, <3>2 DEF ObserveStep
      <4>3. owed' = failure'.delay /\ owed' \in Nat
        BY <1>0, <1>1, <4>2 DEF Longest
      <4>4. owed' <= failure'.delay
        BY <1>0, <1>1, <4>3
      <4> QED
        BY <3>1, <4>1, <4>3, <4>4 DEF CoverInv
    <3>3. CASE ~ AsksToWait
      <4>1. owed' = 0
        BY <1>5, <3>1, <3>3 DEF ObserveStep
      <4> QED
        BY <1>4, <3>1, <4>1
    <3> QED
      BY <3>2, <3>3
  <2>6. CASE Passes /\ pc = "switching" /\ pc' = "waiting"
    <3>1. owed' = 0
      BY <1>5, <2>6 DEF ObserveStep, AsksToWait, Reroutes
    <3> QED
      BY <1>3, <1>4, <2>6, <3>1 DEF Passes
  <2>7. CASE Passes /\ pc = "switching" /\ pc' = "idle" /\ failure.why = "403"
    <3>1. owed = 0
      BY <2>7 DEF CoverInv
    <3>2. owed' = 0
      BY <1>5, <2>7, <3>1 DEF ObserveStep, AsksToWait, Reroutes
    <3> QED
      BY <1>3, <1>4, <2>7, <3>2 DEF Passes
  <2>8. CASE Passes /\ pc = "switching" /\ pc' \in {"switching", "backing off"}
             /\ UNCHANGED failure
    <3>1. owed' = owed
      BY <1>5, <2>8 DEF ObserveStep, AsksToWait, Reroutes
    <3>2. owed <= failure.delay /\ (failure.why = "403" => owed = 0)
      BY <2>8 DEF CoverInv
    <3>3. sleepIn' = 0
      BY <1>3, <2>8 DEF Passes
    <3> QED
      BY <1>3, <2>8, <3>1, <3>2, <3>3 DEF CoverInv
  <2>9. CASE Passes /\ pc = "sleeping" /\ sleepIn = 0 /\ pc' = "waiting"
    <3>1. owed' = owed /\ UNCHANGED <<allowedIn, sleepIn>>
      BY <1>5, <2>9 DEF ObserveStep, AsksToWait, Reroutes, Passes, cooldownVars
    <3>2. owed <= Longest(allowedIn, sleepIn)
      BY <2>9 DEF CoverInv
    <3> QED
      BY <1>3, <2>9, <3>1, <3>2 DEF CoverInv
  <2>10. Passes => \/ pc \in {"idle", "sent", "reading"}
                   \/ pc = "switching" /\ pc' = "waiting"
                   \/ pc = "switching" /\ pc' = "idle" /\ failure.why = "403"
                   \/ /\ pc = "switching" /\ pc' \in {"switching", "backing off"}
                      /\ UNCHANGED failure
                   \/ pc = "sleeping" /\ sleepIn = 0 /\ pc' = "waiting"
    BY DEF Passes
  <2>11. CASE pc = "sent" /\ pc' \in {"switching", "backing off"} /\ failure'.why = "429"
              /\ UNCHANGED sleepIn
    BY <2>3, <2>11
  <2> QED
    BY <1>5, <2>1, <2>2, <2>4, <2>5, <2>6, <2>7, <2>8, <2>9, <2>10, <2>11, StepsOfTheCooldown
<1>6. CASE Tick /\ ObserveTick
  <2>1. /\ allowedIn' = Elapse(allowedIn) /\ sleepIn' = Elapse(sleepIn)
        /\ UNCHANGED <<pc, failure>>
        /\ owed' = IF owed > 0 THEN owed - 1 ELSE 0
    BY <1>6 DEF Tick, CooldownTick, ObserveTick
  <2>2. owed' \in Nat /\ owed' <= owed /\ (owed = 0 => owed' = 0)
    BY <1>3, <2>1
  <2>3. pc \in {"waiting", "sleeping"} => owed' <= Longest(allowedIn', sleepIn')
    <3> SUFFICES ASSUME pc \in {"waiting", "sleeping"}
                 PROVE  owed' <= Longest(allowedIn', sleepIn')
      OBVIOUS
    <3>1. owed <= Longest(allowedIn, sleepIn)
      BY DEF CoverInv
    <3> QED
      BY <1>0, <1>3, <2>1, <3>1 DEF Elapse, Longest
  <2>4. pc # "sleeping" => sleepIn' = 0
    BY <1>3, <2>1 DEF Elapse
  <2>5. pc \in {"switching", "backing off"} => owed' <= failure.delay
    <3>1. pc \in {"switching", "backing off"} => owed <= failure.delay
      BY DEF CoverInv
    <3>2. owed <= failure.delay => owed' <= failure.delay
      BY <1>0, <1>3, <2>2
    <3> QED
      BY <3>1, <3>2
  <2>6. /\ pc \in {"switching", "backing off"} /\ failure.why = "403" => owed' = 0
        /\ pc \in {"idle", "sent", "reading"} => owed' = 0
    <3>1. /\ pc \in {"switching", "backing off"} /\ failure.why = "403" => owed = 0
          /\ pc \in {"idle", "sent", "reading"} => owed = 0
      BY DEF CoverInv
    <3> QED
      BY <2>2, <3>1
  <2> QED
    BY <2>1, <2>2, <2>3, <2>4, <2>5, <2>6 DEF CoverInv
<1>7. CASE UNCHANGED mcVars
  BY <1>7 DEF mcVars, vars, observers, cooldownVars, searchVars, CoverInv
<1> QED
  BY <1>5, <1>6, <1>7 DEF MCNext

LEMMA EarnedStep ==
  TInv /\ EarnedInv /\ [MCNext]_mcVars =>
    EarnedInv' /\ (interval' < interval => accepted + 1 >= SuccessesBeforeSpeedup)
<1> SUFFICES ASSUME TInv, EarnedInv, [MCNext]_mcVars
             PROVE  EarnedInv' /\ (interval' < interval => accepted + 1 >= SuccessesBeforeSpeedup)
  OBVIOUS
<1> USE CooldownAssumption
<1>0. /\ successes \in 0 .. SuccessesBeforeSpeedup - 1 /\ interval \in MinInterval .. MaxInterval
      /\ accepted \in 0 .. SuccessesBeforeSpeedup /\ successes <= accepted
  BY DEF TInv, CooldownTypeOK, EarnedInv
<1>1. CASE Step /\ ObserveStep
  <2>1. CASE pc = "sent" /\ pc' = "reading" /\ RememberSuccess /\ UNCHANGED failure
    <3>1. accepted' = IF accepted < SuccessesBeforeSpeedup THEN accepted + 1 ELSE accepted
      BY <1>1, <2>1 DEF ObserveStep
    <3>2. /\ successes' = 0 \/ successes' = successes + 1
          /\ interval' = interval \/ successes + 1 >= SuccessesBeforeSpeedup
      BY <2>1 DEF RememberSuccess
    <3>3. successes' \in 0 .. SuccessesBeforeSpeedup - 1
      BY StepsTyped DEF TInv, CooldownTypeOK
    <3> QED
      BY <1>0, <3>1, <3>2, <3>3 DEF EarnedInv
  <2>2. CASE RememberRateLimit
    <3>1. successes' = 0 /\ interval' >= interval
      BY <1>0, <2>2 DEF RememberRateLimit
    <3>2. accepted' \in 0 .. SuccessesBeforeSpeedup
      BY <1>0, <1>1 DEF ObserveStep
    <3>3. interval' \in Nat /\ ~ (interval' < interval)
      BY <1>0, <2>2, <3>1 DEF RememberRateLimit
    <3> QED
      BY <1>0, <3>1, <3>2, <3>3 DEF EarnedInv
  <2>3. CASE interval' = interval /\ (successes' = successes \/ successes' = 0)
             /\ (failure' = failure \/ failure'.why # "429")
    <3>1. accepted' \in {accepted, accepted + 1} /\ accepted' \in 0 .. SuccessesBeforeSpeedup
      BY <1>0, <1>1, <2>3 DEF ObserveStep
    <3> QED
      BY <1>0, <2>3, <3>1 DEF EarnedInv
  <2> QED
    BY <1>1, <2>1, <2>2, <2>3, StepsOfTheCooldown
       DEF ReserveRequest, RememberCooldown, Passes, cooldownVars
<1>2. CASE (Tick /\ ObserveTick) \/ UNCHANGED mcVars
  <2>1. UNCHANGED <<interval, successes, accepted>>
    BY <1>2 DEF Tick, CooldownTick, ObserveTick, mcVars, vars, cooldownVars, observers
  <2> QED
    BY <1>0, <2>1 DEF EarnedInv
<1> QED
  BY <1>1, <1>2 DEF MCNext

LEMMA PacingInitial == MCInit => PacingInv /\ CoverInv /\ EarnedInv
BY CooldownAssumption, RetryAssumption
   DEF MCInit, Init, CooldownInit, PacingInv, CoverInv, EarnedInv, Longest

(* However requests fail and whichever routes they take, two of them are at *)
(* least MIN_CDX_REQUEST_INTERVAL apart (reserve_cdx_request_at).           *)
THEOREM RequestsNeverCrowd == MCSpec => RequestsApart
<1>1. TInv /\ PacingInv /\ [MCNext]_mcVars => [Sends => quiet >= MinInterval]_mcVars
  <2> SUFFICES ASSUME TInv, PacingInv, MCNext, Sends PROVE quiet >= MinInterval
    OBVIOUS
  <2>1. Step
    BY DEF MCNext, Tick, Sends
  <2>2. pacingIn = 0
    BY <2>1, StepsOfTheCooldown DEF Sends, StartsSleeping, Passes, ReserveRequest
  <2> QED
    BY <2>2, CooldownAssumption DEF PacingInv
<1> QED
  BY <1>1, InitiallyTyped, StepsTyped, PacingInitial, PacingStep, PTL DEF MCSpec, RequestsApart

(* A wait a failure asked for, Retry-After included, is over before the     *)
(* next request, be the routes searched in vain meanwhile; only a route     *)
(* that was found drops it (send_cdx_request, remember_cdx_cooldown,        *)
(* reserve_cdx_request_at).                                                 *)
THEOREM CooldownsAreHonoured == MCSpec => NoRequestWhileOwed
<1>1. TInv /\ CoverInv /\ [MCNext]_mcVars => [Sends => owed = 0]_mcVars
  <2> SUFFICES ASSUME TInv, CoverInv, MCNext, Sends PROVE owed = 0
    OBVIOUS
  <2>1. Step
    BY DEF MCNext, Tick, Sends
  <2>2. allowedIn = 0 /\ sleepIn = 0 /\ pc = "waiting"
    BY <2>1, StepsOfTheCooldown DEF Sends, StartsSleeping, Passes, ReserveRequest, CoverInv
  <2> QED
    BY <2>2 DEF CoverInv, Longest
<1> QED
  BY <1>1, InitiallyTyped, StepsTyped, PacingInitial, CoverStep, PTL DEF MCSpec, NoRequestWhileOwed

(* The spacing is relaxed only when enough requests have been accepted      *)
(* since the last 429 (remember_cdx_success, remember_cdx_rate_limit).      *)
THEOREM SpacingIsEarned == MCSpec => SpeedupIsEarned
<1>1. TInv /\ EarnedInv /\ [MCNext]_mcVars =>
        EarnedInv' /\ [interval' < interval => accepted + 1 >= SuccessesBeforeSpeedup]_mcVars
  BY EarnedStep
<1> QED
  BY <1>1, InitiallyTyped, StepsTyped, PacingInitial, PTL DEF MCSpec, SpeedupIsEarned

-----------------------------------------------------------------------------
\* What a lookup returns.

LEMMA OrdersAgree ==
  ASSUME NEW a, NEW b, NEW c,
         a.time \in Nat, b.time \in Nat, c.time \in Nat,
         a.original \in Nat, b.original \in Nat, c.original \in Nat
  PROVE  /\ ~ ByStrategy(b, a) \/ ~ ByStrategy(a, b)
         /\ ~ ByStrategy(b, a) /\ ~ ByStrategy(c, b) => ~ ByStrategy(c, a)
         /\ ~ ByOriginal(b, a) \/ ~ ByOriginal(a, b)
         /\ ~ ByOriginal(b, a) /\ ~ ByOriginal(c, b) => ~ ByOriginal(c, a)
BY DEF ByStrategy, ByOriginal, Preferred

(* sort_by: there is an order to leave the records in, for both comparisons.*)
LEMMA SortingSucceeds ==
  ASSUME NEW n \in Nat, NEW items, DOMAIN items = 1 .. n,
         \A i \in 1 .. n : items[i].time \in Nat /\ items[i].original \in Nat
  PROVE  /\ SortedByStrategy(items) \in Rearrangements(items)
         /\ \A i, j \in 1 .. n : i < j =>
              ~ ByStrategy(SortedByStrategy(items)[j], SortedByStrategy(items)[i])
         /\ SortedByOriginal(items) \in Rearrangements(items)
         /\ \A i, j \in 1 .. n : i < j =>
              ~ ByOriginal(SortedByOriginal(items)[j], SortedByOriginal(items)[i])
<1> DEFINE StrategyOrder == {x \in (1 .. n) \X (1 .. n) : ~ ByStrategy(items[x[2]], items[x[1]])}
           OriginalOrder == {x \in (1 .. n) \X (1 .. n) : ~ ByOriginal(items[x[2]], items[x[1]])}
           In(p) == [i \in DOMAIN items |-> items[p[i]]]
<1>1. /\ \A i, j \in 1 .. n : <<i, j>> \in StrategyOrder <=> ~ ByStrategy(items[j], items[i])
      /\ \A i, j \in 1 .. n : <<i, j>> \in OriginalOrder <=> ~ ByOriginal(items[j], items[i])
  OBVIOUS
<1> HIDE DEF StrategyOrder, OriginalOrder
<1>2. /\ \A i, j \in 1 .. n : <<i, j>> \in StrategyOrder \/ <<j, i>> \in StrategyOrder
      /\ \A i, j \in 1 .. n : <<i, j>> \in OriginalOrder \/ <<j, i>> \in OriginalOrder
  BY <1>1, OrdersAgree
<1>3. /\ \A i, j, k \in 1 .. n :
           <<i, j>> \in StrategyOrder /\ <<j, k>> \in StrategyOrder => <<i, k>> \in StrategyOrder
      /\ \A i, j, k \in 1 .. n :
           <<i, j>> \in OriginalOrder /\ <<j, k>> \in OriginalOrder => <<i, k>> \in OriginalOrder
  BY <1>1, OrdersAgree
<1>4. ASSUME NEW p \in [1 .. n -> 1 .. n], \A i, j \in 1 .. n : p[i] = p[j] => i = j
      PROVE  In(p) \in Rearrangements(items) /\ \A i \in 1 .. n : In(p)[i] = items[p[i]]
  <2>1. p \in Injection(DOMAIN items, DOMAIN items)
    BY <1>4 DEF Injection, IsInjective
  <2> QED
    BY <2>1 DEF Rearrangements
<1>5. \E a \in Rearrangements(items) :
        \A i, j \in DOMAIN items : i < j => ~ ByStrategy(a[j], a[i])
  <2>1. PICK p \in [1 .. n -> 1 .. n] :
          /\ \A i, j \in 1 .. n : p[i] = p[j] => i = j
          /\ \A i, j \in 1 .. n : i < j => <<p[i], p[j]>> \in StrategyOrder
    BY <1>2, <1>3, SortingExists
  <2>2. \A i, j \in 1 .. n : i < j => ~ ByStrategy(items[p[j]], items[p[i]])
    BY <1>1, <2>1
  <2>3. In(p) \in Rearrangements(items) /\ \A i \in 1 .. n : In(p)[i] = items[p[i]]
    BY <1>4, <2>1
  <2> HIDE DEF In
  <2> QED
    BY <2>2, <2>3
<1>6. \E a \in Rearrangements(items) :
        \A i, j \in DOMAIN items : i < j => ~ ByOriginal(a[j], a[i])
  <2>1. PICK p \in [1 .. n -> 1 .. n] :
          /\ \A i, j \in 1 .. n : p[i] = p[j] => i = j
          /\ \A i, j \in 1 .. n : i < j => <<p[i], p[j]>> \in OriginalOrder
    BY <1>2, <1>3, SortingExists
  <2>2. \A i, j \in 1 .. n : i < j => ~ ByOriginal(items[p[j]], items[p[i]])
    BY <1>1, <2>1
  <2>3. In(p) \in Rearrangements(items) /\ \A i \in 1 .. n : In(p)[i] = items[p[i]]
    BY <1>4, <2>1
  <2> HIDE DEF In
  <2> QED
    BY <2>2, <2>3
<1>7. /\ SortedByStrategy(items) \in Rearrangements(items)
      /\ \A i, j \in DOMAIN items : i < j =>
           ~ ByStrategy(SortedByStrategy(items)[j], SortedByStrategy(items)[i])
  BY <1>5, Zenon DEF SortedByStrategy
<1>8. /\ SortedByOriginal(items) \in Rearrangements(items)
      /\ \A i, j \in DOMAIN items : i < j =>
           ~ ByOriginal(SortedByOriginal(items)[j], SortedByOriginal(items)[i])
  BY <1>6, Zenon DEF SortedByOriginal
<1> QED
  BY <1>7, <1>8

(* A rearrangement has the same elements, and of distinct ones no two alike.*)
SameItems(n, answer, items) ==
  /\ DOMAIN answer = 1 .. n
  /\ \A i \in 1 .. n : \E j \in 1 .. n : answer[i] = items[j]
  /\ \A j \in 1 .. n : \E i \in 1 .. n : answer[i] = items[j]
  /\ IsInjective(items) => IsInjective(answer)

LEMMA RearrangementProperties ==
  ASSUME NEW n \in Nat, NEW items, DOMAIN items = 1 .. n, NEW answer \in Rearrangements(items)
  PROVE  SameItems(n, answer, items)
<1>1. PICK p \in Injection(1 .. n, 1 .. n) : answer = [i \in DOMAIN items |-> items[p[i]]]
  BY DEF Rearrangements
<1>2. p \in [1 .. n -> 1 .. n] /\ \A i, j \in 1 .. n : p[i] = p[j] => i = j
  BY <1>1 DEF Injection, IsInjective
<1>3. \A j \in 1 .. n : \E i \in 1 .. n : p[i] = j
  <2>1. IsFiniteSet(1 .. n)
    BY FS_Interval
  <2>2. p \in Surjection(1 .. n, 1 .. n)
    BY <1>1, <2>1, FS_Injection
  <2> QED
    BY <2>2 DEF Surjection
<1>4. DOMAIN answer = 1 .. n /\ \A i \in 1 .. n : p[i] \in 1 .. n /\ answer[i] = items[p[i]]
  BY <1>1, <1>2
<1>5. ASSUME NEW j \in 1 .. n PROVE \E i \in 1 .. n : answer[i] = items[j]
  <2>1. PICK i \in 1 .. n : p[i] = j
    BY <1>3
  <2>2. answer[i] = items[j]
    BY <1>4, <2>1
  <2> QED
    BY <2>2
<1>6. ASSUME IsInjective(items), NEW i \in 1 .. n, NEW j \in 1 .. n, answer[i] = answer[j]
      PROVE  i = j
  <2>1. items[p[i]] = items[p[j]] /\ p[i] \in 1 .. n /\ p[j] \in 1 .. n
    BY <1>4, <1>6
  <2>2. p[i] = p[j]
    BY <1>6, <2>1 DEF IsInjective
  <2> QED
    BY <1>2, <2>2
<1>7. IsInjective(items) => IsInjective(answer)
  BY <1>4, <1>6 DEF IsInjective
<1> QED
  BY <1>4, <1>5, <1>7 DEF SameItems

(* A lookup that ended with success has read its body to the end; the other *)
(* records are the lines read so far.                                       *)
ListingInv ==
  /\ lookup = "all" => Len(records) = read /\ \A i \in 1 .. read : records[i] = body[i]
  /\ result # "none" => pc = "idle"
  /\ result = "ok" => read = Len(body)

LEMMA ListingInitial == Init => ListingInv
BY DEF Init, ListingInit, ListingInv

(* A step that reads nothing.                                               *)
LEMMA ListingKept ==
  ASSUME ListingInv, UNCHANGED <<listingVars, lookup>>,
         \/ result' = result /\ (pc' = pc \/ pc # "idle")
         \/ pc' = "idle" /\ result' # "ok"
  PROVE  ListingInv'
BY DEF ListingInv, listingVars

LEMMA ListingDropped ==
  ASSUME Discard, result' = "none" \/ (pc' = "idle" /\ result' # "ok")
  PROVE  ListingInv'
<1>1. records' = <<>> /\ read' = 0 /\ result' # "ok"
  BY DEF Discard
<1>2. Len(records') = 0 /\ 1 .. 0 = {}
  BY <1>1
<1> QED
  BY <1>1, <1>2 DEF ListingInv

LEMMA ListingStep == TInv /\ ListingInv /\ [Next]_vars => ListingInv'
<1> SUFFICES ASSUME TInv, ListingInv, [Next]_vars PROVE ListingInv'
  OBVIOUS
<1>1. ASSUME NEW kind, StartLookup(kind) PROVE ListingInv'
  BY <1>1, ListingDropped DEF StartLookup
<1>2. CASE SendRequest \/ BackOff \/ WakeUp \/ Tick
  BY <1>2, ListingKept DEF SendRequest, BackOff, WakeUp, Tick
<1>3. CASE Accepted
  <2>1. records' = <<>> /\ read' = 0 /\ result' = "none"
    BY <1>3 DEF Accepted, BeginBody, TInv, IInv, Between, NothingKept, ListingInv
  <2>2. Len(records') = 0 /\ 1 .. 0 = {}
    BY <2>1
  <2> QED
    BY <2>1, <2>2 DEF ListingInv
<1>4. CASE RefusedForGood
  BY <1>4, ListingKept DEF RefusedForGood, Ended
<1>5. ASSUME NEW why, NotDelivered(why) PROVE ListingInv'
  BY <1>5, ListingKept DEF NotDelivered, FailsWith
<1>6. CASE RateLimited
  BY <1>6, ListingKept DEF RateLimited, FailsWith
<1>7. CASE ServerError
  BY <1>7, ListingKept DEF ServerError, FailsWith
<1>8. CASE ReadLine
  <2>1. lookup' = lookup /\ result' = "none" /\ body' = body /\ read' = read + 1 /\ read \in Nat
    BY <1>8 DEF ReadLine, searchVars, IngestLine, TInv, IInv, ListingInv
  <2>2. CASE lookup = "all"
    <3>1. records' = Append(records, body[read + 1])
      BY <1>8, <2>2 DEF ReadLine, IngestLine, IngestAll, NextLine
    <3>2. records \in Seq(RecordsOf(body))
      BY DEF TInv, ListingTypeOK
    <3>3. Len(records) = read /\ \A i \in 1 .. read : records[i] = body[i]
      BY <2>2 DEF ListingInv
    <3>4. Len(records') = read + 1 /\ \A i \in 1 .. read + 1 : records'[i] = body[i]
      BY <2>1, <3>1, <3>2, <3>3
    <3> QED
      BY <2>1, <2>2, <3>4 DEF ListingInv
  <2>3. CASE lookup # "all"
    BY <2>1, <2>3 DEF ListingInv
  <2> QED
    BY <2>2, <2>3
<1>9. CASE ReadBody
  <2>1. read = Len(body)
    BY <1>9, BodyIsSeq DEF ReadBody, MoreLines, TInv, IInv
  <2> QED
    BY <1>9, <2>1 DEF ReadBody, Ended, ListingInv, listingVars
<1>10. CASE LineRefused
  BY <1>10, ListingDropped DEF LineRefused, Ended
<1>11. ASSUME NEW why \in ReadFailures, ReadFails(why) PROVE ListingInv'
  <2>1. Discard /\ why # "ok" /\ pc = "reading"
    BY <1>11 DEF ReadFails, ReadFailures
  <2>2. CASE FailsWith(why, Backoff(readAttempt))
    BY <2>1, <2>2, ListingDropped DEF FailsWith, ListingInv
  <2>3. CASE Ended(why)
    BY <2>1, <2>3, ListingDropped DEF Ended
  <2> QED
    BY <1>11, <2>2, <2>3 DEF ReadFails
<1>12. CASE SwitchAnswered
  BY <1>12, ListingKept DEF SwitchAnswered, Ended
<1>13. CASE RouteSearch \/ UNCHANGED vars
  BY <1>13, ListingKept DEF RouteSearch, vars, searchVars
<1> QED
  BY <1>1, <1>2, <1>3, <1>4, <1>5, <1>6, <1>7, <1>8, <1>9, <1>10, <1>11, <1>12, <1>13
     DEF Next, Step, Answer, Program

(* A body that was read to the end.                                         *)
LEMMA BodyWasRead ==
  ASSUME TInv, ListingInv, result = "ok"
  PROVE  /\ Len(body) \in Nat /\ DOMAIN body = 1 .. Len(body) /\ read = Len(body)
         /\ RecordsOf(body) = {body[i] : i \in 1 .. Len(body)}
         /\ body \in [1 .. Len(body) -> RecordsOf(body)]
         /\ \A r \in RecordsOf(body) : r.time \in Nat /\ r.original \in Nat
         /\ IsFiniteSet(RecordsOf(body))
<1>1. body \in Bodies \/ body = <<>>
  BY DEF TInv, IInv
<1>2. Len(body) \in Nat /\ DOMAIN body = 1 .. Len(body)
  <2>1. CASE body \in Bodies
    BY <2>1, ListingAssumption
  <2>2. CASE body = <<>>
    BY <2>2
  <2> QED
    BY <1>1, <2>1, <2>2
<1>3. read = Len(body) /\ \A i \in 1 .. Len(body) : body[i] # Malformed
  BY DEF TInv, IInv, ListingInv
<1>4. RecordsOf(body) = {body[i] : i \in 1 .. Len(body)}
  BY <1>2, <1>3 DEF RecordsOf
<1>5. body \in [1 .. Len(body) -> RecordsOf(body)]
  <2>1. body = [i \in 1 .. Len(body) |-> body[i]]
    <3>1. CASE body \in Bodies
      <4>1. body \in Seq(RecordsOf(body) \cup {Malformed})
        BY <3>1, ListingAssumption
      <4> QED
        BY <4>1
    <3>2. CASE body = <<>>
      BY <3>2
    <3> QED
      BY <1>1, <3>1, <3>2
  <2> QED
    BY <1>4, <2>1
<1>6. \A r \in RecordsOf(body) : r.time \in Nat /\ r.original \in Nat
  <2>1. CASE body \in Bodies
    BY <2>1, ListingAssumption
  <2>2. CASE body = <<>>
    BY <1>4, <2>2
  <2> QED
    BY <1>1, <2>1, <2>2
<1>7. IsFiniteSet(RecordsOf(body))
  <2>1. body \in Surjection(1 .. Len(body), RecordsOf(body))
    BY <1>4, <1>5 DEF Surjection
  <2>2. IsFiniteSet(1 .. Len(body))
    BY <1>2, FS_Interval
  <2> QED
    BY <2>1, <2>2, FS_Surjection
<1> QED
  BY <1>2, <1>3, <1>4, <1>5, <1>6, <1>7

(* into_values: the records kept, each once.                                *)
LEMMA SetToSeqProperties ==
  ASSUME NEW kept, IsFiniteSet(kept)
  PROVE  \E n \in Nat :
           /\ SetToSeq(kept) \in [1 .. n -> kept]
           /\ IsInjective(SetToSeq(kept))
           /\ \A r \in kept : \E i \in 1 .. n : SetToSeq(kept)[i] = r
<1> DEFINE n == Cardinality(kept)
<1>1. n \in Nat /\ ExistsBijection(1 .. n, kept)
  BY FS_CardinalityType
<1>2. \E f \in [1 .. n -> kept] : IsInjective(f)
  BY <1>1 DEF ExistsBijection, Bijection, Injection
<1>3. SetToSeq(kept) \in [1 .. n -> kept] /\ IsInjective(SetToSeq(kept))
  BY <1>2, Zenon DEF SetToSeq
<1>4. SetToSeq(kept) \in Injection(1 .. n, kept)
  BY <1>3 DEF Injection
<1>5. Cardinality(1 .. n) = n
  BY <1>1, FS_Interval
<1>6. SetToSeq(kept) \in Surjection(1 .. n, kept)
  BY <1>4, <1>5, FS_Injection
<1>7. \A r \in kept : \E i \in 1 .. n : SetToSeq(kept)[i] = r
  BY <1>6 DEF Surjection
<1> HIDE DEF n
<1> QED
  BY <1>1, <1>3, <1>7

LEMMA EveryRecordIsReturned ==
  ASSUME TInv, ListingInv, result = "ok", lookup = "all"
  PROVE  /\ Returned(lookup) \in Rearrangements(body)
         /\ \A i, j \in DOMAIN Returned(lookup) :
              Preferred(Returned(lookup)[i], Returned(lookup)[j]) => i < j
<1> DEFINE answer == SortedByStrategy(records)
           n == Len(body)
<1>1. Returned(lookup) = answer
  BY DEF Returned
<1>2. records = body
  <2>1. Len(records) = Len(body) /\ \A i \in 1 .. Len(body) : records[i] = body[i]
    BY BodyWasRead DEF ListingInv
  <2>2. records \in Seq(RecordsOf(body))
    BY DEF TInv, ListingTypeOK
  <2>3. records = [i \in 1 .. Len(body) |-> records[i]]
    BY <2>1, <2>2
  <2>4. body = [i \in 1 .. Len(body) |-> body[i]]
    BY BodyWasRead
  <2> QED
    BY <2>1, <2>3, <2>4
<1>3. /\ answer \in Rearrangements(body)
      /\ \A i, j \in 1 .. n : i < j => ~ ByStrategy(answer[j], answer[i])
  BY <1>2, BodyWasRead, SortingSucceeds
<1> HIDE DEF answer
<1>4. DOMAIN answer = 1 .. n /\ \A i \in 1 .. n : answer[i] \in RecordsOf(body)
  <2>1. n \in Nat /\ DOMAIN body = 1 .. n /\ \A i \in 1 .. n : body[i] \in RecordsOf(body)
    BY BodyWasRead
  <2> HIDE DEF n
  <2>2. SameItems(n, answer, body)
    BY <1>3, <2>1, RearrangementProperties
  <2> QED
    BY <2>1, <2>2 DEF SameItems
<1>5. \A i, j \in 1 .. n : Preferred(answer[i], answer[j]) => i < j
  <2> SUFFICES ASSUME NEW i \in 1 .. n, NEW j \in 1 .. n, Preferred(answer[i], answer[j])
               PROVE  i < j
    OBVIOUS
  <2>1. answer[i].time \in Nat /\ answer[j].time \in Nat
    BY <1>4, BodyWasRead
  <2>2. ~ (j < i)
    BY <1>3 DEF ByStrategy
  <2>3. i # j
    BY <2>1 DEF Preferred
  <2> QED
    BY <2>2, <2>3, BodyWasRead
<1> QED
  BY <1>1, <1>3, <1>4, <1>5

LEMMA OneRecordForEachUrl ==
  ASSUME TInv, ListingInv, result = "ok", lookup # "all"
  PROVE  LET answer == Returned(lookup)
         IN  /\ \A i \in DOMAIN answer : answer[i] \in RecordsOf(body)
             /\ \A i, j \in DOMAIN answer :
                  /\ Key(answer[i]) = Key(answer[j]) => i = j
                  /\ i < j => answer[i].original <= answer[j].original
             /\ \A r \in RecordsOf(body) : \E i \in DOMAIN answer :
                  Key(answer[i]) = Key(r) /\ ~ Preferred(r, answer[i])
<1> DEFINE kept == {chosen[k] : k \in DOMAIN chosen}
           items == SetToSeq(kept)
           answer == SortedByOriginal(items)
<1>1. lookup = "latest" /\ Returned(lookup) = answer
  BY DEF Returned, TInv, LoopTypeOK
<1>2. \A k \in DOMAIN chosen : chosen[k] \in RecordsOf(body) /\ Key(chosen[k]) = k
  BY DEF TInv, ListingTypeOK
<1>3. kept \subseteq RecordsOf(body) /\ \A r, s \in kept : Key(r) = Key(s) => r = s
  BY <1>2
<1>4. IsFiniteSet(kept)
  BY <1>3, BodyWasRead, FS_Subset
<1>5. PICK n \in Nat : /\ items \in [1 .. n -> kept]
                       /\ IsInjective(items)
                       /\ \A r \in kept : \E i \in 1 .. n : items[i] = r
  BY <1>4, SetToSeqProperties
<1> HIDE DEF items
<1>6. DOMAIN items = 1 .. n /\ \A i \in 1 .. n : items[i].time \in Nat /\ items[i].original \in Nat
  BY <1>3, <1>5, BodyWasRead
<1>7. /\ answer \in Rearrangements(items)
      /\ \A i, j \in 1 .. n : i < j => ~ ByOriginal(answer[j], answer[i])
  BY <1>6, SortingSucceeds
<1>8. /\ DOMAIN answer = 1 .. n /\ IsInjective(answer)
      /\ \A i \in 1 .. n : answer[i] \in kept
      /\ \A r \in kept : \E i \in 1 .. n : answer[i] = r
  <2>1. /\ DOMAIN answer = 1 .. n /\ IsInjective(answer)
        /\ \A i \in 1 .. n : \E j \in 1 .. n : answer[i] = items[j]
        /\ \A j \in 1 .. n : \E i \in 1 .. n : answer[i] = items[j]
    <3> HIDE DEF answer, kept
    <3>1. IsInjective(items) /\ n \in Nat
      BY <1>5
    <3>2. DOMAIN items = 1 .. n /\ answer \in Rearrangements(items)
      BY <1>6, <1>7
    <3>3. SameItems(n, answer, items)
      BY <3>1, <3>2, RearrangementProperties
    <3> QED
      BY <3>1, <3>3 DEF SameItems
  <2> HIDE DEF answer, kept
  <2> QED
    BY <1>5, <2>1
<1> HIDE DEF answer
<1>9. \A i \in 1 .. n : answer[i] \in RecordsOf(body)
  BY <1>3, <1>8
<1>10. ASSUME NEW i \in 1 .. n, NEW j \in 1 .. n
       PROVE  /\ Key(answer[i]) = Key(answer[j]) => i = j
              /\ i < j => answer[i].original <= answer[j].original
  <2>1. Key(answer[i]) = Key(answer[j]) => i = j
    <3> HIDE DEF kept
    <3> QED
      BY <1>3, <1>8 DEF IsInjective
  <2>2. answer[i].original \in Nat /\ answer[j].original \in Nat
    BY <1>9, BodyWasRead
  <2>3. i < j => answer[i].original <= answer[j].original
    BY <1>7, <2>2 DEF ByOriginal
  <2> QED
    BY <2>1, <2>3
<1>11. ASSUME NEW r \in RecordsOf(body)
       PROVE  \E i \in 1 .. n : Key(answer[i]) = Key(r) /\ ~ Preferred(r, answer[i])
  <2>1. PICK j \in 1 .. read : r = body[j]
    BY BodyWasRead
  <2>2. Key(r) \in DOMAIN chosen /\ ~ Preferred(r, chosen[Key(r)])
    BY <1>1, <2>1 DEF TInv, IInv, ChosenIsBest
  <2>3. PICK i \in 1 .. n : answer[i] = chosen[Key(r)]
    BY <1>8, <2>2
  <2> QED
    BY <1>2, <2>2, <2>3
<1> QED
  BY <1>1, <1>8, <1>9, <1>10, <1>11

(* Whatever the index answers, however many bodies break off: a lookup that *)
(* succeeds returns the records of its last answer, all of them or the one  *)
(* of each URL that no other is preferred to, in their order                *)
(* (fetch_latest_records, read_all_cdx_records).                            *)
THEOREM AnswersAreSelections == MCSpec => []ListingIsSelection
<1>1. MCInit => TInv /\ ListingInv
  BY InitiallyTyped, ListingInitial DEF MCInit
<1>2. TInv /\ ListingInv /\ [MCNext]_mcVars => TInv' /\ ListingInv'
  BY StepsTyped, ListingStep DEF MCNext, Next, mcVars
<1>3. TInv /\ ListingInv => ListingIsSelection
  BY EveryRecordIsReturned, OneRecordForEachUrl DEF ListingIsSelection
<1> QED
  BY <1>1, <1>2, <1>3, PTL DEF MCSpec
=============================================================================
