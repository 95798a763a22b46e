------------------------ MODULE WaybackClient_proofs ------------------------
(***************************************************************************)
(* For any number of SSH fallbacks and any delays, the routes of            *)
(* WaybackClient stay consistent and at most one ssh child exists.          *)
(*                                                                         *)
(* What makes RoutesAgree inductive is what holds while a search is under   *)
(* way: the client is on the direct route, so that no tunnel is             *)
(* established, and a fallback being started is one whose cooldown is over. *)
(***************************************************************************)
EXTENDS WaybackClient, TLAPS

SearchIsDirect ==
  /\ search.phase # "none" => active = Direct /\ search.index # 0
  /\ search.phase = "starting" => search.index \in Fallbacks /\ retryIn[search.index] = 0

RouteInv == RouteTypeOK /\ RoutesAgree /\ SearchIsDirect

(* A delay never exceeds MAX_SSH_RETRY_DELAY, however often a fallback has  *)
(* failed (ssh_retry_delay, src/src/wayback_client.rs:283-290).             *)
LEMMA DelayBounded == \A count : SshRetryDelay(count) \in 0 .. MaxSshDelay
<1>1. MaxSshDelay \in 0 .. MaxSshDelay
  BY SshDelayAssumption
<1> QED
  BY <1>1 DEF SshRetryDelay

(* Dropping a tunnel and cooling its fallback down keeps the types.         *)
LEMMA RememberFailureTyped ==
  ASSUME RouteTypeOK, NEW i \in Fallbacks, RememberFailure(i)
  PROVE  /\ tunnel' \in [Fallbacks -> BOOLEAN]
         /\ retryIn' \in [Fallbacks -> 0 .. MaxSshDelay]
         /\ failures' \in [Fallbacks -> 0 .. MaxSshShift]
         /\ ~ tunnel'[i]
         /\ \A j \in Fallbacks \ {i} : tunnel'[j] = tunnel[j] /\ retryIn'[j] = retryIn[j]
<1>1. SshRetryDelay(failures[i]) \in 0 .. MaxSshDelay
  BY DelayBounded
<1>2. (IF failures[i] < MaxSshShift THEN failures[i] + 1 ELSE MaxSshShift) \in 0 .. MaxSshShift
  BY SshDelayAssumption DEF RouteTypeOK
<1> QED
  BY <1>1, <1>2 DEF RouteTypeOK, RememberFailure

LEMMA RouteInitial == RouteInit => RouteInv
<1> SUFFICES ASSUME RouteInit PROVE RouteInv
  OBVIOUS
<1>1. RouteTypeOK
  <2>1. 0 \in 0 .. NumFallbacks /\ 0 \in 0 .. NumFallbacks + 1 /\ 0 \in 0 .. MaxSshDelay
        /\ 0 \in 0 .. MaxSshShift /\ 0 \in 0 .. ReadyTimeout
    BY NumFallbacksAssumption, SshDelayAssumption, ReadyTimeoutAssumption
  <2>2. NoSearch \in Searches
    BY <2>1 DEF NoSearch, Searches
  <2> QED
    BY <2>1, <2>2 DEF RouteInit, RouteTypeOK, Direct
<1>2. RoutesAgree
  BY DEF RouteInit, RoutesAgree, Direct
<1>3. SearchIsDirect
  BY DEF RouteInit, SearchIsDirect, NoSearch
<1> QED
  BY <1>1, <1>2, <1>3 DEF RouteInv

LEMMA RouteStep == RouteInv /\ [RouteNext]_routeVars => RouteInv'
<1> SUFFICES ASSUME RouteInv, [RouteNext]_routeVars PROVE RouteInv'
  OBVIOUS
<1> USE NumFallbacksAssumption, SshDelayAssumption, ReadyTimeoutAssumption
<1>1. CASE active = Direct /\ ActivateSsh
  <2>1. /\ search' \in Searches
        /\ search'.phase # "starting"
        /\ search'.phase # "none" => search'.index # 0
    <3>1. CASE NumFallbacks = 0
      BY <1>1, <3>1 DEF ActivateSsh, NoSearch, Searches
    <3>2. CASE NumFallbacks # 0
      BY <1>1, <3>2 DEF ActivateSsh, Probing, Searches, Direct
    <3> QED
      BY <3>1, <3>2
  <2> QED
    BY <1>1, <2>1 DEF ActivateSsh, RouteInv, RouteTypeOK, RoutesAgree, SearchIsDirect
<1>2. CASE RecoverFromActiveSshFailure
  <2>1. active \in Fallbacks
    BY <1>2 DEF RecoverFromActiveSshFailure, RouteInv, RouteTypeOK, Direct, Fallbacks
  <2>2. RememberFailure(active)
    BY <1>2 DEF RecoverFromActiveSshFailure
  <2>3. /\ tunnel' \in [Fallbacks -> BOOLEAN]
        /\ retryIn' \in [Fallbacks -> 0 .. MaxSshDelay]
        /\ failures' \in [Fallbacks -> 0 .. MaxSshShift]
        /\ \A i \in Fallbacks : ~ tunnel'[i]
    BY <2>1, <2>2, RememberFailureTyped DEF RouteInv, RoutesAgree
  <2>4. search' \in Searches /\ search'.phase = "probe" /\ search'.index # 0
    BY <1>2, <2>1 DEF RecoverFromActiveSshFailure, Probing, Searches, Fallbacks
  <2> QED
    BY <1>2, <2>3, <2>4
    DEF RecoverFromActiveSshFailure, RouteInv, RouteTypeOK, RoutesAgree, SearchIsDirect, Direct
<1>3. CASE ProbeFallback
  <2>1. search.index \in Fallbacks /\ active = Direct /\ ~ tunnel[search.index]
    BY <1>3 DEF ProbeFallback, RouteInv, RoutesAgree, SearchIsDirect, Direct, Fallbacks
  <2>2. UNCHANGED <<active, tunnel, retryIn, failures, switched>>
    BY <1>3, <2>1 DEF ProbeFallback
  <2>3. /\ search' \in Searches
        /\ search'.index # 0
        /\ search'.phase = "starting"
             => search'.index \in Fallbacks /\ retryIn[search'.index] = 0
    <3>1. CASE retryIn[search.index] > 0
      BY <1>3, <2>1, <3>1 DEF ProbeFallback, Probing, Searches, Fallbacks
    <3>2. CASE ~ retryIn[search.index] > 0
      <4>1. retryIn[search.index] = 0
        BY <2>1, <3>2 DEF RouteInv, RouteTypeOK
      <4> QED
        BY <1>3, <2>1, <3>2, <4>1 DEF ProbeFallback, Starting, Searches, Fallbacks
    <3> QED
      BY <3>1, <3>2
  <2> QED
    BY <2>1, <2>2, <2>3 DEF RouteInv, RouteTypeOK, RoutesAgree, SearchIsDirect
<1>4. CASE TunnelReady
  <2>1. /\ active = Direct
        /\ search.index \in Fallbacks
        /\ retryIn[search.index] = 0
        /\ \A i \in Fallbacks : ~ tunnel[i]
    BY <1>4 DEF TunnelReady, RouteInv, RoutesAgree, SearchIsDirect, Direct, Fallbacks
  <2>2. /\ tunnel' \in [Fallbacks -> BOOLEAN]
        /\ tunnel'[search.index]
        /\ \A i \in Fallbacks : tunnel'[i] => i = search.index
    BY <1>4, <2>1 DEF TunnelReady, RouteInv, RouteTypeOK
  <2>3. failures' \in [Fallbacks -> 0 .. MaxSshShift]
    <3>1. 0 \in 0 .. MaxSshShift
      OBVIOUS
    <3> QED
      BY <1>4, <3>1 DEF TunnelReady, RouteInv, RouteTypeOK
  <2>4. search' \in Searches /\ search'.phase = "none"
    BY <1>4 DEF TunnelReady, NoSearch, Searches
  <2> QED
    BY <1>4, <2>1, <2>2, <2>3, <2>4
    DEF TunnelReady, RouteInv, RouteTypeOK, RoutesAgree, SearchIsDirect, Fallbacks
<1>5. CASE search.phase = "starting" /\ StartFailed
  <2>1. /\ active = Direct
        /\ search.index \in Fallbacks
        /\ \A i \in Fallbacks : ~ tunnel[i]
    BY <1>5 DEF RouteInv, RoutesAgree, SearchIsDirect, Direct, Fallbacks
  <2>2. RememberFailure(search.index)
    BY <1>5 DEF StartFailed
  <2>3. /\ tunnel' \in [Fallbacks -> BOOLEAN]
        /\ retryIn' \in [Fallbacks -> 0 .. MaxSshDelay]
        /\ failures' \in [Fallbacks -> 0 .. MaxSshShift]
        /\ \A i \in Fallbacks : ~ tunnel'[i]
    BY <2>1, <2>2, RememberFailureTyped DEF RouteInv
  <2>4. search' \in Searches /\ search'.phase = "probe" /\ search'.index # 0
    BY <1>5, <2>1 DEF StartFailed, Probing, Searches, Fallbacks
  <2> QED
    BY <1>5, <2>1, <2>3, <2>4
    DEF StartFailed, RouteInv, RouteTypeOK, RoutesAgree, SearchIsDirect
<1>6. CASE SearchExhausted
  <2>1. search' \in Searches /\ search'.phase = "none"
    BY <1>6 DEF SearchExhausted, NoSearch, Searches
  <2> QED
    BY <1>6, <2>1 DEF SearchExhausted, RouteInv, RouteTypeOK, RoutesAgree, SearchIsDirect
<1>7. CASE RouteTick
  <2>1. /\ retryIn' \in [Fallbacks -> 0 .. MaxSshDelay]
        /\ \A i \in Fallbacks : retryIn[i] = 0 => retryIn'[i] = 0
    BY <1>7 DEF RouteTick, RouteInv, RouteTypeOK
  <2>2. /\ search' \in Searches
        /\ search'.phase = search.phase
        /\ search'.index = search.index
    BY <1>7 DEF RouteTick, RouteInv, RouteTypeOK, Starting, Searches
  <2>3. active # Direct => active \in Fallbacks
    BY DEF RouteInv, RouteTypeOK, Direct, Fallbacks
  <2> QED
    BY <1>7, <2>1, <2>2, <2>3
    DEF RouteTick, RouteInv, RouteTypeOK, RoutesAgree, SearchIsDirect
<1>8. CASE UNCHANGED routeVars
  BY <1>8 DEF routeVars, RouteInv, RouteTypeOK, RoutesAgree, SearchIsDirect
<1> QED
  BY <1>1, <1>2, <1>3, <1>4, <1>5, <1>6, <1>7, <1>8
  DEF RouteNext, SwitchRoute, SearchStep, SearchCode, SshAnswers, TunnelFails, TunnelTimesOut

(* The variables keep their types: the route in use is a configured one, no *)
(* cooldown is longer than MAX_SSH_RETRY_DELAY.                             *)
THEOREM RouteTypeCorrect == RouteSpec => []RouteTypeOK
<1>1. RouteInv => RouteTypeOK
  BY DEF RouteInv
<1> QED
  BY <1>1, RouteInitial, RouteStep, PTL DEF RouteSpec

(* The route in use has an established tunnel that is not cooling down, and *)
(* no other fallback has one.                                               *)
THEOREM RoutesAlwaysAgree == RouteSpec => []RoutesAgree
<1>1. RouteInv => RoutesAgree
  BY DEF RouteInv
<1> QED
  BY <1>1, RouteInitial, RouteStep, PTL DEF RouteSpec

(* At most one ssh child exists, whatever the number of fallbacks.          *)
THEOREM AtMostOneSshChild == RouteSpec => []OneSshChild
<1>1. RouteInv => OneSshChild
  BY DEF RouteInv, RoutesAgree, SearchIsDirect, OneSshChild, SshChildren, Fallbacks, Direct
<1> QED
  BY <1>1, RouteInitial, RouteStep, PTL DEF RouteSpec
=============================================================================
