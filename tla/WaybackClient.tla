--------------------------- MODULE WaybackClient ---------------------------
(***************************************************************************)
(* The HTTP client of src/src/wayback_client.rs: requests leave by the      *)
(* direct route or through one of several SSH fallbacks, each an `ssh -N -D`*)
(* child started only when it is needed and cooled down after it fails.     *)
(*                                                                         *)
(* Every change of route runs under the mutex of `active`, so one search    *)
(* for a fallback (activate_ssh_from) is in progress at a time; it takes    *)
(* time, because starting a tunnel waits for its SOCKS listener.            *)
(*                                                                         *)
(* Deadlines (Option<Instant>) are kept as the time left until them: 0 is a *)
(* deadline that has passed or was never set, which the code treats alike.  *)
(***************************************************************************)
EXTENDS Integers

CONSTANTS
  NumFallbacks,     \* number of --ssh destinations
  FirstSshDelay,    \* INITIAL_SSH_RETRY_DELAY
  MaxSshDelay,      \* MAX_SSH_RETRY_DELAY
  MaxSshShift,      \* failure count above which the delay stays the same
  ReadyTimeout      \* SSH_TUNNEL_READY_TIMEOUT

ASSUME NumFallbacksAssumption == NumFallbacks \in Nat
ASSUME SshDelayAssumption ==
  /\ FirstSshDelay \in Nat
  /\ MaxSshDelay \in Nat
  /\ MaxSshShift \in Nat
ASSUME ReadyTimeoutAssumption == ReadyTimeout \in Nat

VARIABLES
  active,     \* Direct, or the index of the SSH fallback in use
  tunnel,     \* tunnel[i]: fallback i holds a tunnel child and its client
  retryIn,    \* retryIn[i]: time left until fallback i may be tried again
  failures,   \* failures[i]: consecutive failures of fallback i
  search,     \* the search for a fallback that is in progress
  switched    \* what the last activate_ssh / recover call returned

routeVars == <<active, tunnel, retryIn, failures, search, switched>>

Fallbacks == 1 .. NumFallbacks
Direct == 0

NoSearch == [phase |-> "none", index |-> 0, waited |-> 0]
Searches == [phase : {"none", "probe", "starting"},
             index : 0 .. NumFallbacks + 1,
             waited : 0 .. ReadyTimeout]

\* Not the code: the delay without its upper bound.
UncappedSshDelay(count) == FirstSshDelay * 2 ^ count

(* The counter stops at MaxSshShift, where the delay stops depending on it. *)
SshRetryDelay(count) ==
  LET delay == FirstSshDelay * 2 ^ count
  IN  IF delay \in 0 .. MaxSshDelay THEN delay ELSE MaxSshDelay

Probing(i) == [phase |-> "probe", index |-> i, waited |-> 0]
Starting(i, t) == [phase |-> "starting", index |-> i, waited |-> t]

RouteInit ==
  /\ active = Direct
  /\ tunnel = [i \in Fallbacks |-> FALSE]
  /\ retryIn = [i \in Fallbacks |-> 0]
  /\ failures = [i \in Fallbacks |-> 0]
  /\ search = NoSearch
  /\ switched = FALSE

-----------------------------------------------------------------------------
\* Not the code: a failed fallback keeps its child.
RememberFailureOnly(i) ==
  /\ retryIn' = [retryIn EXCEPT ![i] = SshRetryDelay(failures[i])]
  /\ failures' = [failures EXCEPT ![i] =
                    IF failures[i] < MaxSshShift THEN failures[i] + 1 ELSE MaxSshShift]
  /\ UNCHANGED tunnel

(* SshFallbackState::remember_failure: the tunnel is dropped (its child is  *)
(* killed and waited for) and the fallback cools down.                      *)
RememberFailure(i) ==
  /\ tunnel' = [tunnel EXCEPT ![i] = FALSE]
  /\ retryIn' = [retryIn EXCEPT ![i] = SshRetryDelay(failures[i])]
  /\ failures' = [failures EXCEPT ![i] =
                    IF failures[i] < MaxSshShift THEN failures[i] + 1 ELSE MaxSshShift]

(* activate_ssh: without fallbacks nothing is tried; otherwise the search   *)
(* starts at the first fallback, or after the one in use.                   *)
ActivateSsh ==
  /\ search.phase = "none"
  /\ IF NumFallbacks = 0
     THEN search' = NoSearch
     ELSE search' = Probing(active + 1)
  /\ switched' = FALSE
  /\ UNCHANGED <<active, tunnel, retryIn, failures>>

\* Not the code: the failed fallback stays the active route.
RecoverOnFailedRoute ==
  /\ search.phase = "none"
  /\ active # Direct
  /\ RememberFailure(active)
  /\ search' = Probing(active + 1)
  /\ switched' = TRUE
  /\ UNCHANGED active

(* recover_from_active_ssh_failure: the failed fallback cools down, the     *)
(* client falls back to the direct route and looks for a later fallback.    *)
(* It reports a switch whether or not one is found.                         *)
RecoverFromActiveSshFailure ==
  /\ search.phase = "none"
  /\ active # Direct
  /\ RememberFailure(active)
  /\ active' = Direct
  /\ search' = Probing(active + 1)
  /\ switched' = TRUE

(* try_switch_wayback_route / try_activate_ssh_client: what every request   *)
(* loop calls on a failure.                                                 *)
SwitchRoute ==
  IF active = Direct THEN ActivateSsh ELSE RecoverFromActiveSshFailure

\* Not the code: a fallback that cools down is not passed over.
ProbeSameFallback ==
  /\ search.phase = "probe"
  /\ search.index \in Fallbacks
  /\ retryIn[search.index] = 0
  /\ IF tunnel[search.index]
     THEN active' = search.index /\ switched' = TRUE /\ search' = NoSearch
     ELSE search' = Starting(search.index, 0) /\ UNCHANGED <<active, switched>>
  /\ UNCHANGED <<tunnel, retryIn, failures>>

(* One iteration of activate_ssh_from up to SshTunnel::start.               *)
ProbeFallback ==
  /\ search.phase = "probe"
  /\ search.index \in Fallbacks
  /\ IF retryIn[search.index] > 0
     THEN search' = Probing(search.index + 1) /\ UNCHANGED <<active, switched>>
     ELSE IF tunnel[search.index]
     THEN active' = search.index /\ switched' = TRUE /\ search' = NoSearch
     ELSE search' = Starting(search.index, 0) /\ UNCHANGED <<active, switched>>
  /\ UNCHANGED <<tunnel, retryIn, failures>>

TunnelReady ==
  /\ search.phase = "starting"
  /\ tunnel' = [tunnel EXCEPT ![search.index] = TRUE]
  /\ failures' = [failures EXCEPT ![search.index] = 0]
  /\ active' = search.index
  /\ switched' = TRUE
  /\ search' = NoSearch
  /\ UNCHANGED retryIn

(* The child is dropped and the next fallback is tried.                     *)
StartFailed ==
  /\ RememberFailure(search.index)
  /\ search' = Probing(search.index + 1)
  /\ UNCHANGED <<active, switched>>

(* ssh cannot be spawned, or exits before its listener answers.             *)
TunnelFails ==
  /\ search.phase = "starting"
  /\ StartFailed

(* wait_for_ssh_tunnel gives up on a listener that never answers.           *)
TunnelTimesOut ==
  /\ search.phase = "starting"
  /\ search.waited = ReadyTimeout
  /\ StartFailed

(* No fallback is left; `active` keeps the value it had.                    *)
SearchExhausted ==
  /\ search.phase = "probe"
  /\ search.index \notin Fallbacks
  /\ search' = NoSearch
  /\ UNCHANGED <<active, tunnel, retryIn, failures, switched>>

(* The steps the code takes by itself, and those ssh takes for it.          *)
SearchCode == ProbeFallback \/ TunnelTimesOut \/ SearchExhausted
SshAnswers == TunnelReady \/ TunnelFails
SearchStep == SearchCode \/ SshAnswers

-----------------------------------------------------------------------------
(* Time passes for every deadline. Probing takes none; a tunnel is waited   *)
(* for no longer than ReadyTimeout.                                         *)
RouteTick ==
  /\ search.phase # "probe"
  /\ search.phase = "starting" => search.waited < ReadyTimeout
  /\ search' = IF search.phase = "starting"
               THEN Starting(search.index, search.waited + 1) ELSE search
  /\ retryIn' = [i \in Fallbacks |-> IF retryIn[i] > 0 THEN retryIn[i] - 1 ELSE 0]
  /\ UNCHANGED <<active, tunnel, failures, switched>>

RouteNext == SwitchRoute \/ SearchStep \/ RouteTick

(* The code's own steps are taken and time goes on; ssh owes no answer.     *)
RouteFairness == WF_routeVars(SearchCode) /\ WF_routeVars(RouteTick)

RouteSpec == RouteInit /\ [][RouteNext]_routeVars /\ RouteFairness

-----------------------------------------------------------------------------
RouteTypeOK ==
  /\ active \in 0 .. NumFallbacks
  /\ tunnel \in [Fallbacks -> BOOLEAN]
  /\ retryIn \in [Fallbacks -> 0 .. MaxSshDelay]
  /\ failures \in [Fallbacks -> 0 .. MaxSshShift]
  /\ search \in Searches
  /\ switched \in BOOLEAN

(* The fallbacks whose ssh child may be running: an established tunnel, or  *)
(* one whose SOCKS listener is being waited for.                            *)
SshChildren ==
  {i \in Fallbacks : \/ tunnel[i]
                     \/ search.phase = "starting" /\ search.index = i}

(* However routes fail and are switched, at most one ssh child exists: a    *)
(* failed tunnel is killed before the next fallback is started              *)
(* (remember_failure, Drop for SshTunnel).                                  *)
OneSshChild ==
  \A i, j \in SshChildren : i = j

(* A request is never sent through a fallback that has no tunnel or that is *)
(* cooling down, and no tunnel outlives its use as the active route: the    *)
(* fields of WaybackClientInner and of each SshFallback, kept under         *)
(* different mutexes, agree.                                                *)
RoutesAgree ==
  /\ active # Direct => tunnel[active] /\ retryIn[active] = 0
  /\ \A i \in Fallbacks : tunnel[i] => active = i

(* A switch of routes, which holds the `active` mutex throughout, always    *)
(* comes to an end, however the tunnels it starts behave.                   *)
SwitchEnds == search.phase # "none" ~> search.phase = "none"
=============================================================================
