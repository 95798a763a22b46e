---------------------------- MODULE CdxCooldown ----------------------------
(***************************************************************************)
(* CDX_COOLDOWN of src/src/cdx.rs: the process-wide state that decides when *)
(* the next CDX request may be sent. It keeps a cooldown that grows with    *)
(* consecutive failures and a spacing between requests that grows with      *)
(* HTTP 429 and shrinks after enough successes.                             *)
(*                                                                         *)
(* Each operator is one function of the code, run under the mutex. As in    *)
(* WaybackClient, a deadline is the time left until it, 0 when it is None   *)
(* or has passed.                                                           *)
(***************************************************************************)
EXTENDS RetryDelay

CONSTANTS
  MinInterval,          \* MIN_CDX_REQUEST_INTERVAL
  MaxInterval,          \* MAX_CDX_REQUEST_INTERVAL
  SuccessesBeforeSpeedup \* CDX_SUCCESSES_BEFORE_SPEEDUP

ASSUME CooldownAssumption ==
  /\ MinInterval \in Nat \ {0}
  /\ MaxInterval \in Nat
  /\ MinInterval <= MaxInterval
  /\ SuccessesBeforeSpeedup \in Nat \ {0}

VARIABLES
  allowedIn,      \* time left until next_allowed_at
  pacingIn,       \* time left until next_request_at
  throttleScore,  \* failures since the last success, up to MaxRetryShift
  resetPending,   \* reset_backoff_after_cooldown
  interval,       \* request_interval
  successes       \* successes_at_interval

cooldownVars ==
  <<allowedIn, pacingIn, throttleScore, resetPending, interval, successes>>

CooldownInit ==
  /\ allowedIn = 0
  /\ pacingIn = 0
  /\ throttleScore = 0
  /\ resetPending = FALSE
  /\ interval = MinInterval
  /\ successes = 0

\* Not the code: the next request may follow at once.
ReserveWithoutSpacing ==
  /\ allowedIn = 0
  /\ pacingIn = 0
  /\ throttleScore' = IF resetPending THEN 0 ELSE throttleScore
  /\ resetPending' = FALSE
  /\ UNCHANGED <<allowedIn, pacingIn, interval, successes>>

(* reserve_cdx_request_at when no time remains: a cooldown that is over is  *)
(* forgotten, and the request books its own spacing.                        *)
ReserveRequest ==
  /\ allowedIn = 0
  /\ pacingIn = 0
  /\ pacingIn' = interval
  /\ throttleScore' = IF resetPending THEN 0 ELSE throttleScore
  /\ resetPending' = FALSE
  /\ UNCHANGED <<allowedIn, interval, successes>>

\* Not the code: the delay the caller asks for is left out.
CooldownByScoreOnly(delay) ==
  LET wait == Backoff(throttleScore)
  IN  /\ throttleScore' = Bump(throttleScore)
      /\ successes' = 0
      /\ allowedIn' = Longest(allowedIn, wait)
      /\ resetPending' = IF wait > allowedIn THEN wait >= MaxRetryDelay ELSE resetPending
      /\ UNCHANGED <<pacingIn, interval>>

(* remember_cdx_cooldown: the longer of the caller's delay and the global   *)
(* backoff, never bringing a later deadline forward. allowedIn' is also the *)
(* time the caller sleeps.                                                  *)
RememberCooldown(delay) ==
  LET wait == Longest(delay, Backoff(throttleScore))
  IN  /\ throttleScore' = Bump(throttleScore)
      /\ successes' = 0
      /\ allowedIn' = Longest(allowedIn, wait)
      /\ resetPending' = IF wait > allowedIn THEN wait >= MaxRetryDelay ELSE resetPending
      /\ UNCHANGED <<pacingIn, interval>>

(* remember_cdx_success: backoff is reset; the spacing is halved after      *)
(* enough successes at it.                                                  *)
RememberSuccess ==
  /\ throttleScore' = 0
  /\ allowedIn' = 0
  /\ resetPending' = FALSE
  /\ IF interval > MinInterval /\ successes + 1 >= SuccessesBeforeSpeedup
     THEN interval' = Longest(interval \div 2, MinInterval) /\ successes' = 0
     ELSE /\ interval' = interval
          /\ successes' = IF interval > MinInterval THEN successes + 1 ELSE 0
  /\ UNCHANGED pacingIn

\* Not the code: the spacing grows without a bound.
RateLimitUncapped ==
  /\ successes' = 0
  /\ interval' = 2 * interval
  /\ UNCHANGED <<allowedIn, pacingIn, throttleScore, resetPending>>

\* Not the code: successes before the 429 still count.
RateLimitKeepsSuccesses ==
  /\ interval' = IF 2 * interval < MaxInterval THEN 2 * interval ELSE MaxInterval
  /\ UNCHANGED <<allowedIn, pacingIn, throttleScore, resetPending, successes>>

(* remember_cdx_rate_limit, on every 429.                                   *)
RememberRateLimit ==
  /\ successes' = 0
  /\ interval' = IF 2 * interval < MaxInterval THEN 2 * interval ELSE MaxInterval
  /\ UNCHANGED <<allowedIn, pacingIn, throttleScore, resetPending>>

CooldownTick ==
  /\ allowedIn' = Elapse(allowedIn)
  /\ pacingIn' = Elapse(pacingIn)
  /\ UNCHANGED <<throttleScore, resetPending, interval, successes>>

CooldownTypeOK ==
  /\ allowedIn \in 0 .. MaxRetryDelay
  /\ pacingIn \in 0 .. MaxInterval
  /\ throttleScore \in 0 .. MaxRetryShift
  /\ resetPending \in BOOLEAN
  /\ interval \in MinInterval .. MaxInterval
  /\ successes \in 0 .. SuccessesBeforeSpeedup - 1
=============================================================================
