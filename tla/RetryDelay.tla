----------------------------- MODULE RetryDelay -----------------------------
(***************************************************************************)
(* The delay before a retry, the same function in src/src/cdx.rs            *)
(* (retry_after_delay) and src/src/downloader.rs                            *)
(* (snapshot_retry_after_delay), in the time unit of the instance.          *)
(***************************************************************************)
EXTENDS Integers

CONSTANTS
  RetryBase,      \* first delay of the exponential backoff
  MaxRetryDelay,  \* MAX_WAYBACK_RETRY_DELAY_SECONDS
  MaxRetryShift,  \* attempt above which the delay stays the same
  RetryAfters     \* values a Retry-After header may carry

ASSUME RetryAssumption ==
  /\ RetryBase \in Nat \ {0}
  /\ MaxRetryDelay \in Nat \ {0}
  /\ MaxRetryShift \in Nat
  /\ RetryAfters \subseteq Nat

(* A counter of failures stops where the delay stops depending on it.       *)
Bump(count) == IF count < MaxRetryShift THEN count + 1 ELSE MaxRetryShift

Backoff(attempt) ==
  LET delay == RetryBase * 2 ^ attempt
  IN  IF delay \in 1 .. MaxRetryDelay THEN delay ELSE MaxRetryDelay

\* Not the code: the header's delay without its bounds.
RetryAfterAsGiven(seconds) == seconds

RetryAfter(seconds) ==
  IF seconds < 1 THEN 1 ELSE IF seconds > MaxRetryDelay THEN MaxRetryDelay ELSE seconds

(* The delays a failed attempt may be followed by, a header or none.        *)
StatusDelays(attempt) == {Backoff(attempt)} \cup {RetryAfter(s) : s \in RetryAfters}

Longest(a, b) == IF a > b THEN a ELSE b

Elapse(left) == IF left > 0 THEN left - 1 ELSE 0
=============================================================================
