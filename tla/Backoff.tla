------------------------------- MODULE Backoff -------------------------------
(***************************************************************************)
(* The wait before a retry, in milliseconds, computed with the arithmetic  *)
(* of the machine: u64 in the code, WordBits wide here.  A build with      *)
(* overflow checks (the debug profile) panics where the arithmetic does    *)
(* not fit; one without (the release profile) wraps around.                *)
(***************************************************************************)
EXTENDS LlmErrors

CONSTANTS
  RetryDelay,           \* ProviderConfig::retry_delay
  RateLimitRetryDelay,  \* ProviderConfig::rate_limit_retry_delay
  WordBits              \* width of the integers the wait is computed with

ASSUME BackoffAssumption ==
  /\ WordBits \in Nat \ {0}
  /\ RetryDelay \in Nat
  /\ RateLimitRetryDelay \in Nat

BackoffCap == 30000     \* calculate_backoff
RateLimitCap == 60000   \* calculate_rate_limit_backoff
MaxJitter == 99         \* rand::random::<u64>() % 100

Wrap(n) == n % 2^WordBits
Shorter(a, b) == IF a <= b THEN a ELSE b
Exponent(attempt) == IF attempt = 0 THEN 0 ELSE attempt - 1

(* base * 2^(attempt-1) in exact arithmetic, and in the machine's.         *)
Exponential(base, attempt) == base * 2^Exponent(attempt)
WrappedExponential(base, attempt) == Wrap(base * Wrap(2^Exponent(attempt)))

(* Mutant of BackoffWith: the cap is forgotten.                            *)
BackoffUncapped(base, cap, attempt, jitter) ==
  Wrap(WrappedExponential(base, attempt) + jitter)

BackoffWith(base, cap, attempt, jitter) ==
  Shorter(Wrap(WrappedExponential(base, attempt) + jitter), cap)

(* Some step of the computation leaves the word: the debug build panics.   *)
Overflows(base, attempt, jitter) ==
  \/ 2^Exponent(attempt) >= 2^WordBits
  \/ Exponential(base, attempt) + jitter >= 2^WordBits

(* Mutant of RateLimited: a 429 gets the short schedule.                   *)
NeverRateLimited(lastErr) == FALSE

(* A 429 gets the patient schedule, every other failure the regular one.   *)
RateLimited(lastErr) == StatusOf(lastErr) = 429
BaseFor(lastErr) == IF RateLimited(lastErr) THEN RateLimitRetryDelay ELSE RetryDelay
CapFor(lastErr) == IF RateLimited(lastErr) THEN RateLimitCap ELSE BackoffCap

BackoffForLastFailure(attempt, lastErr, jitter) ==
  BackoffWith(BaseFor(lastErr), CapFor(lastErr), attempt, jitter)

==============================================================================
