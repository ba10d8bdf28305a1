----------------------------- MODULE Lifecycle -----------------------------
(***************************************************************************)
(* The restart policy of crates/observer-lifecycle: exponential backoff     *)
(* with a circuit breaker.  The state of one Lifecycle is its count of      *)
(* consecutive failures; the breaker is open exactly when the count has     *)
(* reached the threshold, because on_failure opens it there and on_success  *)
(* resets both.  The count is kept at most Threshold: past it the code only *)
(* ever answers GiveUp.                                                     *)
(***************************************************************************)
EXTENDS Integers

CONSTANTS
  Threshold,     \* breaker_threshold
  InitialDelay,  \* initial, in seconds
  MaxDelay,      \* max, in seconds
  Multiplier     \* multiplier

ASSUME LifecycleAssumption ==
  /\ Threshold \in Nat \ {0}
  /\ InitialDelay \in Nat
  /\ MaxDelay \in Nat
  /\ Multiplier \in Nat \ {0}
  /\ \A n \in 0..Threshold : Multiplier^n \in Nat

FailureCounts == 0..Threshold

OnSuccess == 0

(* Mutation: failures past the threshold keep counting.                     *)
OnFailureUncapped(n) == n + 1

OnFailure(n) == IF n < Threshold THEN n + 1 ELSE Threshold

BreakerOpen(n) == n >= Threshold

(* The delay before retry after the n-th failure in a row, n >= 1.          *)
CurrentBackoff(n) ==
  LET scaled == InitialDelay * Multiplier^(n - 1)
  IN  IF scaled > MaxDelay THEN MaxDelay ELSE scaled
=============================================================================
