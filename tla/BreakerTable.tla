---------------------------- MODULE BreakerTable ----------------------------
(* The changes of state the breaker's transition functions make, one       *)
(* action per edge; section 2.2 of docs/03-basic-design.md draws the same. *)

VARIABLE state

States == {"closed", "open", "half_open"}

FailureThresholdReached == state = "closed" /\ state' = "open"

OpenTimerExpired == state = "open" /\ state' = "half_open"

ProbeSucceeded == state = "half_open" /\ state' = "closed"

ProbeFailed == state = "half_open" /\ state' = "open"

Next == FailureThresholdReached \/ OpenTimerExpired \/ ProbeSucceeded \/ ProbeFailed

Spec == state = "closed" /\ [][Next]_state

=============================================================================
