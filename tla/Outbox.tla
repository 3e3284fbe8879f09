------------------------------- MODULE Outbox -------------------------------
(***************************************************************************)
(* What the outbox promises for a recorded event: its effects are applied  *)
(* exactly when it is done, at most once, and an event that is refused is  *)
(* tried MaxRetries times before it is given up.  Any number of events may *)
(* move on in one step.  Settlement uses this promise one event at a time. *)
(***************************************************************************)
EXTENDS Naturals

CONSTANTS Events, MaxRetries

VARIABLES
    status,     \* outbox_events.status, "absent" before the event is recorded
    retries,    \* outbox_events.retry_count
    effects     \* how often the effects of an event were committed

Init ==
    /\ status = [e \in Events |-> "absent"]
    /\ retries = [e \in Events |-> 0]
    /\ effects = [e \in Events |-> 0]

Kept(e) ==
    /\ status'[e] = status[e]
    /\ retries'[e] = retries[e]
    /\ effects'[e] = effects[e]

Recorded(e) ==
    /\ status[e] = "absent" /\ status'[e] = "pending"
    /\ retries'[e] = retries[e] /\ effects'[e] = effects[e]

Done(e) ==
    /\ status[e] = "pending" /\ status'[e] = "done"
    /\ retries'[e] = retries[e]
    /\ effects'[e] = effects[e] + 1

Refused(e) ==
    /\ status[e] = "pending"
    /\ retries'[e] = retries[e] + 1
    /\ status'[e] = IF retries'[e] = MaxRetries THEN "failed" ELSE "pending"
    /\ effects'[e] = effects[e]

Next == \A e \in Events : Kept(e) \/ Recorded(e) \/ Done(e) \/ Refused(e)

Spec == Init /\ [][Next]_<<status, retries, effects>>

=============================================================================
