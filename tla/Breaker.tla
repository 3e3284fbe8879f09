------------------------------ MODULE Breaker ------------------------------
(***************************************************************************)
(* The circuit breaker around the calls to Stripe.  A caller asks for a    *)
(* permit, calls Stripe without the breaker's mutex and reports the        *)
(* outcome later, so a report may reach the breaker in another state than  *)
(* the one that gave the permit.  Each method runs under the mutex and is  *)
(* one step.                                                               *)
(*                                                                         *)
(* The clock is abstracted to whether OpenDuration has passed since the    *)
(* breaker opened.                                                         *)
(***************************************************************************)
EXTENDS Naturals, Sequences, FiniteSets

CONSTANTS
    Callers,            \* goroutines that may call Stripe, one permit each
    FailureWindow,      \* Config.FailureWindow
    FailureThreshold,   \* Config.FailureThreshold
    HalfOpenMaxProbes   \* Config.HalfOpenMaxProbes

\* New replaces values that are not positive by its defaults.
ASSUME ConfigAssumption ==
    /\ FailureWindow \in Nat \ {0}
    /\ FailureThreshold \in Nat \ {0}
    /\ HalfOpenMaxProbes \in Nat \ {0}

VARIABLES
    state,          \* Breaker.state
    outcomes,       \* Breaker.outcomes, TRUE for a success
    elapsed,        \* OpenDuration has passed since openedAt
    probesAllowed,  \* Breaker.probesAllowed
    probesRunning,  \* Breaker.probesRunning
    permits,        \* per caller: no permit, one of this phase, or an older one
    failed          \* history: failures reported since the breaker closed, up to the threshold

breaker == <<state, outcomes, probesAllowed, probesRunning>>
vars == <<state, outcomes, elapsed, probesAllowed, probesRunning, permits, failed>>

(***************************************************************************)
(* The type invariant of the breaker: in particular at most FailureWindow  *)
(* outcomes are kept.                                                      *)
(***************************************************************************)
TypeOK ==
    /\ state \in {"closed", "open", "half_open"}
    /\ outcomes \in Seq(BOOLEAN) /\ Len(outcomes) <= FailureWindow
    /\ elapsed \in BOOLEAN
    /\ probesAllowed \in 0 .. HalfOpenMaxProbes
    /\ probesRunning \in 0 .. HalfOpenMaxProbes
    /\ permits \in [Callers -> {"none", "current", "stale"}]
    /\ failed \in 0 .. FailureThreshold

Init ==
    /\ state = "closed"
    /\ outcomes = <<>>
    /\ elapsed = FALSE
    /\ probesAllowed = 0
    /\ probesRunning = 0
    /\ permits = [c \in Callers |-> "none"]
    /\ failed = 0

-----------------------------------------------------------------------------
(* The clock.                                                              *)

Elapse ==
    /\ state = "open"
    /\ ~elapsed
    /\ elapsed' = TRUE
    /\ UNCHANGED <<breaker, permits, failed>>

-----------------------------------------------------------------------------
(* Changes of state.  The permits given before become older ones.          *)

Aged(held) == [c \in Callers |-> IF held[c] = "none" THEN "none" ELSE "stale"]

ToOpen ==
    /\ state' = "open"
    /\ outcomes' = <<>>
    /\ elapsed' = FALSE
    /\ probesAllowed' = 0
    /\ probesRunning' = 0
    /\ failed' = 0

ToClosed ==
    /\ state' = "closed"
    /\ outcomes' = <<>>
    /\ probesAllowed' = 0
    /\ probesRunning' = 0
    /\ failed' = 0
    /\ UNCHANGED elapsed

OpenIsOver == state = "open" /\ elapsed

\* State of an open breaker whose time has passed; otherwise State changes nothing.
Observe ==
    /\ OpenIsOver
    /\ state' = "half_open"
    /\ probesAllowed' = HalfOpenMaxProbes
    /\ probesRunning' = 0
    /\ permits' = Aged(permits)
    /\ UNCHANGED <<outcomes, elapsed, failed>>

-----------------------------------------------------------------------------
(* Allow.                                                                  *)

AllowClosed(c) ==
    /\ permits[c] = "none"
    /\ state = "closed"
    /\ permits' = [permits EXCEPT ![c] = "current"]
    /\ UNCHANGED <<breaker, elapsed, failed>>

\* Mutant: the probe is not counted.
AllowProbeUncounted(c) ==
    /\ permits[c] = "none"
    /\ state = "half_open"
    /\ probesRunning < probesAllowed
    /\ permits' = [permits EXCEPT ![c] = "current"]
    /\ UNCHANGED <<breaker, elapsed, failed>>

\* Otherwise ErrOpen, and nothing changes.
AllowProbe(c) ==
    /\ permits[c] = "none"
    /\ state = "half_open"
    /\ probesRunning < probesAllowed
    /\ probesRunning' = probesRunning + 1
    /\ permits' = [permits EXCEPT ![c] = "current"]
    /\ UNCHANGED <<state, outcomes, elapsed, probesAllowed, failed>>

\* Allow that ends the open state gives the first probe in the same step.
AllowFirstProbe(c) ==
    /\ permits[c] = "none"
    /\ OpenIsOver
    /\ state' = "half_open"
    /\ probesAllowed' = HalfOpenMaxProbes
    /\ probesRunning' = 1
    /\ permits' = [Aged(permits) EXCEPT ![c] = "current"]
    /\ UNCHANGED <<outcomes, elapsed, failed>>

-----------------------------------------------------------------------------
(* Permit.Success and Permit.Failure.                                      *)

\* Mutant: the oldest outcome is kept.
KeptAll(s) == s

Kept(s) == IF Len(s) > FailureWindow THEN Tail(s) ELSE s

Failures(s) == Cardinality({ i \in 1 .. Len(s) : ~s[i] })

\* Mutant: every outcome counts.
TripsOnLength(s) == Len(s) >= FailureThreshold

\* Mutant: one failure too many is tolerated.
TripsPastThreshold(s) == Failures(s) > FailureThreshold

Trips(s) == Failures(s) >= FailureThreshold

CountedFailure(success) ==
    IF success \/ failed = FailureThreshold THEN failed ELSE failed + 1

ReportClosed(c, success) ==
    LET recent == Kept(Append(outcomes, success))
    IN  /\ permits[c] # "none"
        /\ state = "closed"
        /\ ~Trips(recent)
        /\ outcomes' = recent
        /\ failed' = CountedFailure(success)
        /\ permits' = [permits EXCEPT ![c] = "none"]
        /\ UNCHANGED <<state, elapsed, probesAllowed, probesRunning>>

ReportTrips(c, success) ==
    /\ permits[c] # "none"
    /\ state = "closed"
    /\ Trips(Kept(Append(outcomes, success)))
    /\ ToOpen
    /\ permits' = Aged([permits EXCEPT ![c] = "none"])

\* Mutant: a failed probe is only uncounted.
ReportHalfOpenWaits(c, success) ==
    /\ permits[c] # "none"
    /\ state = "half_open"
    /\ IF success THEN ToClosed
       ELSE /\ probesRunning' = IF probesRunning > 0 THEN probesRunning - 1 ELSE 0
            /\ UNCHANGED <<state, outcomes, elapsed, probesAllowed, failed>>
    /\ permits' = [permits EXCEPT ![c] = "none"]

\* probesRunning is decremented first, and reset by either change of state.
ReportHalfOpen(c, success) ==
    /\ permits[c] # "none"
    /\ state = "half_open"
    /\ IF success THEN ToClosed ELSE ToOpen
    /\ permits' = Aged([permits EXCEPT ![c] = "none"])

\* Mutant: a late success closes the breaker.
ReportOpenCloses(c, success) ==
    /\ permits[c] # "none"
    /\ state = "open"
    /\ IF success THEN ToClosed ELSE UNCHANGED <<breaker, elapsed, failed>>
    /\ permits' = Aged([permits EXCEPT ![c] = "none"])

\* Nothing is recorded: the next probe decides.
ReportOpen(c, success) ==
    /\ permits[c] # "none"
    /\ state = "open"
    /\ permits' = [permits EXCEPT ![c] = "none"]
    /\ UNCHANGED <<breaker, elapsed, failed>>

-----------------------------------------------------------------------------

Report(c) ==
    \E success \in BOOLEAN :
        \/ ReportClosed(c, success)
        \/ ReportTrips(c, success)
        \/ ReportHalfOpen(c, success)
        \/ ReportOpen(c, success)

Next ==
    \/ Elapse
    \/ Observe
    \/ \E c \in Callers :
          \/ AllowClosed(c)
          \/ AllowProbe(c)
          \/ AllowFirstProbe(c)
          \/ Report(c)

Spec == Init /\ [][Next]_vars

(***************************************************************************)
(* Every permit is reported: each method of stripeclient that got one ends *)
(* in Success or Failure on every path that returns.  Nothing is assumed   *)
(* of the callers that ask for permits.                                    *)
(***************************************************************************)
Fairness == \A c \in Callers : WF_vars(Report(c))

FairSpec == Spec /\ Fairness

-----------------------------------------------------------------------------
(* Properties.                                                             *)

Table == INSTANCE BreakerTable

(***************************************************************************)
(* The breaker moves only along the edges of the table, whatever permits   *)
(* are reported late and in whatever order.                                *)
(***************************************************************************)
FollowsTable == Table!Spec

(***************************************************************************)
(* A closed breaker has fewer failures than the threshold among the        *)
(* outcomes it remembers: the failure that reaches it opens the breaker.   *)
(***************************************************************************)
ClosedIsBelowThreshold == state = "closed" => Failures(outcomes) < FailureThreshold

(***************************************************************************)
(* The breaker opens from closed only for failures that were reported      *)
(* since it last closed: those of an earlier outage do not count.          *)
(***************************************************************************)
OpensForNewFailures ==
    [][state = "closed" /\ state' = "open" => failed >= FailureThreshold - 1]_vars

(***************************************************************************)
(* While the breaker is half open, probesRunning is the number of calls it *)
(* let through in this phase, and there are never more than                *)
(* HalfOpenMaxProbes, however many late reports of older permits arrive.   *)
(***************************************************************************)
ProbesAreCounted ==
    state = "half_open" =>
        /\ probesRunning = Cardinality({ c \in Callers : permits[c] = "current" })
        /\ probesRunning <= HalfOpenMaxProbes

(***************************************************************************)
(* A trial ends: once a probe is running, the breaker leaves the half open *)
(* state.                                                                  *)
(***************************************************************************)
TrialEnds == state = "half_open" /\ probesRunning > 0 ~> state # "half_open"

(***************************************************************************)
(* Only a probe decides a trial: the breaker leaves half open when a call  *)
(* it let through in this phase is reported (ProbeSucceeded and            *)
(* ProbeFailed of section 2.2 of docs/03-basic-design.md).                 *)
(***************************************************************************)
OnlyProbesDecide ==
    [][state = "half_open" /\ state' # "half_open" =>
          \E c \in Callers : permits[c] = "current" /\ permits'[c] = "none"]_vars

=============================================================================
