---------------------------- MODULE BreakerProofs ----------------------------
(***************************************************************************)
(* Theorems about Breaker, for any set of callers and any configuration.   *)
(***************************************************************************)
EXTENDS Breaker, FunctionTheorems, FiniteSetTheorems, TLAPS

Current == { c \in Callers : permits[c] = "current" }

\* Allow gives a permit in half open only while probes are allowed.
ProbesInv ==
    state = "half_open" =>
        /\ IsFiniteSet(Current)
        /\ probesRunning = Cardinality(Current)
        /\ probesAllowed = HalfOpenMaxProbes

\* Every failure that is remembered was reported since the breaker closed.
FailuresInv ==
    state = "closed" =>
        /\ Failures(outcomes) < FailureThreshold
        /\ Failures(outcomes) <= failed

Inv == TypeOK /\ ProbesInv /\ FailuresInv

-----------------------------------------------------------------------------
(* The outcomes and their failures.                                        *)

FailedAt(s) == { i \in 1 .. Len(s) : ~s[i] }

LEMMA FailuresType ==
    ASSUME NEW s \in Seq(BOOLEAN)
    PROVE  IsFiniteSet(FailedAt(s)) /\ Failures(s) \in Nat
<1>1. IsFiniteSet(1 .. Len(s))
    BY FS_Interval
<1>2. FailedAt(s) \in SUBSET (1 .. Len(s))
    BY DEF FailedAt
<1>3. IsFiniteSet(FailedAt(s))
    BY <1>1, <1>2, FS_Subset
<1>. QED
    BY <1>3, FS_CardinalityType DEF Failures, FailedAt

\* An empty window is well typed.
LEMMA EmptyWindow ==
    ASSUME NEW s, s = <<>>
    PROVE  s \in Seq(BOOLEAN) /\ Len(s) <= FailureWindow
BY ConfigAssumption

LEMMA FailuresEmpty == Failures(<<>>) = 0
<1>1. FailedAt(<<>>) = {}
    BY DEF FailedAt
<1>. QED
    BY <1>1, FS_EmptySet DEF Failures, FailedAt

\* A success leaves the number of failures, a failure adds one.
LEMMA FailuresAppend ==
    ASSUME NEW s \in Seq(BOOLEAN), NEW success \in BOOLEAN
    PROVE  Failures(Append(s, success)) = IF success THEN Failures(s) ELSE Failures(s) + 1
<1>. DEFINE g == Append(s, success)
            n == Len(s) + 1
<1>1. /\ Len(g) = n
      /\ n \in Nat
      /\ \A i \in 1 .. Len(s) : g[i] = s[i]
      /\ g[n] = success
    OBVIOUS
<1>2. 1 .. Len(g) = (1 .. Len(s)) \cup {n}
    BY <1>1
<1>3. n \notin FailedAt(s)
    BY DEF FailedAt
<1>. HIDE DEF g, n
<1>4. FailedAt(g) = IF success THEN FailedAt(s) ELSE FailedAt(s) \cup {n}
    BY <1>1, <1>2 DEF FailedAt
<1>5. IsFiniteSet(FailedAt(s))
    BY FailuresType
<1>6. Cardinality(FailedAt(s) \cup {n}) = Cardinality(FailedAt(s)) + 1
    BY <1>3, <1>5, FS_AddElement
<1>7. Cardinality(FailedAt(g)) = IF success THEN Cardinality(FailedAt(s))
                                           ELSE Cardinality(FailedAt(s)) + 1
    BY <1>4, <1>6
<1>. QED
    BY <1>7 DEF Failures, FailedAt, g

\* Dropping the oldest outcome adds no failure.
LEMMA FailuresTail ==
    ASSUME NEW s \in Seq(BOOLEAN), s # <<>>
    PROVE  Failures(Tail(s)) <= Failures(s)
<1>. DEFINE t == Tail(s)
            shift == [i \in FailedAt(t) |-> i + 1]
<1>1. /\ Len(t) = Len(s) - 1
      /\ Len(s) \in Nat
      /\ \A i \in 1 .. Len(t) : t[i] = s[i + 1]
    OBVIOUS
<1>. HIDE DEF t
<1>2. \A i \in FailedAt(t) : i \in Nat /\ i + 1 \in FailedAt(s)
    BY <1>1 DEF FailedAt
<1>3. shift \in Injection(FailedAt(t), FailedAt(s))
    BY <1>2, Fun_IsInj
<1>4. IsFiniteSet(FailedAt(s))
    BY FailuresType
<1>5. Cardinality(FailedAt(t)) <= Cardinality(FailedAt(s))
    BY <1>3, <1>4, FS_Injection
<1>. QED
    BY <1>5 DEF Failures, FailedAt, t

\* The window after one more outcome.
LEMMA KeptType ==
    ASSUME NEW s \in Seq(BOOLEAN), Len(s) <= FailureWindow, NEW success \in BOOLEAN
    PROVE  LET recent == Kept(Append(s, success))
           IN  /\ recent \in Seq(BOOLEAN)
               /\ Len(recent) <= FailureWindow
               /\ Failures(recent) <= IF success THEN Failures(s) ELSE Failures(s) + 1
<1>. DEFINE g == Append(s, success)
<1>1. /\ Len(s) \in Nat
      /\ g \in Seq(BOOLEAN)
      /\ Len(g) = Len(s) + 1
    OBVIOUS
<1>2. g # <<>>
    OBVIOUS
<1>3. Tail(g) \in Seq(BOOLEAN)
    BY <1>1, <1>2
<1>4. Failures(g) = IF success THEN Failures(s) ELSE Failures(s) + 1
    BY FailuresAppend
<1>5. Failures(s) \in Nat /\ Failures(g) \in Nat /\ Failures(Tail(g)) \in Nat
    BY <1>1, <1>3, FailuresType
<1>6. Failures(Tail(g)) <= Failures(g)
    BY <1>1, <1>2, FailuresTail
<1>7. Tail(g) \in Seq(BOOLEAN) /\ Len(Tail(g)) = Len(s)
    BY <1>1, <1>2, <1>3
<1>8. FailureWindow \in Nat \ {0}
    BY ConfigAssumption
<1>. HIDE DEF g
<1>9. CASE Len(g) > FailureWindow
    BY <1>4, <1>5, <1>6, <1>7, <1>9 DEF Kept, g
<1>10. CASE ~(Len(g) > FailureWindow)
    BY <1>1, <1>4, <1>5, <1>8, <1>10 DEF Kept, g
<1>. QED
    BY <1>9, <1>10

-----------------------------------------------------------------------------
(* The inductive invariant.                                                *)

LEMMA InitInv == Init => Inv
<1>. SUFFICES ASSUME Init PROVE Inv
    OBVIOUS
<1>1. outcomes \in Seq(BOOLEAN) /\ Len(outcomes) <= FailureWindow
    BY EmptyWindow DEF Init
<1>2. 0 \in 0 .. HalfOpenMaxProbes /\ 0 \in 0 .. FailureThreshold
    BY ConfigAssumption
<1>3. TypeOK
    BY <1>1, <1>2 DEF Init, TypeOK
<1>4. Failures(outcomes) = 0
    BY FailuresEmpty DEF Init
<1>. QED
    BY <1>4, <1>3, ConfigAssumption DEF Init, Inv, ProbesInv, FailuresInv

\* What the changes of state establish.
LEMMA ToOpenInv ==
    ASSUME ToOpen, permits' \in [Callers -> {"none", "current", "stale"}]
    PROVE  Inv'
<1>1. outcomes' \in Seq(BOOLEAN) /\ Len(outcomes') <= FailureWindow
    BY EmptyWindow DEF ToOpen
<1>2. 0 \in 0 .. HalfOpenMaxProbes /\ 0 \in 0 .. FailureThreshold
    BY ConfigAssumption
<1>3. TypeOK'
    BY <1>1, <1>2 DEF ToOpen, TypeOK
<1>. QED
    BY <1>3 DEF ToOpen, Inv, ProbesInv, FailuresInv

LEMMA ToClosedInv ==
    ASSUME TypeOK, ToClosed, permits' \in [Callers -> {"none", "current", "stale"}]
    PROVE  Inv'
<1>1. Failures(outcomes') = 0
    BY FailuresEmpty DEF ToClosed
<1>2. TypeOK'
    BY ConfigAssumption DEF ToClosed, TypeOK
<1>. QED
    BY <1>1, <1>2, ConfigAssumption DEF ToClosed, Inv, ProbesInv, FailuresInv

LEMMA AgedType ==
    ASSUME NEW held \in [Callers -> {"none", "current", "stale"}]
    PROVE  /\ Aged(held) \in [Callers -> {"none", "current", "stale"}]
           /\ \A c \in Callers : Aged(held)[c] # "current"
BY DEF Aged

\* The step of one action preserves the invariant.
LEMMA NextInv == Inv /\ [Next]_vars => Inv'
<1>. SUFFICES ASSUME Inv, [Next]_vars PROVE Inv'
    OBVIOUS
<1>. USE ConfigAssumption
<1>1. CASE UNCHANGED vars
    BY <1>1 DEF Inv, TypeOK, ProbesInv, FailuresInv, Current, vars
<1>2. CASE Elapse
    BY <1>2 DEF Elapse, breaker, Inv, TypeOK, ProbesInv, FailuresInv
<1>3. CASE Observe
  <2>1. TypeOK'
    BY <1>3, AgedType DEF Observe, Inv, TypeOK
  <2>2. Current' = {}
    BY <1>3, AgedType DEF Observe, Inv, TypeOK, Current
  <2>. QED
    BY <1>3, <2>1, <2>2, FS_EmptySet DEF Observe, Inv, ProbesInv, FailuresInv
<1>4. ASSUME NEW c \in Callers, AllowClosed(c)
      PROVE  Inv'
    BY <1>4 DEF AllowClosed, breaker, Inv, TypeOK, ProbesInv, FailuresInv
<1>5. ASSUME NEW c \in Callers, AllowProbe(c)
      PROVE  Inv'
  <2>1. /\ state' = "half_open" /\ IsFiniteSet(Current)
        /\ probesRunning = Cardinality(Current)
        /\ probesRunning' = probesRunning + 1
        /\ probesAllowed' = HalfOpenMaxProbes
        /\ probesRunning < HalfOpenMaxProbes
    BY <1>5 DEF AllowProbe, Inv, ProbesInv
  <2>2. TypeOK'
    BY <1>5, <2>1 DEF AllowProbe, Inv, TypeOK
  <2>3. Current' = Current \cup {c} /\ c \notin Current
    BY <1>5 DEF AllowProbe, Inv, TypeOK, Current
  <2>4. IsFiniteSet(Current') /\ Cardinality(Current') = Cardinality(Current) + 1
    BY <2>1, <2>3, FS_AddElement
  <2>. QED
    BY <2>1, <2>2, <2>4 DEF Inv, ProbesInv, FailuresInv
<1>6. ASSUME NEW c \in Callers, AllowFirstProbe(c)
      PROVE  Inv'
  <2>1. TypeOK'
    BY <1>6, AgedType DEF AllowFirstProbe, Inv, TypeOK
  <2>2. Current' = {c}
    BY <1>6, AgedType DEF AllowFirstProbe, Inv, TypeOK, Current
  <2>3. IsFiniteSet(Current') /\ Cardinality(Current') = 1
    BY <2>2, FS_Singleton
  <2>. QED
    BY <1>6, <2>1, <2>3 DEF AllowFirstProbe, Inv, ProbesInv, FailuresInv
<1>7. ASSUME NEW c \in Callers, NEW success \in BOOLEAN, ReportClosed(c, success)
      PROVE  Inv'
  <2>. DEFINE recent == Kept(Append(outcomes, success))
  <2>1. outcomes \in Seq(BOOLEAN) /\ Len(outcomes) <= FailureWindow /\ failed \in 0 .. FailureThreshold
    BY DEF Inv, TypeOK
  <2>2. /\ recent \in Seq(BOOLEAN)
        /\ Len(recent) <= FailureWindow
        /\ Failures(recent) <= IF success THEN Failures(outcomes) ELSE Failures(outcomes) + 1
    BY <2>1, KeptType
  <2>3. Failures(recent) \in Nat /\ Failures(outcomes) \in Nat
    BY <2>1, <2>2, FailuresType
  <2>. HIDE DEF recent
  <2>4. /\ state = "closed" /\ state' = "closed"
        /\ ~(Failures(recent) >= FailureThreshold)
        /\ outcomes' = recent
        /\ failed' = IF success \/ failed = FailureThreshold THEN failed ELSE failed + 1
    BY <1>7 DEF ReportClosed, CountedFailure, Trips, recent
  <2>5. TypeOK'
    BY <1>7, <2>1, <2>2, <2>4 DEF ReportClosed, Inv, TypeOK
  <2>6. Failures(outcomes) <= failed
    BY <2>4 DEF Inv, FailuresInv
  <2>7. FailuresInv'
    BY <2>1, <2>2, <2>3, <2>4, <2>6 DEF FailuresInv
  <2>. QED
    BY <2>4, <2>5, <2>7 DEF Inv, ProbesInv
<1>8. ASSUME NEW c \in Callers, NEW success \in BOOLEAN, ReportTrips(c, success)
      PROVE  Inv'
    BY <1>8, AgedType, ToOpenInv DEF ReportTrips, Inv, TypeOK
<1>9. ASSUME NEW c \in Callers, NEW success \in BOOLEAN, ReportHalfOpen(c, success)
      PROVE  Inv'
  <2>1. permits' \in [Callers -> {"none", "current", "stale"}]
    BY <1>9, AgedType DEF ReportHalfOpen, Inv, TypeOK
  <2>. QED
    BY <1>9, <2>1, ToOpenInv, ToClosedInv DEF ReportHalfOpen, Inv
<1>10. ASSUME NEW c \in Callers, NEW success \in BOOLEAN, ReportOpen(c, success)
       PROVE  Inv'
    BY <1>10 DEF ReportOpen, breaker, Inv, TypeOK, ProbesInv, FailuresInv
<1>. QED
    BY <1>1, <1>2, <1>3, <1>4, <1>5, <1>6, <1>7, <1>8, <1>9, <1>10 DEF Next, Report

(***************************************************************************)
(* The inductive invariant holds in every reachable state.                 *)
(***************************************************************************)
THEOREM Invariance == Spec => []Inv
BY InitInv, NextInv, PTL DEF Spec

(***************************************************************************)
(* The breaker's fields keep their types and at most FailureWindow         *)
(* outcomes, in every configuration.                                       *)
(***************************************************************************)
THEOREM TypeCorrect == Spec => []TypeOK
<1>1. Inv => TypeOK
    BY DEF Inv
<1>. QED
    BY <1>1, Invariance, PTL

(***************************************************************************)
(* A closed breaker remembers fewer failures than the threshold.           *)
(***************************************************************************)
THEOREM ClosedCorrect == Spec => []ClosedIsBelowThreshold
<1>1. Inv => ClosedIsBelowThreshold
    BY DEF Inv, FailuresInv, ClosedIsBelowThreshold
<1>. QED
    BY <1>1, Invariance, PTL

(***************************************************************************)
(* In half open, probesRunning counts the calls that were let through, and *)
(* they are never more than HalfOpenMaxProbes, for any number of callers   *)
(* and however late the permits of earlier phases are reported.            *)
(***************************************************************************)
THEOREM ProbesCorrect == Spec => []ProbesAreCounted
<1>1. Inv => ProbesAreCounted
    BY ConfigAssumption DEF Inv, TypeOK, ProbesInv, ProbesAreCounted, Current
<1>. QED
    BY <1>1, Invariance, PTL

(***************************************************************************)
(* The breaker opens from closed only for failures reported since it last  *)
(* closed.                                                                 *)
(***************************************************************************)
THEOREM OpensCorrect == Spec => OpensForNewFailures
<1>1. Inv /\ [Next]_vars => [state = "closed" /\ state' = "open" => failed >= FailureThreshold - 1]_vars
  <2>. SUFFICES ASSUME Inv, Next, state = "closed", state' = "open"
                PROVE  failed >= FailureThreshold - 1
    OBVIOUS
  <2>1. PICK c \in Callers, success \in BOOLEAN : ReportTrips(c, success)
    BY DEF Next, Report, Elapse, Observe, AllowClosed, AllowProbe, AllowFirstProbe,
           ReportClosed, ReportHalfOpen, ReportOpen, OpenIsOver, breaker
  <2>. DEFINE recent == Kept(Append(outcomes, success))
  <2>2. outcomes \in Seq(BOOLEAN) /\ Len(outcomes) <= FailureWindow /\ failed \in 0 .. FailureThreshold
    BY DEF Inv, TypeOK
  <2>3. /\ recent \in Seq(BOOLEAN)
        /\ Failures(recent) <= IF success THEN Failures(outcomes) ELSE Failures(outcomes) + 1
    BY <2>2, KeptType
  <2>4. Failures(recent) \in Nat /\ Failures(outcomes) \in Nat
    BY <2>2, <2>3, FailuresType
  <2>5. Failures(recent) >= FailureThreshold
    BY <2>1 DEF ReportTrips, Trips
  <2>6. Failures(outcomes) <= failed
    BY DEF Inv, FailuresInv
  <2>. HIDE DEF recent
  <2>. QED
    BY <2>2, <2>3, <2>4, <2>5, <2>6, ConfigAssumption
<1>. QED
    BY <1>1, Invariance, PTL DEF Spec, OpensForNewFailures

(***************************************************************************)
(* The breaker implements its table of states: every step follows an edge  *)
(* of the table or leaves the state alone.                                 *)
(***************************************************************************)
THEOREM TableCorrect == Spec => FollowsTable
<1>1. Init => state = "closed"
    BY DEF Init
<1>2. [Next]_vars => [Table!Next]_state
  <2>. USE DEF Table!Next, Table!FailureThresholdReached, Table!OpenTimerExpired,
               Table!ProbeSucceeded, Table!ProbeFailed
  <2>1. CASE UNCHANGED vars
    BY <2>1 DEF vars
  <2>2. CASE Elapse
    BY <2>2 DEF Elapse, breaker
  <2>3. CASE Observe
    BY <2>3 DEF Observe, OpenIsOver
  <2>4. ASSUME NEW c \in Callers, AllowClosed(c) \/ AllowProbe(c) \/ AllowFirstProbe(c)
        PROVE  [Table!Next]_state
    BY <2>4 DEF AllowClosed, AllowProbe, AllowFirstProbe, OpenIsOver, breaker
  <2>5. ASSUME NEW c \in Callers, Report(c)
        PROVE  [Table!Next]_state
    BY <2>5 DEF Report, ReportClosed, ReportTrips, ReportHalfOpen, ReportOpen,
                ToOpen, ToClosed, breaker
  <2>. QED
    BY <2>1, <2>2, <2>3, <2>4, <2>5 DEF Next
<1>. QED
    BY <1>1, <1>2, PTL DEF Spec, FollowsTable, Table!Spec

=============================================================================
