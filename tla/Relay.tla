------------------------------- MODULE Relay -------------------------------
(***************************************************************************)
(* The outbox relay.  A worker (one Relay.Loop per process) takes a batch  *)
(* of due events in one transaction, handles them one after the other and  *)
(* commits once.  An error the handler returns of itself is scheduled for  *)
(* another attempt; an error of a SQL statement leaves the transaction     *)
(* aborted, so that every later statement and the commit fail and the      *)
(* whole batch is rolled back.                                             *)
(*                                                                         *)
(* What the handler does is left to Settlement: here it locks the row of   *)
(* the event's payment, waits if another transaction has it, and accepts   *)
(* or refuses the event.  Housekeeping locks the rows it expires in an     *)
(* order of its own, so that transactions may wait for each other in a     *)
(* circle; PostgreSQL then aborts one of them.                             *)
(*                                                                         *)
(* Time is counted in minutes that remain until next_attempt_at.           *)
(***************************************************************************)
EXTENDS Naturals, Sequences, FiniteSets, SequencesExt

CONSTANTS
    Events,         \* the events that may be recorded, numbered from 1
    Payments,       \* the payments they are about
    PaymentOf,      \* the payment of an event
    Workers,        \* the processes that run Relay.Loop
    None,           \* no payment
    Batch,          \* Relay.Batch, already clamped to 1 .. 1000
    MaxRetries,     \* Relay.MaxRetries
    Backoff,        \* Relay.Backoff, in minutes
    MaxFaults       \* bound: SQL errors and crashes in one behaviour

ASSUME ConstantsAssumption ==
    /\ Events = 1 .. Cardinality(Events)
    /\ Batch \in 1 .. 1000
    /\ MaxRetries \in Nat \ {0}
    /\ Backoff \in [1 .. MaxRetries -> Nat]
    /\ MaxFaults \in Nat
    /\ PaymentOf \in [Events -> Payments]
    /\ None \notin Payments

VARIABLES
    rows,       \* committed outbox_events rows
    earlier,    \* pairs of pending rows whose next_attempt_at is in this order
    effects,    \* per event: how often its effects were committed
    workers,    \* the transaction each worker has open
    sweep,      \* the UPDATE housekeeping has under way
    faults      \* faults so far

vars == <<rows, earlier, effects, workers, sweep, faults>>

-----------------------------------------------------------------------------

\* What New configures.
DefaultBackoff == [retryCount \in 1 .. MaxRetries |-> 2 ^ (retryCount - 1)]

\* wait is 0 once next_attempt_at has passed.
Rows == [status : {"absent", "pending", "done", "failed"},
         retries : 0 .. MaxRetries,
         wait : Nat]

\* batch is what was fetched, verdicts what handleOne made of its first events.
Transactions == [batch : Seq(Events),
                 verdicts : Seq({"done", "refused"}),
                 aborted : BOOLEAN]

NoTransaction == [batch |-> <<>>, verdicts |-> <<>>, aborted |-> FALSE]

\* Bound: the UPDATE runs once; what it leaves, the next run of housekeeping finds.
Sweeps == [locked : SUBSET Payments, wanted : Payments \cup {None}, over : BOOLEAN]

NoSweep == [locked |-> {}, wanted |-> None, over |-> FALSE]

SweepOver == [NoSweep EXCEPT !.over = TRUE]

PendingIn(table) == { e \in Events : table[e].status = "pending" }

Pending == PendingIn(rows)

\* next_attempt_at orders the pending rows, no two of them alike.
Orders(order, table) ==
    /\ order \subseteq PendingIn(table) \X PendingIn(table)
    /\ \A d, e \in PendingIn(table) :
          /\ d # e => (<<d, e>> \in order <=> <<e, d>> \notin order)
          /\ <<d, e>> \in order => d # e /\ table[d].wait <= table[e].wait
          /\ \A f \in PendingIn(table) :
                <<d, e>> \in order /\ <<e, f>> \in order => <<d, f>> \in order

(***************************************************************************)
(* The type invariant of the relay: rows, their order, batches and locks.  *)
(***************************************************************************)
TypeOK ==
    /\ rows \in [Events -> Rows]
    /\ Orders(earlier, rows)
    /\ effects \in [Events -> Nat]
    /\ workers \in [Workers -> Transactions]
    /\ \A w \in Workers : Len(workers[w].verdicts) <= Len(workers[w].batch)
    /\ sweep \in Sweeps
    /\ faults \in 0 .. MaxFaults

Init ==
    /\ rows = [e \in Events |-> [status |-> "absent", retries |-> 0, wait |-> 0]]
    /\ earlier = {}
    /\ effects = [e \in Events |-> 0]
    /\ workers = [w \in Workers |-> NoTransaction]
    /\ sweep = NoSweep
    /\ faults = 0

-----------------------------------------------------------------------------

\* next_attempt_at of d is before that of e, once the rows of moved got theirs.
Before(d, e, table, moved) ==
    \/ table[d].wait < table[e].wait
    \/ /\ table[d].wait = table[e].wait
       /\ IF d \in moved <=> e \in moved THEN <<d, e>> \in earlier ELSE e \in moved

Reordered(table, moved) ==
    { pair \in PendingIn(table) \X PendingIn(table) : Before(pair[1], pair[2], table, moved) }

\* EnqueueOutboxEvent: the next number, due at once.
Enqueue(e) ==
    LET table == [rows EXCEPT ![e].status = "pending"]
    IN  /\ rows[e].status = "absent"
        /\ \A d \in 1 .. (e - 1) : rows[d].status # "absent"
        /\ rows' = table
        /\ earlier' = Reordered(table, {e})
        /\ UNCHANGED <<effects, workers, sweep, faults>>

\* A minute passes.
Tick ==
    /\ \E e \in Events : rows[e].wait > 0
    /\ rows' = [e \in Events |-> [rows[e] EXCEPT !.wait = IF @ > 0 THEN @ - 1 ELSE 0]]
    /\ UNCHANGED <<earlier, effects, workers, sweep, faults>>

-----------------------------------------------------------------------------
(* RunOnce.                                                                *)

Locked == UNION { ToSet(workers[w].batch) : w \in Workers }

Due == { e \in Pending : rows[e].wait = 0 }

\* A batch is up to Batch of the rows given, the earliest ones.
FetchFrom(w, due) ==
    \E n \in 1 .. Batch : \E batch \in [1 .. n -> due] :
        /\ workers[w].batch = <<>>
        /\ \A i, j \in 1 .. n : i < j => <<batch[i], batch[j]>> \in earlier
        /\ \A e \in due \ ToSet(batch) : n = Batch /\ <<batch[n], e>> \in earlier
        /\ workers' = [workers EXCEPT ![w].batch = batch]
        /\ UNCHANGED <<rows, earlier, effects, sweep, faults>>

\* Mutant: the rows are not locked.
FetchUnlocked(w) == FetchFrom(w, Due)

\* FetchPendingOutbox with FOR UPDATE SKIP LOCKED.
Fetch(w) == FetchFrom(w, Due \ Locked)

Handling(w) == Len(workers[w].verdicts) < Len(workers[w].batch)

Current(w) == workers[w].batch[Len(workers[w].verdicts) + 1]

\* The payment rows a transaction holds until it ends or is aborted.
HeldBy(w) ==
    IF workers[w].aborted THEN {}
    ELSE { PaymentOf[workers[w].batch[i]] : i \in 1 .. Len(workers[w].verdicts) }

Free(p, w) == p \notin sweep.locked /\ \A v \in Workers \ {w} : p \notin HeldBy(v)

\* The handler, which takes the row lock, and MarkOutboxDone, RescheduleOutbox or
\* MarkOutboxFailed.
Handle(w, verdict) ==
    /\ Handling(w)
    /\ ~workers[w].aborted
    /\ Free(PaymentOf[Current(w)], w)
    /\ workers' = [workers EXCEPT ![w].verdicts = Append(@, verdict)]
    /\ UNCHANGED <<rows, earlier, effects, sweep, faults>>

\* A statement fails; the loop goes on, but nothing of the batch can be saved.
HandleSqlError(w) ==
    /\ faults < MaxFaults
    /\ Handling(w)
    /\ ~workers[w].aborted
    /\ workers' = [workers EXCEPT ![w].aborted = TRUE]
    /\ faults' = faults + 1
    /\ UNCHANGED <<rows, earlier, effects, sweep>>

Verdict(w, e) ==
    LET i == CHOOSE n \in 1 .. Len(workers[w].batch) : workers[w].batch[n] = e
    IN  workers[w].verdicts[i]

\* Mutant: retry_count is compared before it is incremented.
RefusedRowOnceMore(row) ==
    LET count == row.retries + 1
    IN  IF row.retries >= MaxRetries
        THEN [row EXCEPT !.status = "failed", !.retries = count]
        ELSE [row EXCEPT !.retries = count, !.wait = Backoff[count]]

\* Mutant: next_attempt_at moves on, retry_count does not.
RefusedRowUncounted(row) == [row EXCEPT !.wait = Backoff[row.retries + 1]]

RefusedRow(row) ==
    LET count == row.retries + 1
    IN  IF count >= MaxRetries
        THEN [row EXCEPT !.status = "failed", !.retries = count]
        ELSE [row EXCEPT !.retries = count, !.wait = Backoff[count]]

CommittedRows(w) ==
    [e \in Events |->
        IF e \notin ToSet(workers[w].batch) THEN rows[e]
        ELSE IF Verdict(w, e) = "done" THEN [rows[e] EXCEPT !.status = "done"]
        ELSE RefusedRow(rows[e])]

Commit(w) ==
    LET batch == ToSet(workers[w].batch)
        done == { e \in batch : Verdict(w, e) = "done" }
    IN  /\ workers[w].batch # <<>>
        /\ ~Handling(w)
        /\ ~workers[w].aborted
        /\ rows' = CommittedRows(w)
        /\ earlier' = Reordered(CommittedRows(w), batch)
        /\ effects' = [e \in Events |-> IF e \in done THEN effects[e] + 1 ELSE effects[e]]
        /\ workers' = [workers EXCEPT ![w] = NoTransaction]
        /\ UNCHANGED <<sweep, faults>>

\* Commit of an aborted transaction is a rollback.
Rollback(w) ==
    /\ workers[w].aborted
    /\ workers' = [workers EXCEPT ![w] = NoTransaction]
    /\ UNCHANGED <<rows, earlier, effects, sweep, faults>>

\* The process dies, or the connection is lost.
Crash(w) ==
    /\ faults < MaxFaults
    /\ workers[w].batch # <<>>
    /\ faults' = faults + 1
    /\ workers' = [workers EXCEPT ![w] = NoTransaction]
    /\ UNCHANGED <<rows, earlier, effects, sweep>>

-----------------------------------------------------------------------------
(* Row locks and housekeeping.                                             *)

HeldByWorkers == UNION { HeldBy(w) : w \in Workers }

\* The UPDATE of expireBy comes to one more row, in the order it scans the table.
SweepLocks(p) ==
    /\ ~sweep.over
    /\ sweep.wanted = None
    /\ p \notin sweep.locked \cup HeldByWorkers
    /\ sweep' = [sweep EXCEPT !.locked = @ \cup {p}]
    /\ UNCHANGED <<rows, earlier, effects, workers, faults>>

SweepWaits(p) ==
    /\ ~sweep.over
    /\ sweep.wanted = None
    /\ p \in HeldByWorkers
    /\ sweep' = [sweep EXCEPT !.wanted = p]
    /\ UNCHANGED <<rows, earlier, effects, workers, faults>>

SweepGranted ==
    /\ sweep.wanted # None
    /\ sweep.wanted \notin HeldByWorkers
    /\ sweep' = [sweep EXCEPT !.locked = @ \cup {sweep.wanted}, !.wanted = None]
    /\ UNCHANGED <<rows, earlier, effects, workers, faults>>

SweepCommits ==
    /\ sweep.locked # {}
    /\ sweep.wanted = None
    /\ sweep' = SweepOver
    /\ UNCHANGED <<rows, earlier, effects, workers, faults>>

Sweeper == "housekeeping"

\* Whom the lock that t waits for belongs to.
WaitsFor(t) ==
    IF t = Sweeper
    THEN { w \in Workers : sweep.wanted \in HeldBy(w) }
    ELSE IF ~Handling(t) \/ workers[t].aborted THEN {}
    ELSE LET p == PaymentOf[Current(t)]
         IN  { w \in Workers \ {t} : p \in HeldBy(w) }
                 \cup (IF p \in sweep.locked THEN {Sweeper} ELSE {})

Waiting == { t \in Workers \cup {Sweeper} : WaitsFor(t) # {} }

\* Each transaction waits for the next, and the last for the first.
Circles ==
    { ts \in SUBSET Waiting :
        /\ ts # {}
        /\ \A t \in ts : /\ WaitsFor(t) \cap ts # {}
                         /\ \E u \in ts : t \in WaitsFor(u) }

\* PostgreSQL aborts one transaction of a circle.
Deadlock(t) ==
    /\ \E ts \in Circles : t \in ts
    /\ IF t = Sweeper
       THEN /\ sweep' = SweepOver
            /\ UNCHANGED workers
       ELSE /\ workers' = [workers EXCEPT ![t].aborted = TRUE]
            /\ UNCHANGED sweep
    /\ UNCHANGED <<rows, earlier, effects, faults>>

-----------------------------------------------------------------------------

Work(w) ==
    \/ Fetch(w)
    \/ \E verdict \in {"done", "refused"} : Handle(w, verdict)
    \/ Commit(w)
    \/ Rollback(w)

Next ==
    \/ \E e \in Events : Enqueue(e)
    \/ Tick
    \/ \E p \in Payments : SweepLocks(p) \/ SweepWaits(p)
    \/ SweepGranted
    \/ SweepCommits
    \/ \E t \in Waiting : Deadlock(t)
    \/ \E w \in Workers : Work(w) \/ HandleSqlError(w) \/ Crash(w)

Spec == Init /\ [][Next]_vars

(***************************************************************************)
(* Relay.Loop runs RunOnce on every tick, time passes, and PostgreSQL      *)
(* grants a row lock to those who keep waiting for it.                     *)
(***************************************************************************)
Fairness ==
    /\ WF_vars(Tick)
    /\ SF_vars(SweepGranted \/ SweepCommits)
    /\ WF_vars(\E t \in Waiting : Deadlock(t))
    /\ \A w \in Workers : SF_vars(Work(w))

FairSpec == Spec /\ Fairness

-----------------------------------------------------------------------------
(* Properties.                                                             *)

Promise == INSTANCE Outbox
    WITH status <- [e \in Events |-> rows[e].status],
         retries <- [e \in Events |-> rows[e].retries]

(***************************************************************************)
(* Batches, several workers, rolled back batches and crashes do not show:  *)
(* each event is done once together with its effects, or refused           *)
(* MaxRetries times and given up (section 4.3 of docs/03-basic-design.md). *)
(***************************************************************************)
KeepsPromise == Promise!Spec

(***************************************************************************)
(* No event stays in the outbox: whatever other events the handler         *)
(* refuses, and however small the batch is, a pending event is done or     *)
(* given up in the end.                                                    *)
(***************************************************************************)
PendingIsFinished ==
    \A e \in Events :
        rows[e].status = "pending" ~> rows[e].status \in {"done", "failed"}

=============================================================================
