---------------------------- MODULE RelayProofs ----------------------------
(***************************************************************************)
(* Theorems about Relay, for any number of events, payments and workers,   *)
(* any batch size and any backoff: its types, and that it keeps the        *)
(* promise of Outbox.                                                      *)
(***************************************************************************)
EXTENDS Relay, TLAPS

InBatch(w) == ToSet(workers[w].batch)

\* An event that may still be handled has attempts left.
RetriesLeft ==
    \A e \in Events :
        rows[e].status \in {"absent", "pending"} => rows[e].retries < MaxRetries

(***************************************************************************)
(* A batch holds pending rows, and no row is in two batches: the locks     *)
(* that the fetch took keep other workers off until the transaction ends.  *)
(***************************************************************************)
BatchesInv ==
    /\ \A w \in Workers : InBatch(w) \subseteq Pending
    /\ \A v, w \in Workers : v # w => InBatch(v) \cap InBatch(w) = {}

Inv == TypeOK /\ RetriesLeft /\ BatchesInv

-----------------------------------------------------------------------------
(* The order of the pending rows.                                          *)

LEMMA ReorderedPairs ==
    ASSUME NEW table, NEW moved, NEW d, NEW e
    PROVE  <<d, e>> \in Reordered(table, moved) <=>
               /\ d \in PendingIn(table)
               /\ e \in PendingIn(table)
               /\ Before(d, e, table, moved)
BY DEF Reordered

LEMMA ReorderedOrders ==
    ASSUME rows \in [Events -> Rows],
           Orders(earlier, rows),
           NEW table \in [Events -> Rows],
           NEW moved \in SUBSET Events,
           \A e \in PendingIn(table) : e \in Pending \/ moved = {e},
           \A e \in PendingIn(table) \ moved : rows[e].wait = table[e].wait
    PROVE  Orders(Reordered(table, moved), table)
<1>. DEFINE order == Reordered(table, moved)
<1>. SUFFICES /\ order \subseteq PendingIn(table) \X PendingIn(table)
              /\ \A d, e, f \in PendingIn(table) :
                    /\ d # e => (<<d, e>> \in order <=> <<e, d>> \notin order)
                    /\ <<d, e>> \in order => d # e /\ table[d].wait <= table[e].wait
                    /\ <<d, e>> \in order /\ <<e, f>> \in order => <<d, f>> \in order
    BY DEF Orders
<1>1. order \subseteq PendingIn(table) \X PendingIn(table)
    BY DEF Reordered
<1>2. \A p, q \in PendingIn(table) : <<p, q>> \in order <=> Before(p, q, table, moved)
    BY ReorderedPairs
<1>3. \A p, q \in PendingIn(table) :
          (p \in moved <=> q \in moved) /\ p # q => p \in Pending /\ q \in Pending
    OBVIOUS
<1>4. \A p, q \in PendingIn(table) :
          <<p, q>> \in earlier => p # q /\ p \in Pending /\ q \in Pending
    BY DEF Orders, Pending
<1>5. \A p, q, r \in Pending :
          /\ p # q => (<<p, q>> \in earlier <=> <<q, p>> \notin earlier)
          /\ <<p, q>> \in earlier /\ <<q, r>> \in earlier => <<p, r>> \in earlier
    BY DEF Orders, Pending
<1>6. \A p \in PendingIn(table) : table[p].wait \in Nat
    BY DEF PendingIn, Rows
<1>. HIDE DEF order
<1>7. ASSUME NEW d \in PendingIn(table), NEW e \in PendingIn(table), NEW f \in PendingIn(table)
      PROVE  /\ d # e => (<<d, e>> \in order <=> <<e, d>> \notin order)
             /\ <<d, e>> \in order => d # e /\ table[d].wait <= table[e].wait
             /\ <<d, e>> \in order /\ <<e, f>> \in order => <<d, f>> \in order
    <2>1. d # e => (<<d, e>> \in order <=> <<e, d>> \notin order)
        <3>1. CASE table[d].wait # table[e].wait
            BY <1>2, <1>6, <3>1 DEF Before
        <3>2. CASE table[d].wait = table[e].wait /\ (d \in moved <=> e \in moved)
            <4>1. d # e => (<<d, e>> \in earlier <=> <<e, d>> \notin earlier)
                BY <1>3, <1>5, <3>2
            <4>. QED
                BY <1>2, <1>6, <3>2, <4>1 DEF Before
        <3>3. CASE table[d].wait = table[e].wait /\ ~(d \in moved <=> e \in moved)
            BY <1>2, <1>6, <3>3 DEF Before
        <3>. QED
            BY <3>1, <3>2, <3>3
    <2>2. <<d, e>> \in order => d # e /\ table[d].wait <= table[e].wait
        BY <1>2, <1>4, <1>6 DEF Before
    <2>3. <<d, e>> \in order /\ <<e, f>> \in order => <<d, f>> \in order
        <3>. SUFFICES ASSUME Before(d, e, table, moved), Before(e, f, table, moved)
                      PROVE  Before(d, f, table, moved)
            BY <1>2
        <3>1. CASE table[d].wait < table[e].wait \/ table[e].wait < table[f].wait
            BY <1>6, <3>1 DEF Before
        <3>2. CASE table[d].wait = table[e].wait /\ table[e].wait = table[f].wait
            <4>1. <<d, e>> \in earlier /\ <<e, f>> \in earlier => <<d, f>> \in earlier
                BY <1>4, <1>5
            <4>. QED
                BY <1>6, <3>2, <4>1 DEF Before
        <3>. QED
            BY <1>6, <3>1, <3>2 DEF Before
    <2>. QED
        BY <2>1, <2>2, <2>3
<1>. QED
    BY <1>1, <1>7 DEF order

-----------------------------------------------------------------------------
(* The invariant.                                                          *)

LEMMA InitInv == Init => Inv
<1>. SUFFICES ASSUME Init PROVE Inv
    OBVIOUS
<1>1. Pending = {}
    BY DEF Init, Pending, PendingIn
<1>2. rows \in [Events -> Rows]
    BY ConstantsAssumption DEF Init, Rows
<1>3. Orders(earlier, rows)
    BY <1>1 DEF Init, Orders, Pending
<1>4. /\ workers \in [Workers -> Transactions]
      /\ \A w \in Workers : workers[w].batch = <<>> /\ workers[w].verdicts = <<>>
    BY DEF Init, NoTransaction, Transactions
<1>5. sweep \in Sweeps
    BY DEF Init, NoSweep, Sweeps
<1>6. /\ effects \in [Events -> Nat]
      /\ faults \in 0 .. MaxFaults
    BY ConstantsAssumption DEF Init
<1>7. \A w \in Workers : InBatch(w) = {}
    BY <1>4 DEF InBatch, ToSet
<1>8. RetriesLeft
    BY ConstantsAssumption DEF Init, RetriesLeft
<1>9. BatchesInv
    BY <1>7 DEF BatchesInv
<1>10. \A w \in Workers : Len(workers[w].verdicts) <= Len(workers[w].batch)
    BY <1>4
<1>. QED
    BY <1>2, <1>3, <1>4, <1>5, <1>6, <1>8, <1>9, <1>10 DEF Inv, TypeOK

LEMMA EnqueueInv ==
    ASSUME Inv, NEW e \in Events, Enqueue(e)
    PROVE  Inv'
<1>. USE DEF Inv
<1>1. /\ rows' \in [Events -> Rows]
      /\ rows[e].status = "absent"
      /\ rows'[e] = [rows[e] EXCEPT !.status = "pending"]
      /\ \A d \in Events \ {e} : rows'[d] = rows[d]
    BY DEF Enqueue, TypeOK, Rows
<1>2. Pending' = Pending \cup {e} /\ e \notin Pending
    BY <1>1 DEF Pending, PendingIn, TypeOK, Rows
<1>3. Orders(earlier, rows)'
    <2>. DEFINE table == [rows EXCEPT ![e].status = "pending"]
    <2>1. rows' = table /\ earlier' = Reordered(table, {e})
        BY DEF Enqueue
    <2>2. PendingIn(table) = Pending \cup {e}
        BY <1>2, <2>1 DEF Pending
    <2>3. /\ \A d \in PendingIn(table) : d \in Pending \/ {e} = {d}
          /\ \A d \in PendingIn(table) \ {e} : rows[d].wait = table[d].wait
        BY <1>1, <2>1, <2>2 DEF Pending, PendingIn
    <2>. HIDE DEF table
    <2>4. Orders(Reordered(table, {e}), table)
        BY <1>1, <2>1, <2>3, ReorderedOrders DEF TypeOK
    <2>. QED
        BY <2>1, <2>4
<1>4. RetriesLeft'
    <2>. SUFFICES ASSUME NEW d \in Events, rows'[d].status \in {"absent", "pending"}
                  PROVE  rows'[d].retries < MaxRetries
        BY DEF RetriesLeft
    <2>1. rows[d] \in Rows
        BY DEF TypeOK
    <2>2. rows'[d].retries = rows[d].retries /\ rows[d].status \in {"absent", "pending"}
        BY <1>1, <2>1 DEF Rows
    <2>. QED
        BY <2>2 DEF RetriesLeft
<1>. QED
    BY <1>1, <1>2, <1>3, <1>4 DEF Enqueue, TypeOK, BatchesInv, InBatch

LEMMA TickInv ==
    ASSUME Inv, Tick
    PROVE  Inv'
<1>. USE DEF Inv
<1>1. /\ rows' \in [Events -> Rows]
      /\ \A e \in Events : /\ rows'[e].status = rows[e].status
                           /\ rows'[e].retries = rows[e].retries
                           /\ rows'[e].wait = IF rows[e].wait > 0 THEN rows[e].wait - 1 ELSE 0
    <2>1. rows' = [e \in Events |-> [rows[e] EXCEPT !.wait =
                      IF rows[e].wait > 0 THEN rows[e].wait - 1 ELSE 0]]
        BY DEF Tick
    <2>2. \A e \in Events : rows[e] \in Rows
        BY DEF TypeOK
    <2>3. \A e \in Events : rows'[e] = [rows[e] EXCEPT !.wait =
                                IF rows[e].wait > 0 THEN rows[e].wait - 1 ELSE 0]
        BY <2>1
    <2>4. ASSUME NEW row \in Rows
          PROVE  [row EXCEPT !.wait = IF row.wait > 0 THEN row.wait - 1 ELSE 0] \in Rows
        <3>1. row.wait \in Nat
            BY DEF Rows
        <3>2. (IF row.wait > 0 THEN row.wait - 1 ELSE 0) \in Nat
            BY <3>1
        <3>. QED
            BY <3>2 DEF Rows
    <2>5. \A e \in Events : rows'[e] \in Rows
        BY <2>2, <2>3, <2>4
    <2>. QED
        BY <2>1, <2>2, <2>3, <2>5 DEF Rows
<1>2. Pending' = Pending
    BY <1>1 DEF Pending, PendingIn
<1>3. Orders(earlier, rows)'
    <2>1. \A d, e \in Pending : rows[d].wait <= rows[e].wait => rows'[d].wait <= rows'[e].wait
        BY <1>1 DEF Pending, PendingIn, TypeOK, Rows
    <2>2. PendingIn(rows') = Pending /\ PendingIn(rows) = Pending /\ earlier' = earlier
        BY <1>2 DEF Pending, Tick
    <2>3. Orders(earlier, rows)
        BY DEF TypeOK
    <2>. QED
        BY <2>1, <2>2, <2>3 DEF Orders
<1>4. RetriesLeft'
    BY <1>1 DEF RetriesLeft
<1>. QED
    BY <1>1, <1>2, <1>3, <1>4 DEF Tick, TypeOK, BatchesInv, InBatch

\* Steps that leave the committed rows alone.
LEMMA OpenTransactionInv ==
    ASSUME Inv,
           UNCHANGED <<rows, earlier, effects>>,
           workers' \in [Workers -> Transactions],
           \A w \in Workers : Len(workers'[w].verdicts) <= Len(workers'[w].batch),
           BatchesInv',
           sweep' \in Sweeps,
           faults' \in 0 .. MaxFaults
    PROVE  Inv'
BY DEF Inv, TypeOK, RetriesLeft, Orders, PendingIn

LEMMA FetchInv ==
    ASSUME Inv, NEW w \in Workers, Fetch(w)
    PROVE  Inv'
<1>. USE DEF Inv
<1>0. PICK n \in 1 .. Batch :
          \E batch \in [1 .. n -> Due \ Locked] :
              /\ workers' = [workers EXCEPT ![w].batch = batch]
              /\ workers[w].batch = <<>>
              /\ UNCHANGED <<rows, earlier, effects, sweep, faults>>
    BY DEF Fetch, FetchFrom
<1>1. PICK batch \in [1 .. n -> Due \ Locked] :
          /\ workers' = [workers EXCEPT ![w].batch = batch]
          /\ workers[w].batch = <<>>
          /\ UNCHANGED <<rows, earlier, effects, sweep, faults>>
    BY <1>0
<1>2. /\ batch \in Seq(Events)
      /\ Len(batch) = n
      /\ n \in Nat
      /\ ToSet(batch) \subseteq Pending \ Locked
    BY ConstantsAssumption DEF Due, Pending, PendingIn, ToSet
<1>3. /\ workers' \in [Workers -> Transactions]
      /\ workers'[w].batch = batch
      /\ workers'[w].verdicts = workers[w].verdicts
      /\ \A v \in Workers \ {w} : workers'[v] = workers[v]
    BY <1>1, <1>2 DEF TypeOK, Transactions
<1>4. Len(workers'[w].verdicts) <= Len(workers'[w].batch)
    BY <1>1, <1>2, <1>3 DEF TypeOK, Transactions
<1>5. /\ InBatch(w)' = ToSet(batch)
      /\ \A v \in Workers \ {w} : InBatch(v)' = InBatch(v) /\ InBatch(v) \subseteq Locked
    BY <1>3 DEF InBatch, Locked
<1>6. BatchesInv'
    BY <1>1, <1>2, <1>5 DEF BatchesInv, Pending
<1>. QED
    BY <1>1, <1>3, <1>4, <1>6, OpenTransactionInv DEF TypeOK

\* Steps of a transaction that keep its batch or end it.
LEMMA TransactionInv ==
    ASSUME Inv, NEW w, NEW new,
           UNCHANGED <<rows, earlier, effects>>,
           workers' = [workers EXCEPT ![w] = new],
           w \in Workers => /\ new \in Transactions
                            /\ Len(new.verdicts) <= Len(new.batch)
                            /\ new.batch = workers[w].batch \/ new.batch = <<>>,
           sweep' \in Sweeps,
           faults' \in 0 .. MaxFaults
    PROVE  Inv'
<1>. USE DEF Inv
<1>1. \A v \in Workers : workers'[v] = IF v = w THEN new ELSE workers[v]
    BY DEF TypeOK
<1>2. /\ workers' \in [Workers -> Transactions]
      /\ \A v \in Workers : Len(workers'[v].verdicts) <= Len(workers'[v].batch)
    BY <1>1 DEF TypeOK
<1>3. \A v \in Workers : InBatch(v)' \subseteq InBatch(v)
    BY <1>1 DEF InBatch, ToSet
<1>4. Pending' = Pending
    BY DEF Pending, PendingIn
<1>5. BatchesInv'
    BY <1>3, <1>4 DEF BatchesInv
<1>. QED
    BY <1>2, <1>5, OpenTransactionInv

LEMMA HandleInv ==
    ASSUME Inv, NEW w \in Workers, NEW verdict \in {"done", "refused"}, Handle(w, verdict)
    PROVE  Inv'
<1>. USE DEF Inv
<1>. DEFINE new == [workers[w] EXCEPT !.verdicts = Append(@, verdict)]
<1>1. workers[w] \in Transactions
    BY DEF TypeOK
<1>2. new \in Transactions
    BY <1>1 DEF Transactions
<1>3. Len(new.verdicts) <= Len(new.batch) /\ new.batch = workers[w].batch
    BY <1>1 DEF Handle, Handling, Transactions
<1>4. workers' = [workers EXCEPT ![w] = new]
    BY DEF Handle
<1>. HIDE DEF new
<1>. QED
    BY <1>2, <1>3, <1>4, TransactionInv DEF Handle, TypeOK

LEMMA AbortedType ==
    ASSUME Inv, NEW w \in Workers
    PROVE  LET new == [workers[w] EXCEPT !.aborted = TRUE]
           IN  /\ new \in Transactions
               /\ Len(new.verdicts) <= Len(new.batch)
               /\ new.batch = workers[w].batch
BY DEF Inv, TypeOK, Transactions

LEMMA NoTransactionType ==
    /\ NoTransaction \in Transactions
    /\ Len(NoTransaction.verdicts) <= Len(NoTransaction.batch)
    /\ NoTransaction.batch = <<>>
BY DEF NoTransaction, Transactions

LEMMA FaultInv ==
    ASSUME Inv, NEW w \in Workers, HandleSqlError(w) \/ Rollback(w) \/ Crash(w)
    PROVE  Inv'
<1>. USE DEF Inv
<1>1. /\ faults' \in 0 .. MaxFaults
      /\ sweep' \in Sweeps
      /\ UNCHANGED <<rows, earlier, effects>>
    BY ConstantsAssumption DEF HandleSqlError, Rollback, Crash, TypeOK
<1>2. CASE HandleSqlError(w)
    <2>1. workers' = [workers EXCEPT ![w] = [workers[w] EXCEPT !.aborted = TRUE]]
        BY <1>2 DEF HandleSqlError
    <2>. QED
        BY <1>1, <2>1, AbortedType, TransactionInv
<1>3. CASE Rollback(w) \/ Crash(w)
    <2>1. workers' = [workers EXCEPT ![w] = NoTransaction]
        BY <1>3 DEF Rollback, Crash
    <2>. QED
        BY <1>1, <2>1, NoTransactionType, TransactionInv
<1>. QED
    BY <1>2, <1>3

LEMMA DeadlockInv ==
    ASSUME Inv, NEW t, Deadlock(t)
    PROVE  Inv'
<1>. USE DEF Inv
<1>1. /\ faults' \in 0 .. MaxFaults
      /\ sweep' \in Sweeps
      /\ UNCHANGED <<rows, earlier, effects>>
    BY DEF Deadlock, TypeOK, Sweeps, SweepOver, NoSweep
<1>2. CASE t = Sweeper
    <2>1. UNCHANGED workers
        BY <1>2 DEF Deadlock
    <2>2. BatchesInv'
        BY <1>1, <2>1 DEF BatchesInv, InBatch, Pending, PendingIn
    <2>. QED
        BY <1>1, <2>1, <2>2, OpenTransactionInv DEF TypeOK
<1>3. CASE t # Sweeper
    <2>1. workers' = [workers EXCEPT ![t] = [workers[t] EXCEPT !.aborted = TRUE]]
        BY <1>3 DEF Deadlock
    <2>. QED
        BY <1>1, <2>1, AbortedType, TransactionInv
<1>. QED
    BY <1>2, <1>3

LEMMA SweepInv ==
    ASSUME Inv,
           \/ \E p \in Payments : SweepLocks(p) \/ SweepWaits(p)
           \/ SweepGranted
           \/ SweepCommits
    PROVE  Inv'
<1>. USE DEF Inv
<1>1. UNCHANGED <<rows, earlier, effects, workers, faults>>
    BY DEF SweepLocks, SweepWaits, SweepGranted, SweepCommits
<1>2. sweep' \in Sweeps
    <2>1. sweep \in Sweeps
        BY DEF TypeOK
    <2>2. CASE \E p \in Payments : SweepLocks(p) \/ SweepWaits(p)
        BY <2>1, <2>2 DEF SweepLocks, SweepWaits, Sweeps
    <2>3. CASE SweepGranted
        BY <2>1, <2>3 DEF SweepGranted, Sweeps
    <2>4. CASE SweepCommits
        BY <2>4 DEF SweepCommits, SweepOver, NoSweep, Sweeps
    <2>. QED
        BY <2>2, <2>3, <2>4
<1>3. BatchesInv'
    BY <1>1 DEF BatchesInv, InBatch, Pending, PendingIn
<1>. QED
    BY <1>1, <1>2, <1>3, OpenTransactionInv DEF TypeOK

-----------------------------------------------------------------------------
(* Commit.                                                                 *)

LEMMA RefusedRowIs ==
    ASSUME NEW row \in Rows, row.status = "pending", row.retries < MaxRetries
    PROVE  /\ RefusedRow(row) \in Rows
           /\ RefusedRow(row).retries = row.retries + 1
           /\ RefusedRow(row).status =
                  IF row.retries + 1 = MaxRetries THEN "failed" ELSE "pending"
<1>1. row.retries \in Nat /\ row.retries + 1 \in 1 .. MaxRetries /\ row.wait \in Nat
    BY ConstantsAssumption DEF Rows
<1>2. row.retries + 1 \in 0 .. MaxRetries
    BY <1>1
<1>3. Backoff[row.retries + 1] \in Nat
    BY <1>1, ConstantsAssumption
<1>4. CASE row.retries + 1 = MaxRetries
    <2>1. RefusedRow(row) = [row EXCEPT !.status = "failed", !.retries = row.retries + 1]
        BY <1>4, ConstantsAssumption DEF RefusedRow
    <2>2. RefusedRow(row) \in Rows
        BY <1>2, <2>1 DEF Rows
    <2>3. RefusedRow(row).retries = row.retries + 1 /\ RefusedRow(row).status = "failed"
        BY <2>1 DEF Rows
    <2>. QED
        BY <1>4, <2>2, <2>3
<1>5. CASE row.retries + 1 # MaxRetries
    <2>1. RefusedRow(row) = [row EXCEPT !.retries = row.retries + 1,
                                        !.wait = Backoff[row.retries + 1]]
        BY <1>1, <1>5, ConstantsAssumption DEF RefusedRow
    <2>2. RefusedRow(row) \in Rows
        BY <1>2, <1>3, <2>1 DEF Rows
    <2>3. RefusedRow(row).retries = row.retries + 1 /\ RefusedRow(row).status = "pending"
        BY <2>1 DEF Rows
    <2>. QED
        BY <1>5, <2>2, <2>3
<1>. QED
    BY <1>4, <1>5

\* The rows outside of the batch are kept, each row of it is done or refused.
LEMMA CommittedRowIs ==
    ASSUME Inv, NEW w \in Workers, ~Handling(w), NEW e \in Events
    PROVE  /\ e \notin InBatch(w) => CommittedRows(w)[e] = rows[e]
           /\ e \in InBatch(w) =>
                 \/ /\ Verdict(w, e) = "done"
                    /\ CommittedRows(w)[e] = [rows[e] EXCEPT !.status = "done"]
                 \/ /\ Verdict(w, e) = "refused"
                    /\ CommittedRows(w)[e] = RefusedRow(rows[e])
<1>. USE DEF Inv
<1>1. CASE e \notin InBatch(w)
    BY <1>1 DEF InBatch, CommittedRows
<1>2. CASE e \in InBatch(w)
    <2>. DEFINE transaction == workers[w]
    <2>1. /\ transaction.batch \in Seq(Events)
          /\ transaction.verdicts \in Seq({"done", "refused"})
          /\ Len(transaction.verdicts) = Len(transaction.batch)
        BY DEF TypeOK, Transactions, Handling
    <2>2. \E n \in 1 .. Len(transaction.batch) : transaction.batch[n] = e
        BY <1>2, <2>1 DEF InBatch, ToSet
    <2>. HIDE DEF transaction
    <2>3. \A i \in 1 .. Len(transaction.verdicts) : transaction.verdicts[i] \in {"done", "refused"}
        BY <2>1
    <2>4. Verdict(w, e) \in {"done", "refused"}
        BY <2>1, <2>2, <2>3 DEF Verdict, transaction
    <2>. QED
        BY <1>2, <2>4 DEF InBatch, CommittedRows
<1>. QED
    BY <1>1, <1>2

LEMMA CommitInv ==
    ASSUME Inv, NEW w \in Workers, Commit(w)
    PROVE  Inv'
<1>. USE DEF Inv
<1>1. /\ rows' = CommittedRows(w)
      /\ earlier' = Reordered(CommittedRows(w), InBatch(w))
      /\ workers' = [workers EXCEPT ![w] = NoTransaction]
      /\ ~Handling(w)
      /\ UNCHANGED <<sweep, faults>>
    BY DEF Commit, InBatch
<1>2. InBatch(w) \subseteq Pending
    BY DEF BatchesInv
<1>3. \A e \in Events : /\ rows'[e] \in Rows
                        /\ e \notin InBatch(w) => rows'[e] = rows[e]
                        /\ rows'[e].status = "pending" => e \in Pending
                        /\ rows'[e].status \in {"absent", "pending"} =>
                              rows'[e].retries < MaxRetries
    <2>. SUFFICES ASSUME NEW e \in Events
                  PROVE  /\ rows'[e] \in Rows
                         /\ e \notin InBatch(w) => rows'[e] = rows[e]
                         /\ rows'[e].status = "pending" => e \in Pending
                         /\ rows'[e].status \in {"absent", "pending"} =>
                               rows'[e].retries < MaxRetries
        OBVIOUS
    <2>1. /\ rows[e] \in Rows
          /\ rows[e].status \in {"absent", "pending"} => rows[e].retries < MaxRetries
          /\ e \in Pending <=> rows[e].status = "pending"
        BY DEF TypeOK, RetriesLeft, Pending, PendingIn
    <2>2. CASE e \notin InBatch(w)
        BY <1>1, <2>1, <2>2, CommittedRowIs
    <2>3. CASE rows'[e] = [rows[e] EXCEPT !.status = "done"] /\ e \in InBatch(w)
        BY <2>1, <2>3 DEF Rows
    <2>4. CASE rows'[e] = RefusedRow(rows[e]) /\ e \in InBatch(w)
        <3>1. rows[e].status = "pending" /\ rows[e].retries \in Nat
            BY <1>2, <2>1, <2>4 DEF Rows
        <3>. QED
            BY <2>1, <2>4, <3>1, <1>2, RefusedRowIs, ConstantsAssumption DEF Rows
    <2>. QED
        BY <1>1, <2>2, <2>3, <2>4, CommittedRowIs
<1>4. rows' \in [Events -> Rows]
    BY <1>1, <1>3 DEF CommittedRows
<1>5. Pending' \subseteq Pending /\ Pending \ InBatch(w) \subseteq Pending'
    BY <1>3 DEF Pending, PendingIn
<1>6. Orders(earlier, rows)'
    <2>. DEFINE table == CommittedRows(w)
    <2>1. table \in [Events -> Rows] /\ PendingIn(table) = Pending'
        BY <1>1, <1>4 DEF Pending
    <2>2. \A e \in PendingIn(table) \ InBatch(w) : rows[e].wait = table[e].wait
        BY <1>1, <1>3 DEF PendingIn
    <2>3. InBatch(w) \in SUBSET Events
        BY <1>2 DEF Pending, PendingIn
    <2>. HIDE DEF table
    <2>4. Orders(Reordered(table, InBatch(w)), table)
        BY <1>5, <2>1, <2>2, <2>3, ReorderedOrders DEF TypeOK
    <2>. QED
        BY <1>1, <2>4 DEF table
<1>7. RetriesLeft'
    BY <1>3 DEF RetriesLeft, TypeOK, Rows
<1>8. \A v \in Workers : workers'[v] = IF v = w THEN NoTransaction ELSE workers[v]
    BY <1>1 DEF TypeOK
<1>9. /\ workers' \in [Workers -> Transactions]
      /\ \A v \in Workers : Len(workers'[v].verdicts) <= Len(workers'[v].batch)
    BY <1>1, <1>8, NoTransactionType DEF TypeOK
<1>10. BatchesInv'
    <2>1. InBatch(w)' = {} /\ \A v \in Workers \ {w} : InBatch(v)' = InBatch(v)
        BY <1>8, NoTransactionType DEF InBatch, ToSet
    <2>. QED
        BY <1>5, <2>1 DEF BatchesInv
<1>11. effects' \in [Events -> Nat]
    BY DEF Commit, TypeOK
<1>. QED
    BY <1>1, <1>4, <1>6, <1>7, <1>9, <1>10, <1>11 DEF TypeOK

-----------------------------------------------------------------------------
(* The theorems.                                                           *)

LEMMA StepInv == Inv /\ [Next]_vars => Inv'
<1>. SUFFICES ASSUME Inv, [Next]_vars PROVE Inv'
    OBVIOUS
<1>1. CASE UNCHANGED vars
    BY <1>1 DEF vars, Inv, TypeOK, Orders, PendingIn, RetriesLeft, BatchesInv, InBatch, Pending
<1>2. CASE \E e \in Events : Enqueue(e)
    BY <1>2, EnqueueInv
<1>3. CASE Tick
    BY <1>3, TickInv
<1>4. CASE (\E p \in Payments : SweepLocks(p) \/ SweepWaits(p)) \/ SweepGranted \/ SweepCommits
    BY <1>4, SweepInv
<1>5. CASE \E t \in Waiting : Deadlock(t)
    BY <1>5, DeadlockInv
<1>6. ASSUME NEW w \in Workers, Work(w) \/ HandleSqlError(w) \/ Crash(w)
      PROVE  Inv'
    <2>1. CASE Fetch(w)
        BY <2>1, FetchInv
    <2>2. CASE \E verdict \in {"done", "refused"} : Handle(w, verdict)
        BY <2>2, HandleInv
    <2>3. CASE Commit(w)
        BY <2>3, CommitInv
    <2>4. CASE Rollback(w) \/ HandleSqlError(w) \/ Crash(w)
        BY <2>4, FaultInv
    <2>. QED
        BY <1>6, <2>1, <2>2, <2>3, <2>4 DEF Work
<1>. QED
    BY <1>1, <1>2, <1>3, <1>4, <1>5, <1>6 DEF Next

LEMMA SpecInv == Spec => []Inv
<1>. QED
    BY InitInv, StepInv, PTL DEF Spec

(***************************************************************************)
(* Rows, their order, batches and locks are well typed: next_attempt_at    *)
(* always orders the pending rows, retry_count never passes MaxRetries.    *)
(***************************************************************************)
THEOREM TypeCorrect == Spec => []TypeOK
<1>1. Inv => TypeOK
    BY DEF Inv
<1>. QED
    BY <1>1, SpecInv, PTL

LEMMA PromiseInit == Init => Promise!Init
BY DEF Init, Promise!Init

\* A step that does not touch the rows' status and retry_count, nor the effects.
LEMMA PromiseStutters ==
    ASSUME \A e \in Events : /\ rows'[e].status = rows[e].status
                             /\ rows'[e].retries = rows[e].retries,
           UNCHANGED effects
    PROVE  /\ [e \in Events |-> rows[e].status]' = [e \in Events |-> rows[e].status]
           /\ [e \in Events |-> rows[e].retries]' = [e \in Events |-> rows[e].retries]
           /\ UNCHANGED effects
OBVIOUS

LEMMA EnqueueKeepsPromise ==
    ASSUME Inv, NEW e \in Events, Enqueue(e)
    PROVE  Promise!Next
<1>1. \A d \in Events : rows[d] \in Rows
    BY DEF Inv, TypeOK
<1>2. /\ rows[e].status = "absent"
      /\ rows'[e] = [rows[e] EXCEPT !.status = "pending"]
      /\ \A d \in Events \ {e} : rows'[d] = rows[d]
      /\ UNCHANGED effects
    BY DEF Enqueue, Inv, TypeOK
<1>3. rows'[e].status = "pending" /\ rows'[e].retries = rows[e].retries
    BY <1>1, <1>2 DEF Rows
<1>. QED
    BY <1>2, <1>3 DEF Promise!Next, Promise!Kept, Promise!Recorded

LEMMA CommitKeepsPromise ==
    ASSUME Inv, NEW w \in Workers, Commit(w)
    PROVE  Promise!Next
<1>. DEFINE status == [e \in Events |-> rows[e].status]
            retries == [e \in Events |-> rows[e].retries]
<1>1. /\ rows' = CommittedRows(w)
      /\ ~Handling(w)
      /\ effects' = [e \in Events |-> IF e \in InBatch(w) /\ Verdict(w, e) = "done"
                                      THEN effects[e] + 1 ELSE effects[e]]
    BY DEF Commit, InBatch
<1>2. ASSUME NEW e \in Events
      PROVE  Promise!Kept(e) \/ Promise!Done(e) \/ Promise!Refused(e)
    <2>1. rows[e] \in Rows
        BY DEF Inv, TypeOK
    <2>2. CASE e \notin InBatch(w)
        BY <1>1, <2>2, CommittedRowIs DEF Promise!Kept
    <2>3. ASSUME e \in InBatch(w)
          PROVE  rows[e].status = "pending" /\ rows[e].retries < MaxRetries
        BY <2>3 DEF Inv, BatchesInv, RetriesLeft, Pending, PendingIn
    <2>4. CASE /\ e \in InBatch(w)
               /\ Verdict(w, e) = "done"
               /\ rows'[e] = [rows[e] EXCEPT !.status = "done"]
        <3>1. rows'[e].status = "done" /\ rows'[e].retries = rows[e].retries
            BY <2>1, <2>4 DEF Rows
        <3>. QED
            BY <1>1, <2>3, <2>4, <3>1 DEF Promise!Done
    <2>5. CASE /\ e \in InBatch(w)
               /\ Verdict(w, e) = "refused"
               /\ rows'[e] = RefusedRow(rows[e])
        BY <1>1, <2>1, <2>3, <2>5, RefusedRowIs DEF Promise!Refused
    <2>. QED
        BY <1>1, <2>2, <2>4, <2>5, CommittedRowIs
<1>. QED
    BY <1>2 DEF Promise!Next

\* What Outbox sees of the relay.
promised == <<[e \in Events |-> rows[e].status], [e \in Events |-> rows[e].retries], effects>>

LEMMA StepKeepsPromise == Inv /\ [Next]_vars => [Promise!Next]_promised
<1>. SUFFICES ASSUME Inv, [Next]_vars PROVE Promise!Next \/ UNCHANGED promised
    OBVIOUS
<1>1. CASE UNCHANGED <<rows, effects>>
    BY <1>1 DEF promised
<1>2. CASE \E e \in Events : Enqueue(e)
    BY <1>2, EnqueueKeepsPromise
<1>3. CASE Tick
    <2>1. UNCHANGED effects
        BY <1>3 DEF Tick
    <2>2. \A e \in Events : /\ rows'[e].status = rows[e].status
                            /\ rows'[e].retries = rows[e].retries
        BY <1>3 DEF Tick, Inv, TypeOK, Rows
    <2>. QED
        BY <2>1, <2>2, PromiseStutters DEF promised
<1>4. CASE \E w \in Workers : Commit(w)
    BY <1>4, CommitKeepsPromise
<1>5. [Next]_vars => \/ UNCHANGED <<rows, effects>>
                     \/ \E e \in Events : Enqueue(e)
                     \/ Tick
                     \/ \E w \in Workers : Commit(w)
    BY DEF Next, vars, SweepLocks, SweepWaits, SweepGranted, SweepCommits, Deadlock,
           Work, Fetch, FetchFrom, Handle, HandleSqlError, Rollback, Crash
<1>. QED
    BY <1>1, <1>2, <1>3, <1>4, <1>5

(***************************************************************************)
(* Relay implements Outbox: whatever the batches, workers, deadlocks,      *)
(* failing statements and crashes, an event is done once together with its *)
(* effects, or refused MaxRetries times and given up.                      *)
(***************************************************************************)
THEOREM PromiseCorrect == Spec => KeepsPromise
<1>. QED
    BY PromiseInit, StepKeepsPromise, SpecInv, PTL DEF Spec, KeepsPromise, Promise!Spec, promised

=============================================================================
