-------------------------- MODULE SettlementProofs --------------------------
(***************************************************************************)
(* Theorems about Settlement, for any number of payments, administrator    *)
(* requests, amounts and retries.                                          *)
(***************************************************************************)
EXTENDS Settlement, FiniteSetTheorems, TLAPS

Actors == {"webhook", "admin", "housekeeping"}

\* A request past its check names a payment and asks for a real amount.
RequestsOK ==
    \A a \in Admins :
        requests[a].step # "idle" => requests[a].payment \in Payments

\* A pending event has attempts left.
RetriesLeft ==
    \A e \in StripeEvents : outbox[e].status = "pending" => outbox[e].retries < MaxRetries

TypeInv == TypeOK /\ RequestsOK /\ RetriesLeft /\ IsFiniteSet(ledger)

-----------------------------------------------------------------------------
(* The transition table and the rows it changes.                           *)

LEMMA TargetInTable ==
    ASSUME NEW s, NEW e, IsAllowed(s, e)
    PROVE  /\ Target(s, e) \in States
           /\ <<s, e, Target(s, e)>> \in Transitions
BY DEF IsAllowed, Target

LEMMA MovedType ==
    ASSUME NEW row \in PaymentRows, NEW from \in States, NEW event \in Events,
           NEW to \in States, NEW actor \in Actors
    PROVE  /\ Moved(row, from, event, to, actor) \in PaymentRows
           /\ Moved(row, from, event, to, actor).state = to
           /\ Moved(row, from, event, to, actor).refunded = row.refunded
           /\ Moved(row, from, event, to, actor).history
                = Append(row.history, [from |-> from, event |-> event, to |-> to, actor |-> actor])
<1>1. [from |-> from, event |-> event, to |-> to, actor |-> actor] \in HistoryRows
    BY DEF HistoryRows, Actors
<1>2. row.history \in Seq(HistoryRows)
    BY DEF PaymentRows
<1>3. Append(row.history, [from |-> from, event |-> event, to |-> to, actor |-> actor])
          \in Seq(HistoryRows)
    BY <1>1, <1>2
<1>. QED
    BY <1>3 DEF Moved, PaymentRows

LEMMA MovedFields ==
    ASSUME NEW row \in PaymentRows, NEW from, NEW event, NEW to, NEW actor
    PROVE  /\ Moved(row, from, event, to, actor).state = to
           /\ Moved(row, from, event, to, actor).refunded = row.refunded
BY DEF Moved, PaymentRows

LEMMA AppliedType ==
    ASSUME NEW row \in PaymentRows, NEW event \in Events, NEW actor \in Actors,
           IsAllowed(row.state, event)
    PROVE  Applied(row, event, actor) \in PaymentRows
<1>1. row.state \in States
    BY DEF PaymentRows
<1>2. Target(row.state, event) \in States
    BY TargetInTable
<1>. QED
    BY <1>1, <1>2, MovedType DEF Applied

LEMMA AppliedIfAllowedType ==
    ASSUME NEW row \in PaymentRows, NEW event \in Events, NEW actor \in Actors
    PROVE  AppliedIfAllowed(row, event, actor) \in PaymentRows
BY AppliedType DEF AppliedIfAllowed

IsPath(row) == IsPathTo(row.history, row.state)

\* Appending a permitted transition extends a path.
LEMMA AppendPath ==
    ASSUME NEW h \in Seq(HistoryRows), NEW state, IsPathTo(h, state),
           NEW row \in HistoryRows, row.from = state,
           <<row.from, row.event, row.to>> \in Transitions
    PROVE  IsPathTo(Append(h, row), row.to)
<1>. DEFINE g == Append(h, row)
<1>1. /\ Len(h) \in Nat
      /\ h = <<>> <=> Len(h) = 0
    OBVIOUS
<1>2. /\ Len(g) = Len(h) + 1
      /\ g[Len(g)] = row
      /\ \A i \in 1 .. Len(h) : g[i] = h[i]
      /\ g # <<>>
    OBVIOUS
<1>3. /\ \A i \in 1 .. Len(h) :
            /\ <<h[i].from, h[i].event, h[i].to>> \in Transitions
            /\ h[i].from = IF i = 1 THEN "created" ELSE h[i-1].to
      /\ state = IF h = <<>> THEN "created" ELSE h[Len(h)].to
    BY DEF IsPathTo
<1>. HIDE DEF g
<1>4. ASSUME NEW i \in 1 .. Len(g)
      PROVE  /\ <<g[i].from, g[i].event, g[i].to>> \in Transitions
             /\ g[i].from = IF i = 1 THEN "created" ELSE g[i-1].to
  <2>1. CASE i \in 1 .. Len(h)
    <3>1. g[i] = h[i] /\ (i # 1 => i - 1 \in 1 .. Len(h))
        BY <1>1, <1>2, <2>1
    <3>2. i # 1 => g[i-1] = h[i-1]
        BY <1>2, <3>1
    <3>. QED
        BY <1>3, <2>1, <3>1, <3>2
  <2>2. CASE i = Len(h) + 1
    <3>1. g[i] = row
        BY <1>2, <2>2
    <3>2. CASE h = <<>>
        BY <1>1, <1>3, <2>2, <3>1, <3>2
    <3>3. CASE h # <<>>
      <4>1. i # 1 /\ i - 1 = Len(h) /\ Len(h) \in 1 .. Len(h)
        BY <1>1, <2>2, <3>3
      <4>2. g[i-1] = h[Len(h)]
        BY <1>2, <4>1
      <4>. QED
        BY <1>3, <3>1, <3>3, <4>1, <4>2
    <3>. QED
        BY <3>2, <3>3
  <2>. QED
    BY <1>1, <1>2, <2>1, <2>2
<1>5. IsPathTo(g, row.to)
    BY <1>2, <1>4 DEF IsPathTo
<1>. QED
    BY <1>5 DEF g

\* A permitted transition extends the path of a payment row.
LEMMA MovedPath ==
    ASSUME NEW row \in PaymentRows, IsPath(row), NEW event \in Events, NEW to \in States,
           NEW actor \in Actors, <<row.state, event, to>> \in Transitions
    PROVE  IsPath(Moved(row, row.state, event, to, actor))
<1>. DEFINE new == [from |-> row.state, event |-> event, to |-> to, actor |-> actor]
<1>1. row.state \in States /\ row.history \in Seq(HistoryRows)
    BY DEF PaymentRows
<1>2. /\ new \in HistoryRows
      /\ new.from = row.state /\ new.event = event /\ new.to = to
    BY <1>1 DEF HistoryRows, Actors
<1>3. /\ Moved(row, row.state, event, to, actor).history = Append(row.history, new)
      /\ Moved(row, row.state, event, to, actor).state = to
    BY <1>1, MovedType
<1>4. IsPathTo(row.history, row.state)
    BY DEF IsPath
<1>. HIDE DEF new
<1>5. IsPathTo(Append(row.history, new), new.to)
    BY <1>1, <1>2, <1>4, AppendPath
<1>. QED
    BY <1>2, <1>3, <1>5 DEF IsPath

LEMMA AppliedPath ==
    ASSUME NEW row \in PaymentRows, IsPath(row), NEW event \in Events, NEW actor \in Actors,
           IsAllowed(row.state, event)
    PROVE  IsPath(Applied(row, event, actor))
BY TargetInTable, MovedPath DEF Applied

LEMMA AppliedIfAllowedPath ==
    ASSUME NEW row \in PaymentRows, IsPath(row), NEW event \in Events, NEW actor \in Actors
    PROVE  IsPath(AppliedIfAllowed(row, event, actor))
BY AppliedPath DEF AppliedIfAllowed

-----------------------------------------------------------------------------
(* Type correctness.                                                       *)

LEMMA IdleType == Idle \in Requests /\ Idle.step = "idle"
BY DEF Idle, Requests, Steps

LEMMA TypeInit == Init => TypeInv
<1>. SUFFICES ASSUME Init PROVE TypeInv
    OBVIOUS
<1>. USE ConstantsAssumption
<1>1. payments \in [Payments -> PaymentRows]
    BY DEF Init, PaymentRows, States
<1>2. stripe \in [Payments -> Intents]
    BY DEF Init, Intents, Kinds, StripeRefunds
<1>3. outbox \in [StripeEvents -> OutboxRows]
    BY DEF Init, OutboxRows
<1>4. requests \in [Admins -> Requests]
    BY IdleType DEF Init
<1>5. webhooks \in Seq(StripeEvents)
    BY DEF Init
<1>6. ledger \in SUBSET LedgerRows /\ audit \in Seq(AuditRows)
    BY DEF Init
<1>7. RequestsOK
    BY IdleType DEF Init, RequestsOK
<1>8. RetriesLeft
    BY DEF Init, RetriesLeft
<1>9. IsFiniteSet(ledger)
    BY FS_EmptySet DEF Init
<1>. QED
    BY <1>1, <1>2, <1>3, <1>4, <1>5, <1>6, <1>7, <1>8, <1>9 DEF TypeInv, TypeOK

\* The rows of a booked transfer are ledger rows.
LEMMA TransferType ==
    ASSUME NEW p \in Payments, NEW n \in Nat, NEW amount \in Nat,
           NEW rows \in SUBSET LedgerRows
    PROVE  /\ Insert(rows, CaptureTransfer(p, n, amount)) \in SUBSET LedgerRows
           /\ Insert(rows, RefundTransfer(p, n, amount)) \in SUBSET LedgerRows
           /\ IsFiniteSet(rows) => /\ IsFiniteSet(Insert(rows, CaptureTransfer(p, n, amount)))
                                   /\ IsFiniteSet(Insert(rows, RefundTransfer(p, n, amount)))
<1>1. CaptureTransfer(p, n, amount) \in SUBSET LedgerRows
    BY DEF CaptureTransfer, Entry, LedgerRows, TransferIds, Accounts
<1>2. RefundTransfer(p, n, amount) \in SUBSET LedgerRows
    BY DEF RefundTransfer, Entry, LedgerRows, TransferIds, Accounts
<1>3. \A x, y : IsFiniteSet(rows) => IsFiniteSet(Insert(rows, {x, y}))
  <2>. SUFFICES ASSUME NEW x, NEW y, IsFiniteSet(rows)
                PROVE  IsFiniteSet(Insert(rows, {x, y}))
    OBVIOUS
  <2>1. IsFiniteSet((rows \cup {x}) \cup {y})
    BY FS_AddElement
  <2>2. Insert(rows, {x, y}) \in SUBSET ((rows \cup {x}) \cup {y})
    BY DEF Insert
  <2>. QED
    BY <2>1, <2>2, FS_Subset
<1>. QED
    BY <1>1, <1>2, <1>3 DEF Insert, CaptureTransfer, RefundTransfer

\* What StripeMoves and CaptureAtStripe do to an intent.
LEMMA ReportedType ==
    ASSUME NEW intent \in Intents, NEW kind \in Kinds,
           NEW status \in {"requires_payment", "requires_capture", "succeeded", "canceled"}
    PROVE  /\ Reported(intent, status, kind) \in Intents
           /\ Reported(intent, status, kind).status = status
           /\ Reported(intent, status, kind).events = intent.events \cup {kind}
           /\ Reported(intent, status, kind).refunds = intent.refunds
           /\ Reported(intent, status, kind).refunded = intent.refunded
BY DEF Reported, Intents

LEMMA StripeMovesType ==
    ASSUME TypeInv, NEW p \in Payments, NEW from, NEW kind \in Kinds,
           NEW status \in {"requires_payment", "requires_capture", "succeeded", "canceled"},
           StripeMoves(p, from, status, kind)
    PROVE  TypeInv'
<1>1. stripe' \in [Payments -> Intents]
    BY ReportedType DEF TypeInv, TypeOK, StripeMoves
<1>. QED
    BY <1>1 DEF TypeInv, TypeOK, RequestsOK, RetriesLeft, StripeMoves

LEMMA DeliverType ==
    ASSUME TypeInv, NEW e \in StripeEvents, Deliver(e)
    PROVE  TypeInv'
<1>1. [status |-> "pending", retries |-> 0] \in OutboxRows /\ 0 < MaxRetries
    BY ConstantsAssumption DEF OutboxRows
<1>2. outbox' \in [StripeEvents -> OutboxRows] /\ RetriesLeft'
    BY <1>1 DEF TypeInv, TypeOK, RetriesLeft, Deliver
<1>3. webhooks' \in Seq(StripeEvents)
    BY DEF TypeInv, TypeOK, Deliver
<1>. QED
    BY <1>2, <1>3 DEF TypeInv, TypeOK, RequestsOK, Deliver

LEMMA EventOfType ==
    ASSUME NEW kind \in Kinds, kind # "succeeded"
    PROVE  EventOf(kind) \in Events
BY DEF Kinds, EventOf, Events

LEMMA RelayDoneType ==
    ASSUME TypeInv, NEW e \in StripeEvents, RelayDone(e)
    PROVE  TypeInv'
<1>1. e.payment \in Payments /\ e.kind \in Kinds
    BY DEF StripeEvents
<1>2. payments[e.payment] \in PaymentRows
    BY <1>1 DEF TypeInv, TypeOK
<1>3. outbox' \in [StripeEvents -> OutboxRows] /\ RetriesLeft'
    BY DEF TypeInv, TypeOK, RetriesLeft, RelayDone, OutboxRows
<1>4. payments' \in [Payments -> PaymentRows] /\ ledger' \in SUBSET LedgerRows
      /\ IsFiniteSet(ledger')
  <2>1. CASE e.kind = "succeeded"
    <3>1. "AuthorizeSucceeded" \in Events /\ "Capture" \in Events /\ "webhook" \in Actors
        BY DEF Events, Actors
    <3>2. AppliedIfAllowed(AppliedIfAllowed(payments[e.payment], "AuthorizeSucceeded", "webhook"),
                           "Capture", "webhook") \in PaymentRows
        BY <1>2, <3>1, AppliedIfAllowedType
    <3>3. HandleSucceeded(e.payment)
        BY <2>1 DEF RelayDone
    <3>4. payments' \in [Payments -> PaymentRows]
        BY <1>1, <3>2, <3>3 DEF HandleSucceeded, TypeInv, TypeOK
    <3>5. ledger' \in SUBSET LedgerRows /\ IsFiniteSet(ledger')
        BY <1>1, <3>3, TransferType, ConstantsAssumption DEF HandleSucceeded, TypeInv, TypeOK
    <3>. QED
        BY <3>4, <3>5
  <2>2. CASE e.kind # "succeeded"
    <3>1. EventOf(e.kind) \in Events /\ "webhook" \in Actors
        BY <1>1, <2>2, EventOfType DEF Actors
    <3>2. HandleOther(e.payment, e.kind) /\ IsAllowed(payments[e.payment].state, EventOf(e.kind))
        BY <2>2 DEF RelayDone, HandlerAccepts
    <3>3. Applied(payments[e.payment], EventOf(e.kind), "webhook") \in PaymentRows
        BY <1>2, <3>1, <3>2, AppliedType
    <3>. QED
        BY <1>1, <3>2, <3>3 DEF HandleOther, TypeInv, TypeOK
  <2>. QED
    BY <2>1, <2>2
<1>. QED
    BY <1>3, <1>4 DEF TypeInv, TypeOK, RequestsOK, RelayDone

LEMMA RelayRetriesType ==
    ASSUME TypeInv, NEW e \in StripeEvents, RelayRetries(e)
    PROVE  TypeInv'
<1>1. outbox[e].retries \in Nat /\ outbox[e].retries < MaxRetries /\ MaxRetries \in Nat
    BY ConstantsAssumption DEF TypeInv, TypeOK, RetriesLeft, OutboxRows, RelayRetries
<1>2. DEFINE row == [status |-> IF outbox[e].retries + 1 >= MaxRetries THEN "failed" ELSE "pending",
                     retries |-> outbox[e].retries + 1]
<1>3. row \in OutboxRows /\ (row.status = "pending" => row.retries < MaxRetries)
    BY <1>1 DEF OutboxRows
<1>4. outbox' = [outbox EXCEPT ![e] = row]
    BY DEF RelayRetries
<1>. HIDE DEF row
<1>5. outbox' \in [StripeEvents -> OutboxRows] /\ RetriesLeft'
    BY <1>3, <1>4 DEF TypeInv, TypeOK, RetriesLeft
<1>. QED
    BY <1>5 DEF TypeInv, TypeOK, RequestsOK, RelayRetries

LEMMA ExpireType ==
    ASSUME TypeInv, NEW from \in {"created", "authorized"}, NEW old \in SUBSET Payments,
           Expire(from, old)
    PROVE  TypeInv'
<1>1. from \in States /\ "Expire" \in Events /\ "expired" \in States /\ "housekeeping" \in Actors
    BY DEF States, Events, Actors
<1>2. \A p \in Payments :
          Moved(payments[p], from, "Expire", "expired", "housekeeping") \in PaymentRows
    BY <1>1, MovedType DEF TypeInv, TypeOK
<1>3. payments' \in [Payments -> PaymentRows]
    BY <1>2 DEF Expire, TypeInv, TypeOK
<1>. QED
    BY <1>3 DEF TypeInv, TypeOK, RequestsOK, RetriesLeft, Expire

LEMMA CaptureType ==
    ASSUME TypeInv, NEW a \in Admins,
           \/ \E p \in Payments : CaptureCheck(a, p)
           \/ CaptureAtStripe(a)
           \/ CaptureTx(a)
    PROVE  TypeInv'
<1>. USE DEF TypeInv, TypeOK, RequestsOK, RetriesLeft
<1>1. CASE \E p \in Payments : CaptureCheck(a, p)
  <2>1. PICK p \in Payments : CaptureCheck(a, p)
    BY <1>1
  <2>2. [Idle EXCEPT !.step = "capture_stripe", !.payment = p] \in Requests
    BY DEF Idle, Requests, Steps
  <2>3. requests' \in [Admins -> Requests]
    BY <2>1, <2>2 DEF CaptureCheck
  <2>4. RequestsOK'
    BY <2>1 DEF CaptureCheck, Idle
  <2>. QED
    BY <2>1, <2>3, <2>4 DEF CaptureCheck
<1>2. CASE CaptureAtStripe(a)
  <2>1. requests[a].payment \in Payments
    BY <1>2 DEF CaptureAtStripe
  <2>2. "succeeded" \in Kinds
    BY DEF Kinds
  <2>3. stripe' \in [Payments -> Intents]
    BY <1>2, <2>1, <2>2, ReportedType DEF CaptureAtStripe
  <2>4. requests' \in [Admins -> Requests] /\ RequestsOK'
    BY <1>2, <2>1 DEF CaptureAtStripe, Requests, Steps
  <2>. QED
    BY <1>2, <2>3, <2>4 DEF CaptureAtStripe
<1>3. CASE CaptureTx(a)
  <2>. DEFINE p == requests[a].payment
  <2>1. p \in Payments
    BY <1>3 DEF CaptureTx
  <2>2. "Capture" \in Events /\ "admin" \in Actors
    BY DEF Events, Actors
  <2>3. payments' \in [Payments -> PaymentRows]
    BY <1>3, <2>1, <2>2, AppliedType DEF CaptureTx
  <2>4. ledger' \in SUBSET LedgerRows /\ IsFiniteSet(ledger')
    BY <1>3, <2>1, TransferType, ConstantsAssumption DEF CaptureTx
  <2>5. audit' \in Seq(AuditRows)
    BY <1>3, <2>1, ConstantsAssumption DEF CaptureTx, AuditRows
  <2>6. requests' \in [Admins -> Requests] /\ RequestsOK'
    BY <1>3, IdleType DEF CaptureTx
  <2>. QED
    BY <1>3, <2>3, <2>4, <2>5, <2>6 DEF CaptureTx
<1>. QED
    BY <1>1, <1>2, <1>3

\* Every way a request ends without having changed anything else.
LEMMA DroppedType ==
    ASSUME TypeInv, NEW a \in Admins,
           \/ CaptureRefused(a) \/ CaptureTxRollback(a)
           \/ RefundRefused(a) \/ RefundTxRollback(a) \/ Abandon(a)
    PROVE  TypeInv'
<1>1. /\ requests' = [requests EXCEPT ![a] = Idle]
      /\ UNCHANGED <<payments, ledger, audit, webhooks, outbox, stripe>>
    BY DEF CaptureRefused, CaptureTxRollback, RefundRefused, RefundTxRollback, Abandon
<1>. QED
    BY <1>1, IdleType DEF TypeInv, TypeOK, RequestsOK, RetriesLeft

\* A row whose total grows within the price is still a payment row.
LEMMA RefundedRowType ==
    ASSUME NEW row \in PaymentRows, NEW amount \in Nat, RefundCommits(row, amount)
    PROVE  LET total == row.refunded + amount
           IN  /\ total \in 0 .. Amount
               /\ [row EXCEPT !.refunded = total] \in PaymentRows
               /\ [row EXCEPT !.refunded = total].state = row.state
               /\ [row EXCEPT !.refunded = total].history = row.history
               /\ IsAllowed(row.state, RefundEvent(total))
               /\ RefundEvent(total) \in Events
BY ConstantsAssumption DEF PaymentRows, RefundCommits, RefundEvent, Events

LEMMA RefundTxType ==
    ASSUME TypeInv, NEW a \in Admins, RefundTx(a)
    PROVE  TypeInv'
<1>. USE DEF TypeInv, TypeOK, RequestsOK, RetriesLeft
<1>. DEFINE p == requests[a].payment
            amount == requests[a].amount
            row == payments[p]
            total == row.refunded + amount
            paid == [row EXCEPT !.refunded = total]
<1>1. p \in Payments /\ amount \in Nat /\ requests[a].seq \in Nat /\ row \in PaymentRows
    BY DEF RefundTx, Requests
<1>2. RefundCommits(row, amount)
    BY DEF RefundTx
<1>3. /\ paid \in PaymentRows
      /\ IsAllowed(paid.state, RefundEvent(total))
      /\ RefundEvent(total) \in Events
      /\ "admin" \in Actors
    BY <1>1, <1>2, RefundedRowType DEF Actors
<1>4. Applied(paid, RefundEvent(total), "admin") \in PaymentRows
    BY <1>3, AppliedType
<1>5. payments' = [payments EXCEPT ![p] = Applied(paid, RefundEvent(total), "admin")]
    BY DEF RefundTx
<1>6. payments' \in [Payments -> PaymentRows]
    BY <1>1, <1>4, <1>5
<1>7. ledger' \in SUBSET LedgerRows /\ IsFiniteSet(ledger')
    BY <1>1, TransferType DEF RefundTx, RefundBooked
<1>8. audit' \in Seq(AuditRows)
    BY <1>1 DEF RefundTx, RefundAudited, AuditRows
<1>9. requests' \in [Admins -> Requests] /\ RequestsOK'
    BY IdleType DEF RefundTx
<1>. QED
    BY <1>6, <1>7, <1>8, <1>9 DEF RefundTx

\* A refund that Stripe accepts keeps its total within the price.
LEMMA PaidBackType ==
    ASSUME NEW intent \in Intents, NEW r, r.amount \in Nat, r.seq \in Nat,
           Refundable(intent, r)
    PROVE  /\ PaidBack(intent, r) \in Intents
           /\ PaidBack(intent, r).status = intent.status
           /\ PaidBack(intent, r).events = intent.events
           /\ PaidBack(intent, r).refunds
                = intent.refunds \cup {[seq |-> r.seq, amount |-> r.amount]}
<1>1. [seq |-> r.seq, amount |-> r.amount] \in StripeRefunds
    BY DEF StripeRefunds
<1>2. intent.refunded + r.amount \in 0 .. Amount
    BY ConstantsAssumption DEF Refundable, Intents
<1>3. intent.refunds \cup {[seq |-> r.seq, amount |-> r.amount]} \in SUBSET StripeRefunds
    BY <1>1 DEF Intents
<1>. QED
    BY <1>2, <1>3 DEF PaidBack, Intents

LEMMA RefundType ==
    ASSUME TypeInv, NEW a \in Admins,
           \/ \E p \in Payments, amount \in RefundAmounts : RefundCheck(a, p, amount)
           \/ RefundSeq(a)
           \/ RefundAtStripe(a)
    PROVE  TypeInv'
<1>. USE DEF TypeInv, TypeOK, RequestsOK, RetriesLeft
<1>1. CASE \E p \in Payments, amount \in RefundAmounts : RefundCheck(a, p, amount)
  <2>1. PICK p \in Payments, amount \in RefundAmounts : RefundCheck(a, p, amount)
    BY <1>1
  <2>2. [step |-> "refund_seq", payment |-> p, amount |-> amount, seq |-> 0] \in Requests
    BY ConstantsAssumption DEF Requests, Steps
  <2>3. requests' \in [Admins -> Requests] /\ RequestsOK'
    BY <2>1, <2>2 DEF RefundCheck
  <2>. QED
    BY <2>1, <2>3 DEF RefundCheck
<1>2. CASE RefundSeq(a)
  <2>1. IsFiniteSet(RefundDebits(ledger, requests[a].payment))
    BY FS_Subset DEF RefundDebits
  <2>2. 1 + Cardinality(RefundDebits(ledger, requests[a].payment)) \in Nat
    BY <2>1, FS_CardinalityType
  <2>3. requests' \in [Admins -> Requests] /\ RequestsOK'
    BY <1>2, <2>2 DEF RefundSeq, Requests, Steps
  <2>. QED
    BY <1>2, <2>3 DEF RefundSeq
<1>3. CASE RefundAtStripe(a)
  <2>. DEFINE r == requests[a]
  <2>1. r.payment \in Payments /\ r.amount \in Nat /\ r.seq \in Nat
    BY <1>3 DEF RefundAtStripe, Requests
  <2>2. \/ UNCHANGED stripe
        \/ /\ Refundable(stripe[r.payment], r)
           /\ stripe' = [stripe EXCEPT ![r.payment] = PaidBack(stripe[r.payment], r)]
    BY <1>3 DEF RefundAtStripe
  <2>3. Refundable(stripe[r.payment], r) => PaidBack(stripe[r.payment], r) \in Intents
    BY <2>1, PaidBackType
  <2>4. stripe' \in [Payments -> Intents]
    BY <2>1, <2>2, <2>3
  <2>5. requests' = [requests EXCEPT ![a] = [r EXCEPT !.step = "refund_tx"]]
    BY <1>3 DEF RefundAtStripe
  <2>6. /\ [r EXCEPT !.step = "refund_tx"] \in Requests
        /\ [r EXCEPT !.step = "refund_tx"].payment = r.payment
    BY DEF Requests, Steps
  <2>7. requests' \in [Admins -> Requests] /\ RequestsOK'
    BY <2>1, <2>5, <2>6
  <2>. QED
    BY <1>3, <2>4, <2>7 DEF RefundAtStripe
<1>. QED
    BY <1>1, <1>2, <1>3

LEMMA TypeStep == TypeInv /\ [Next]_vars => TypeInv'
<1>. SUFFICES ASSUME TypeInv, [Next]_vars PROVE TypeInv'
    OBVIOUS
<1>1. CASE UNCHANGED vars
    BY <1>1 DEF vars, TypeInv, TypeOK, RequestsOK, RetriesLeft
<1>2. ASSUME NEW p \in Payments,
             \/ CustomerAuthorizes(p) \/ CustomerPays(p)
             \/ CustomerDeclined(p) \/ StripeCancels(p)
      PROVE  TypeInv'
    BY <1>2, StripeMovesType
       DEF CustomerAuthorizes, CustomerPays, CustomerDeclined, StripeCancels, Kinds
<1>3. ASSUME NEW e \in StripeEvents, Deliver(e) \/ RelayDone(e) \/ RelayRetries(e)
      PROVE  TypeInv'
    BY <1>3, DeliverType, RelayDoneType, RelayRetriesType
<1>4. ASSUME NEW from \in {"created", "authorized"}, NEW old \in SUBSET Payments,
             Expire(from, old)
      PROVE  TypeInv'
    BY <1>4, ExpireType
<1>5. ASSUME NEW a \in Admins,
             \/ \E p \in Payments : CaptureCheck(a, p)
             \/ CaptureAtStripe(a) \/ CaptureRefused(a) \/ CaptureTx(a) \/ CaptureTxRollback(a)
             \/ \E p \in Payments, amount \in RefundAmounts : RefundCheck(a, p, amount)
             \/ RefundSeq(a) \/ RefundAtStripe(a) \/ RefundRefused(a)
             \/ RefundTx(a) \/ RefundTxRollback(a) \/ Abandon(a)
      PROVE  TypeInv'
    BY <1>5, CaptureType, RefundType, RefundTxType, DroppedType
<1>. QED
    BY <1>1, <1>2, <1>3, <1>4, <1>5 DEF Next

LEMMA TypeInvHolds == Spec => []TypeInv
BY TypeInit, TypeStep, PTL DEF Spec

(***************************************************************************)
(* Every reachable state is well typed: in particular a refund never takes *)
(* refunded_jpy or what Stripe paid back past the price, and no event is   *)
(* retried more than MaxRetries times.                                     *)
(***************************************************************************)
THEOREM TypeCorrect == Spec => []TypeOK
<1>1. TypeInv => TypeOK
    BY DEF TypeInv
<1>. QED
    BY TypeInvHolds, <1>1, PTL

-----------------------------------------------------------------------------
(* What one step does to a payment row.                                    *)

\* Both ApplyEvents of a succeeded webhook.
Settled(row) ==
    AppliedIfAllowed(AppliedIfAllowed(row, "AuthorizeSucceeded", "webhook"), "Capture", "webhook")

RefundApplied(row, amount) ==
    Applied([row EXCEPT !.refunded = row.refunded + amount],
            RefundEvent(row.refunded + amount), "admin")

PlainEvents == {"AuthorizeSucceeded", "AuthorizeFailed", "Capture", "Cancel", "Expire"}

RowStep(p) ==
    \/ payments'[p] = payments[p]
    \/ \E event \in PlainEvents \ {"Capture"}, to \in States, actor \in Actors :
          /\ <<payments[p].state, event, to>> \in Transitions
          /\ payments'[p] = Moved(payments[p], payments[p].state, event, to, actor)
    \/ \E e \in StripeEvents :
          /\ RelayDone(e) /\ e.kind = "succeeded" /\ e.payment = p
          /\ payments'[p] = Settled(payments[p])
    \/ \E a \in Admins :
          /\ CaptureTx(a) /\ requests[a].payment = p
          /\ IsAllowed(payments[p].state, "Capture")
          /\ payments'[p] = Applied(payments[p], "Capture", "admin")
    \/ \E a \in Admins :
          /\ RefundTx(a) /\ requests[a].payment = p
          /\ RefundCommits(payments[p], requests[a].amount)
          /\ payments'[p] = RefundApplied(payments[p], requests[a].amount)

\* The only ways a step changes a payment row.
LEMMA RowStepLemma ==
    ASSUME TypeInv, [Next]_vars, NEW p \in Payments
    PROVE  RowStep(p)
<1>. USE DEF TypeInv, TypeOK
<1>1. CASE payments' = payments
    BY <1>1 DEF RowStep
<1>2. ASSUME NEW e \in StripeEvents, RelayDone(e)
      PROVE  RowStep(p)
  <2>1. e.payment \in Payments /\ e.kind \in Kinds
    BY DEF StripeEvents
  <2>2. CASE e.payment # p
    BY <1>2, <2>2 DEF RelayDone, HandleSucceeded, HandleOther, RowStep
  <2>3. CASE e.payment = p /\ e.kind = "succeeded"
    <3>1. payments'[p] = Settled(payments[p])
        BY <1>2, <2>3 DEF RelayDone, HandleSucceeded, Settled
    <3>. QED
        BY <1>2, <2>3, <3>1 DEF RowStep
  <2>4. CASE e.payment = p /\ e.kind # "succeeded"
    <3>1. /\ IsAllowed(payments[p].state, EventOf(e.kind))
          /\ payments'[p] = Applied(payments[p], EventOf(e.kind), "webhook")
        BY <1>2, <2>4 DEF RelayDone, HandlerAccepts, HandleOther
    <3>2. EventOf(e.kind) \in PlainEvents \ {"Capture"} /\ "webhook" \in Actors
        BY <2>1, <2>4 DEF EventOf, Kinds, PlainEvents, Actors
    <3>. QED
        BY <3>1, <3>2, TargetInTable DEF Applied, RowStep
  <2>. QED
    BY <2>2, <2>3, <2>4
<1>3. ASSUME NEW from \in {"created", "authorized"}, NEW old \in SUBSET Payments,
             Expire(from, old)
      PROVE  RowStep(p)
  <2>1. CASE p \notin old
    BY <1>3, <2>1 DEF Expire, RowStep
  <2>2. CASE p \in old
    <3>1. /\ payments[p].state = from
          /\ payments'[p] = Moved(payments[p], from, "Expire", "expired", "housekeeping")
        BY <1>3, <2>2 DEF Expire
    <3>2. /\ <<from, "Expire", "expired">> \in Transitions
          /\ "Expire" \in PlainEvents \ {"Capture"} /\ "expired" \in States /\ "housekeeping" \in Actors
        BY DEF Transitions, PlainEvents, States, Actors
    <3>. QED
        BY <3>1, <3>2 DEF RowStep
  <2>. QED
    BY <2>1, <2>2
<1>4. ASSUME NEW a \in Admins, CaptureTx(a)
      PROVE  RowStep(p)
  <2>1. CASE requests[a].payment # p
    BY <1>4, <2>1 DEF CaptureTx, RowStep
  <2>2. CASE requests[a].payment = p
    <3>1. /\ IsAllowed(payments[p].state, "Capture")
          /\ payments'[p] = Applied(payments[p], "Capture", "admin")
        BY <1>4, <2>2 DEF CaptureTx
    <3>. QED
        BY <1>4, <2>2, <3>1 DEF RowStep
  <2>. QED
    BY <2>1, <2>2
<1>5. ASSUME NEW a \in Admins, RefundTx(a)
      PROVE  RowStep(p)
  <2>1. CASE requests[a].payment # p
    BY <1>5, <2>1 DEF RefundTx, RowStep
  <2>2. CASE requests[a].payment = p
    <3>1. /\ RefundCommits(payments[p], requests[a].amount)
          /\ payments'[p] = RefundApplied(payments[p], requests[a].amount)
        BY <1>5, <2>2 DEF RefundTx, RefundApplied
    <3>. QED
        BY <1>5, <2>2, <3>1 DEF RowStep
  <2>. QED
    BY <2>1, <2>2
<1>. QED
    BY <1>1, <1>2, <1>3, <1>4, <1>5
       DEF Next, vars, CustomerAuthorizes, CustomerPays, CustomerDeclined, StripeCancels,
           StripeMoves, Deliver, RelayRetries, CaptureCheck, CaptureAtStripe, CaptureRefused,
           CaptureTxRollback, RefundCheck, RefundSeq, RefundAtStripe, RefundRefused,
           RefundTxRollback, Abandon

-----------------------------------------------------------------------------
(* The history of a payment.                                               *)

LEMMA PathStep == TypeInv /\ HistoryIsPath /\ [Next]_vars => HistoryIsPath'
<1>. SUFFICES ASSUME TypeInv, HistoryIsPath, [Next]_vars, NEW p \in Payments
              PROVE  IsPath(payments'[p])
    BY DEF HistoryIsPath, IsPath
<1>. DEFINE row == payments[p]
<1>1. row \in PaymentRows /\ IsPath(row)
    BY DEF TypeInv, TypeOK, HistoryIsPath, IsPath
<1>2. CASE payments'[p] = row
    BY <1>1, <1>2
<1>3. ASSUME NEW event \in PlainEvents, NEW to \in States, NEW actor \in Actors,
             <<row.state, event, to>> \in Transitions,
             payments'[p] = Moved(row, row.state, event, to, actor)
      PROVE  IsPath(payments'[p])
  <2>1. event \in Events
    BY DEF PlainEvents, Events
  <2>. QED
    BY <1>1, <1>3, <2>1, MovedPath
<1>4. CASE payments'[p] = Settled(row)
  <2>1. "AuthorizeSucceeded" \in Events /\ "Capture" \in Events /\ "webhook" \in Actors
    BY DEF Events, Actors
  <2>. DEFINE mid == AppliedIfAllowed(row, "AuthorizeSucceeded", "webhook")
  <2>2. mid \in PaymentRows /\ IsPath(mid)
    BY <1>1, <2>1, AppliedIfAllowedType, AppliedIfAllowedPath
  <2>3. IsPath(AppliedIfAllowed(mid, "Capture", "webhook"))
    BY <2>1, <2>2, AppliedIfAllowedPath
  <2>. QED
    BY <1>4, <2>3 DEF Settled
<1>5. ASSUME NEW a \in Admins, RefundCommits(row, requests[a].amount),
             payments'[p] = RefundApplied(row, requests[a].amount)
      PROVE  IsPath(payments'[p])
  <2>. DEFINE amount == requests[a].amount
              paid == [row EXCEPT !.refunded = row.refunded + amount]
  <2>1. amount \in Nat /\ "admin" \in Actors
    BY DEF TypeInv, TypeOK, Requests, Actors
  <2>2. /\ paid \in PaymentRows /\ IsPath(paid)
        /\ RefundEvent(row.refunded + amount) \in Events
        /\ IsAllowed(paid.state, RefundEvent(row.refunded + amount))
    BY <1>1, <1>5, <2>1, RefundedRowType DEF IsPath
  <2>3. IsPath(Applied(paid, RefundEvent(row.refunded + amount), "admin"))
    BY <2>1, <2>2, AppliedPath
  <2>. QED
    BY <1>5, <2>3 DEF RefundApplied
<1>6. CASE payments'[p] = Applied(row, "Capture", "admin") /\ IsAllowed(row.state, "Capture")
  <2>1. "Capture" \in Events /\ "admin" \in Actors
    BY DEF Events, Actors
  <2>. QED
    BY <1>1, <1>6, <2>1, AppliedPath
<1>. QED
    BY <1>2, <1>3, <1>4, <1>5, <1>6, RowStepLemma DEF RowStep

(***************************************************************************)
(* payment_transitions is a path of the transition table from created to   *)
(* the state of the payment, whatever the relay, housekeeping and the      *)
(* administrators do concurrently.                                         *)
(***************************************************************************)
THEOREM HistoryCorrect == Spec => []HistoryIsPath
<1>1. Init => HistoryIsPath
    BY DEF Init, HistoryIsPath, IsPathTo
<1>. QED
    BY <1>1, TypeInvHolds, PathStep, PTL DEF Spec

-----------------------------------------------------------------------------
(* State and refunded_jpy of a payment.                                    *)

\* A refund in progress is for a real amount.
AmountsPositive ==
    \A a \in Admins :
        requests[a].step \in {"refund_seq", "refund_stripe", "refund_tx"} =>
            requests[a].amount \in Nat \ {0}

LEMMA AmountsStep == TypeInv /\ AmountsPositive /\ [Next]_vars => AmountsPositive'
<1>. SUFFICES ASSUME TypeInv, AmountsPositive, [Next]_vars PROVE AmountsPositive'
    OBVIOUS
<1>. USE DEF TypeInv, TypeOK, AmountsPositive
<1>1. CASE requests' = requests
    BY <1>1
<1>2. ASSUME NEW a \in Admins, requests' = [requests EXCEPT ![a] = Idle]
      PROVE  AmountsPositive'
    BY <1>2 DEF Idle
<1>3. ASSUME NEW a \in Admins, NEW p \in Payments, CaptureCheck(a, p)
      PROVE  AmountsPositive'
    BY <1>3 DEF CaptureCheck, Idle
<1>4. ASSUME NEW a \in Admins, CaptureAtStripe(a)
      PROVE  AmountsPositive'
    BY <1>4 DEF CaptureAtStripe, Requests
<1>5. ASSUME NEW a \in Admins, NEW p \in Payments, NEW amount \in RefundAmounts,
             RefundCheck(a, p, amount)
      PROVE  AmountsPositive'
  <2>1. amount \in Nat \ {0}
    BY ConstantsAssumption
  <2>2. requests' = [requests EXCEPT ![a] = [step |-> "refund_seq", payment |-> p,
                                             amount |-> amount, seq |-> 0]]
    BY <1>5 DEF RefundCheck
  <2>. QED
    BY <2>1, <2>2
<1>6. ASSUME NEW a \in Admins, RefundSeq(a) \/ RefundAtStripe(a)
      PROVE  AmountsPositive'
  <2>1. CASE RefundSeq(a)
    BY <2>1 DEF RefundSeq, Requests
  <2>2. CASE RefundAtStripe(a)
    BY <2>2 DEF RefundAtStripe, Requests
  <2>. QED
    BY <1>6, <2>1, <2>2
<1>. QED
    BY <1>1, <1>2, <1>3, <1>4, <1>5, <1>6
       DEF Next, vars, CustomerAuthorizes, CustomerPays, CustomerDeclined, StripeCancels,
           StripeMoves, Deliver, RelayDone, RelayRetries, Expire, CaptureRefused, CaptureTx,
           CaptureTxRollback, RefundRefused, RefundTx, RefundTxRollback, Abandon

RefundedMatches(row) ==
    /\ row.refunded > 0 <=> row.state \in {"partially_refunded", "refunded"}
    /\ row.refunded = Amount <=> row.state = "refunded"

\* No event but a refund enters or leaves the refunded states.
LEMMA PlainMatches ==
    ASSUME NEW row \in PaymentRows, RefundedMatches(row), NEW event \in PlainEvents,
           NEW to \in States, NEW actor \in Actors, <<row.state, event, to>> \in Transitions
    PROVE  /\ Moved(row, row.state, event, to, actor) \in PaymentRows
           /\ RefundedMatches(Moved(row, row.state, event, to, actor))
<1>1. event \in Events /\ row.state \in States
    BY DEF PlainEvents, Events, PaymentRows
<1>2. /\ row.state \notin {"partially_refunded", "refunded"}
      /\ to \notin {"partially_refunded", "refunded"}
    BY DEF Transitions, PlainEvents
<1>3. Moved(row, row.state, event, to, actor) \in PaymentRows
    BY <1>1, MovedType
<1>4. /\ Moved(row, row.state, event, to, actor).state = to
      /\ Moved(row, row.state, event, to, actor).refunded = row.refunded
    BY MovedFields
<1>5. RefundedMatches(Moved(row, row.state, event, to, actor))
    BY <1>2, <1>4 DEF RefundedMatches
<1>. QED
    BY <1>3, <1>5

LEMMA AppliedMatches ==
    ASSUME NEW row \in PaymentRows, RefundedMatches(row), NEW event \in PlainEvents,
           NEW actor \in Actors, IsAllowed(row.state, event)
    PROVE  /\ Applied(row, event, actor) \in PaymentRows
           /\ RefundedMatches(Applied(row, event, actor))
<1>. DEFINE to == Target(row.state, event)
<1>1. to \in States /\ <<row.state, event, to>> \in Transitions
    BY TargetInTable
<1>2. Applied(row, event, actor) = Moved(row, row.state, event, to, actor)
    BY DEF Applied
<1>. HIDE DEF to
<1>. QED
    BY <1>1, <1>2, PlainMatches

LEMMA IfAllowedMatches ==
    ASSUME NEW row \in PaymentRows, RefundedMatches(row), NEW event \in PlainEvents
    PROVE  /\ AppliedIfAllowed(row, event, "webhook") \in PaymentRows
           /\ RefundedMatches(AppliedIfAllowed(row, event, "webhook"))
<1>1. "webhook" \in Actors
    BY DEF Actors
<1>. QED
    BY <1>1, AppliedMatches DEF AppliedIfAllowed

LEMMA RefundMatches ==
    ASSUME NEW row \in PaymentRows, RefundedMatches(row), NEW amount \in Nat \ {0},
           RefundCommits(row, amount)
    PROVE  RefundedMatches(RefundApplied(row, amount))
<1>. DEFINE total == row.refunded + amount
            paid == [row EXCEPT !.refunded = total]
            event == RefundEvent(total)
            to == Target(row.state, event)
<1>1. /\ total \in 0 .. Amount /\ total > 0
      /\ paid \in PaymentRows /\ paid.state = row.state /\ paid.refunded = total
      /\ IsAllowed(row.state, event) /\ event \in Events
    BY RefundedRowType DEF PaymentRows
<1>2. <<row.state, event, to>> \in Transitions /\ to \in States
    BY <1>1, TargetInTable
<1>3. to = IF total = Amount THEN "refunded" ELSE "partially_refunded"
    BY <1>2 DEF RefundEvent, Transitions
<1>4. paid.state \in States /\ "admin" \in Actors
    BY <1>1 DEF PaymentRows, Actors
<1>5. RefundApplied(row, amount) = Moved(paid, paid.state, event, to, "admin")
    BY <1>1 DEF RefundApplied, Applied
<1>. HIDE DEF paid, event, to
<1>7. /\ Moved(paid, paid.state, event, to, "admin").state = to
      /\ Moved(paid, paid.state, event, to, "admin").refunded = paid.refunded
    BY <1>1, MovedFields
<1>. QED
    BY <1>1, <1>3, <1>5, <1>7, ConstantsAssumption DEF RefundedMatches

LEMMA MatchesStep ==
    TypeInv /\ AmountsPositive /\ RefundedMatchesState /\ [Next]_vars => RefundedMatchesState'
<1>. SUFFICES ASSUME TypeInv, AmountsPositive, RefundedMatchesState, [Next]_vars,
                     NEW p \in Payments
              PROVE  RefundedMatches(payments'[p])
    BY DEF RefundedMatchesState, RefundedMatches
<1>. DEFINE row == payments[p]
<1>1. row \in PaymentRows /\ RefundedMatches(row)
    BY DEF TypeInv, TypeOK, RefundedMatchesState, RefundedMatches
<1>2. CASE payments'[p] = row
    BY <1>1, <1>2
<1>3. ASSUME NEW event \in PlainEvents, NEW to \in States, NEW actor \in Actors,
             <<row.state, event, to>> \in Transitions,
             payments'[p] = Moved(row, row.state, event, to, actor)
      PROVE  RefundedMatches(payments'[p])
    BY <1>1, <1>3, PlainMatches
<1>4. CASE payments'[p] = Settled(row)
    BY <1>1, <1>4, IfAllowedMatches DEF Settled, PlainEvents
<1>5. ASSUME NEW a \in Admins, RefundTx(a), RefundCommits(row, requests[a].amount),
             payments'[p] = RefundApplied(row, requests[a].amount)
      PROVE  RefundedMatches(payments'[p])
  <2>1. requests[a].amount \in Nat \ {0}
    BY <1>5 DEF AmountsPositive, RefundTx
  <2>. QED
    BY <1>1, <1>5, <2>1, RefundMatches
<1>6. CASE payments'[p] = Applied(row, "Capture", "admin") /\ IsAllowed(row.state, "Capture")
  <2>1. "Capture" \in PlainEvents /\ "admin" \in Actors
    BY DEF PlainEvents, Actors
  <2>. QED
    BY <1>1, <1>6, <2>1, AppliedMatches
<1>. QED
    BY <1>2, <1>3, <1>4, <1>5, <1>6, RowStepLemma DEF RowStep

LEMMA MatchesInit == Init => AmountsPositive /\ RefundedMatchesState
<1>. SUFFICES ASSUME Init PROVE AmountsPositive /\ RefundedMatchesState
    OBVIOUS
<1>1. AmountsPositive
    BY IdleType DEF Init, AmountsPositive
<1>2. RefundedMatchesState
    BY ConstantsAssumption DEF Init, RefundedMatchesState
<1>. QED
    BY <1>1, <1>2

(***************************************************************************)
(* A payment is partially_refunded or refunded exactly when part or all of *)
(* its price is counted in refunded_jpy.                                   *)
(***************************************************************************)
THEOREM RefundedCorrect == Spec => []RefundedMatchesState
BY MatchesInit, TypeInvHolds, AmountsStep, MatchesStep, PTL DEF Spec

-----------------------------------------------------------------------------
(* The ledger against Stripe.                                              *)

\* What a request or a recorded event knows about Stripe stays true.
Informed ==
    /\ \A p \in Payments : "succeeded" \in stripe[p].events => stripe[p].status = "succeeded"
    /\ \A e \in StripeEvents : Recorded(e) => e.kind \in stripe[e.payment].events
    /\ \A a \in Admins :
          requests[a].step = "capture_tx" => stripe[requests[a].payment].status = "succeeded"
    /\ \A a \in Admins :
          requests[a].step = "refund_tx" =>
              [seq |-> requests[a].seq, amount |-> requests[a].amount]
                  \in stripe[requests[a].payment].refunds

StripeGrows(p) ==
    /\ stripe[p].status = "succeeded" => stripe'[p].status = "succeeded"
    /\ stripe[p].events \subseteq stripe'[p].events
    /\ stripe[p].refunds \subseteq stripe'[p].refunds
    /\ "succeeded" \in stripe'[p].events =>
           "succeeded" \in stripe[p].events \/ stripe'[p].status = "succeeded"

\* Stripe takes back nothing it has collected, reported or paid back.
LEMMA StripeGrowsLemma ==
    ASSUME TypeInv, [Next]_vars, NEW p \in Payments
    PROVE  StripeGrows(p)
<1>. USE DEF TypeInv, TypeOK
<1>1. CASE stripe' = stripe
    BY <1>1 DEF StripeGrows
<1>2. ASSUME NEW q \in Payments, NEW from, NEW kind \in Kinds,
             NEW status \in {"requires_payment", "requires_capture", "succeeded", "canceled"},
             StripeMoves(q, from, status, kind), "succeeded" \notin from,
             kind = "succeeded" => status = "succeeded"
      PROVE  StripeGrows(p)
  <2>1. stripe' = [stripe EXCEPT ![q] = Reported(stripe[q], status, kind)] /\ stripe[q].status \in from
    BY <1>2 DEF StripeMoves
  <2>2. stripe[q] \in Intents
    BY DEF Intents
  <2>3. /\ Reported(stripe[q], status, kind).status = status
        /\ Reported(stripe[q], status, kind).events = stripe[q].events \cup {kind}
        /\ Reported(stripe[q], status, kind).refunds = stripe[q].refunds
    BY <2>2 DEF Reported, Intents
  <2>. QED
    BY <1>2, <2>1, <2>3 DEF StripeGrows
<1>3. ASSUME NEW a \in Admins, CaptureAtStripe(a)
      PROVE  StripeGrows(p)
  <2>. DEFINE q == requests[a].payment
  <2>1. q \in Payments /\ stripe[q] \in Intents
    BY <1>3 DEF CaptureAtStripe, RequestsOK
  <2>2. "succeeded" \in Kinds
    BY DEF Kinds
  <2>3. stripe' = [stripe EXCEPT ![q] = Reported(stripe[q], "succeeded", "succeeded")]
    BY <1>3 DEF CaptureAtStripe
  <2>4. /\ Reported(stripe[q], "succeeded", "succeeded").status = "succeeded"
        /\ Reported(stripe[q], "succeeded", "succeeded").events = stripe[q].events \cup {"succeeded"}
        /\ Reported(stripe[q], "succeeded", "succeeded").refunds = stripe[q].refunds
    BY <2>1, <2>2, ReportedType
  <2>. QED
    BY <2>1, <2>3, <2>4 DEF StripeGrows
<1>4. ASSUME NEW a \in Admins, RefundAtStripe(a)
      PROVE  StripeGrows(p)
  <2>. DEFINE r == requests[a]
  <2>1. r.payment \in Payments /\ r.amount \in Nat /\ r.seq \in Nat /\ stripe[r.payment] \in Intents
    BY <1>4 DEF RefundAtStripe, RequestsOK, Requests
  <2>2. CASE UNCHANGED stripe
    BY <2>2 DEF StripeGrows
  <2>3. CASE /\ Refundable(stripe[r.payment], r)
             /\ stripe' = [stripe EXCEPT ![r.payment] = PaidBack(stripe[r.payment], r)]
    <3>1. /\ PaidBack(stripe[r.payment], r).status = stripe[r.payment].status
          /\ PaidBack(stripe[r.payment], r).events = stripe[r.payment].events
          /\ stripe[r.payment].refunds \subseteq PaidBack(stripe[r.payment], r).refunds
        BY <2>1, <2>3, PaidBackType
    <3>. QED
        BY <2>1, <2>3, <3>1 DEF StripeGrows
  <2>. QED
    BY <1>4, <2>2, <2>3 DEF RefundAtStripe
<1>5. ASSUME NEW q \in Payments, CustomerAuthorizes(q) \/ CustomerPays(q)
                                 \/ CustomerDeclined(q) \/ StripeCancels(q)
      PROVE  StripeGrows(p)
    BY <1>2, <1>5
       DEF CustomerAuthorizes, CustomerPays, CustomerDeclined, StripeCancels, Kinds
<1>. QED
    BY <1>1, <1>3, <1>4, <1>5
       DEF Next, vars, Deliver, RelayDone, RelayRetries, Expire, CaptureCheck, CaptureRefused,
           CaptureTx, CaptureTxRollback, RefundCheck, RefundSeq, RefundRefused, RefundTx,
           RefundTxRollback, Abandon

\* Only an answer from Stripe brings a request to its transaction.
LEMMA RequestStep ==
    ASSUME TypeInv, [Next]_vars, NEW a \in Admins,
           requests'[a].step \in {"capture_tx", "refund_tx"}
    PROVE  requests'[a] = requests[a] \/ CaptureAtStripe(a) \/ RefundAtStripe(a)
<1>. USE DEF TypeInv, TypeOK
<1>1. CASE requests' = requests
    BY <1>1
<1>2. ASSUME NEW b \in Admins, requests' = [requests EXCEPT ![b] = Idle]
      PROVE  requests'[a] = requests[a]
    BY <1>2 DEF Idle
<1>3. ASSUME NEW b \in Admins, CaptureAtStripe(b) \/ RefundAtStripe(b)
      PROVE  requests'[a] = requests[a] \/ CaptureAtStripe(a) \/ RefundAtStripe(a)
    BY <1>3 DEF CaptureAtStripe, RefundAtStripe
<1>4. ASSUME NEW b \in Admins, NEW p \in Payments, CaptureCheck(b, p)
      PROVE  requests'[a] = requests[a]
    BY <1>4 DEF CaptureCheck, Idle
<1>5. ASSUME NEW b \in Admins, NEW p \in Payments, NEW amount \in RefundAmounts,
             RefundCheck(b, p, amount)
      PROVE  requests'[a] = requests[a]
    BY <1>5 DEF RefundCheck
<1>6. ASSUME NEW b \in Admins, RefundSeq(b)
      PROVE  requests'[a] = requests[a]
    BY <1>6 DEF RefundSeq, Requests
<1>. QED
    BY <1>1, <1>2, <1>3, <1>4, <1>5, <1>6
       DEF Next, vars, CustomerAuthorizes, CustomerPays, CustomerDeclined, StripeCancels,
           StripeMoves, Deliver, RelayDone, RelayRetries, Expire, CaptureRefused, CaptureTx,
           CaptureTxRollback, RefundRefused, RefundTx, RefundTxRollback, Abandon

LEMMA InformedStep == TypeInv /\ Informed /\ [Next]_vars => Informed'
<1>. SUFFICES ASSUME TypeInv, Informed, [Next]_vars PROVE Informed'
    OBVIOUS
<1>0. \A p \in Payments : StripeGrows(p)
    BY StripeGrowsLemma
<1>1. \A p \in Payments : "succeeded" \in stripe'[p].events => stripe'[p].status = "succeeded"
    BY <1>0 DEF StripeGrows, Informed
<1>2. ASSUME NEW e \in StripeEvents, Recorded(e)'
      PROVE  e.kind \in stripe'[e.payment].events
  <2>1. e.payment \in Payments /\ StripeGrows(e.payment)
    BY <1>0 DEF StripeEvents
  <2>2. e.kind \in stripe[e.payment].events
    <3>1. CASE Recorded(e)
        BY <3>1 DEF Informed
    <3>2. CASE ~Recorded(e)
      <4>1. Deliver(e)
        BY <1>2, <3>2
           DEF Next, vars, Recorded, TypeInv, TypeOK, CustomerAuthorizes, CustomerPays,
               CustomerDeclined, StripeCancels, StripeMoves, Deliver, RelayDone, RelayRetries,
               Expire, CaptureCheck, CaptureAtStripe, CaptureRefused, CaptureTx,
               CaptureTxRollback, RefundCheck, RefundSeq, RefundAtStripe, RefundRefused,
               RefundTx, RefundTxRollback, Abandon
      <4>. QED
        BY <4>1 DEF Deliver
    <3>. QED
        BY <3>1, <3>2
  <2>. QED
    BY <2>1, <2>2 DEF StripeGrows
<1>3. ASSUME NEW a \in Admins, requests'[a].step \in {"capture_tx", "refund_tx"}
      PROVE  requests'[a] = requests[a] \/ CaptureAtStripe(a) \/ RefundAtStripe(a)
    BY <1>3, RequestStep
<1>4. ASSUME NEW a \in Admins, requests'[a].step = "capture_tx"
      PROVE  stripe'[requests'[a].payment].status = "succeeded"
  <2>. DEFINE p == requests[a].payment
  <2>1. CASE requests'[a] = requests[a]
    <3>1. p \in Payments /\ StripeGrows(p)
        BY <1>0, <1>4, <2>1 DEF TypeInv, RequestsOK
    <3>. QED
        BY <1>4, <2>1, <3>1 DEF Informed, StripeGrows
  <2>2. CASE CaptureAtStripe(a)
    <3>1. p \in Payments /\ requests'[a].payment = p /\ stripe[p] \in Intents
        BY <2>2 DEF CaptureAtStripe, TypeInv, TypeOK, RequestsOK, Requests
    <3>2. stripe'[p] = Reported(stripe[p], "succeeded", "succeeded")
        BY <2>2, <3>1 DEF CaptureAtStripe, TypeInv, TypeOK
    <3>3. Reported(stripe[p], "succeeded", "succeeded").status = "succeeded"
        BY <3>1 DEF Reported, Intents
    <3>. QED
        BY <3>1, <3>2, <3>3
  <2>3. CASE RefundAtStripe(a)
    BY <1>4, <2>3 DEF RefundAtStripe, TypeInv, TypeOK, Requests
  <2>. QED
    BY <1>3, <1>4, <2>1, <2>2, <2>3
<1>5. ASSUME NEW a \in Admins, requests'[a].step = "refund_tx"
      PROVE  [seq |-> requests'[a].seq, amount |-> requests'[a].amount]
                 \in stripe'[requests'[a].payment].refunds
  <2>. DEFINE r == requests[a]
  <2>1. CASE requests'[a] = r
    <3>1. r.payment \in Payments /\ StripeGrows(r.payment)
        BY <1>0, <1>5, <2>1 DEF TypeInv, RequestsOK
    <3>. QED
        BY <1>5, <2>1, <3>1 DEF Informed, StripeGrows
  <2>2. CASE CaptureAtStripe(a)
    BY <1>5, <2>2 DEF CaptureAtStripe, TypeInv, TypeOK, Requests
  <2>3. CASE RefundAtStripe(a)
    <3>1. /\ r.payment \in Payments /\ r.amount \in Nat /\ r.seq \in Nat
          /\ stripe[r.payment] \in Intents
        BY <2>3 DEF RefundAtStripe, TypeInv, TypeOK, RequestsOK, Requests
    <3>2. /\ requests'[a].payment = r.payment
          /\ requests'[a].amount = r.amount
          /\ requests'[a].seq = r.seq
        BY <2>3 DEF RefundAtStripe, TypeInv, TypeOK, Requests
    <3>3. [seq |-> r.seq, amount |-> r.amount] \in stripe'[r.payment].refunds
      <4>1. CASE Replays(stripe[r.payment], r) /\ UNCHANGED stripe
        BY <4>1 DEF Replays
      <4>2. CASE /\ Refundable(stripe[r.payment], r)
                 /\ stripe' = [stripe EXCEPT ![r.payment] = PaidBack(stripe[r.payment], r)]
        <5>1. stripe'[r.payment] = PaidBack(stripe[r.payment], r)
            BY <3>1, <4>2 DEF TypeInv, TypeOK
        <5>. QED
            BY <3>1, <4>2, <5>1, PaidBackType
      <4>. QED
        BY <2>3, <4>1, <4>2 DEF RefundAtStripe
    <3>. QED
        BY <3>2, <3>3
  <2>. QED
    BY <1>3, <1>5, <2>1, <2>2, <2>3
<1>. QED
    BY <1>1, <1>2, <1>4, <1>5 DEF Informed, Recorded

\* Every ledger row belongs to a capture Stripe collected or to a refund it made.
LedgerReal ==
    \A e \in ledger :
        \/ \E p \in Payments : /\ e \in CaptureTransfer(p, 1, Amount)
                               /\ stripe[p].status = "succeeded"
        \/ \E p \in Payments : \E f \in stripe[p].refunds :
               e \in RefundTransfer(p, f.seq, f.amount)

CapturedStates == {"captured", "partially_refunded", "refunded"}

CapturedInLedger ==
    \A p \in Payments :
        payments[p].state \in CapturedStates => CaptureBooked(p)

LedgerStep ==
    \/ ledger' = ledger
    \/ \E p \in Payments : /\ ledger' = Insert(ledger, CaptureTransfer(p, 1, Amount))
                           /\ stripe'[p].status = "succeeded"
    \/ \E p \in Payments : \E f \in stripe'[p].refunds :
           ledger' = Insert(ledger, RefundTransfer(p, f.seq, f.amount))

\* The only ways a step changes the ledger.
LEMMA LedgerStepLemma ==
    ASSUME TypeInv, Informed, [Next]_vars
    PROVE  LedgerStep
<1>0. \A p \in Payments : StripeGrows(p)
    BY StripeGrowsLemma
<1>1. CASE ledger' = ledger
    BY <1>1 DEF LedgerStep
<1>2. ASSUME NEW e \in StripeEvents, RelayDone(e)
      PROVE  LedgerStep
  <2>1. e.payment \in Payments /\ StripeGrows(e.payment)
    BY <1>0 DEF StripeEvents
  <2>2. CASE e.kind = "succeeded"
    <3>1. Recorded(e)
        BY <1>2 DEF RelayDone, Recorded
    <3>2. stripe[e.payment].status = "succeeded"
        BY <2>1, <2>2, <3>1 DEF Informed
    <3>3. ledger' = Insert(ledger, CaptureTransfer(e.payment, 1, Amount))
        BY <1>2, <2>2 DEF RelayDone, HandleSucceeded
    <3>. QED
        BY <2>1, <3>2, <3>3 DEF LedgerStep, StripeGrows
  <2>3. CASE e.kind # "succeeded"
    BY <1>2, <2>3 DEF RelayDone, HandleOther, LedgerStep
  <2>. QED
    BY <2>2, <2>3
<1>3. ASSUME NEW a \in Admins, CaptureTx(a)
      PROVE  LedgerStep
  <2>. DEFINE p == requests[a].payment
  <2>1. p \in Payments /\ StripeGrows(p)
    BY <1>0, <1>3 DEF CaptureTx, TypeInv, RequestsOK
  <2>2. stripe[p].status = "succeeded"
    BY <1>3 DEF CaptureTx, Informed
  <2>3. ledger' = Insert(ledger, CaptureTransfer(p, 1, Amount))
    BY <1>3 DEF CaptureTx
  <2>. QED
    BY <2>1, <2>2, <2>3 DEF LedgerStep, StripeGrows
<1>4. ASSUME NEW a \in Admins, RefundTx(a)
      PROVE  LedgerStep
  <2>. DEFINE r == requests[a]
              f == [seq |-> r.seq, amount |-> r.amount]
  <2>1. r.payment \in Payments /\ StripeGrows(r.payment)
    BY <1>0, <1>4 DEF RefundTx, TypeInv, RequestsOK
  <2>2. f \in stripe[r.payment].refunds
    BY <1>4 DEF RefundTx, Informed
  <2>3. ledger' = Insert(ledger, RefundTransfer(r.payment, f.seq, f.amount))
    BY <1>4 DEF RefundTx, RefundBooked
  <2>4. f \in stripe'[r.payment].refunds
    BY <2>1, <2>2 DEF StripeGrows
  <2>. QED
    BY <2>1, <2>3, <2>4 DEF LedgerStep
<1>. QED
    BY <1>1, <1>2, <1>3, <1>4
       DEF Next, vars, CustomerAuthorizes, CustomerPays, CustomerDeclined, StripeCancels,
           StripeMoves, Deliver, RelayRetries, Expire, CaptureCheck, CaptureAtStripe,
           CaptureRefused, CaptureTxRollback, RefundCheck, RefundSeq, RefundAtStripe,
           RefundRefused, RefundTxRollback, Abandon

LEMMA LedgerRealStep == TypeInv /\ Informed /\ LedgerReal /\ [Next]_vars => LedgerReal'
<1>. SUFFICES ASSUME TypeInv, Informed, LedgerReal, [Next]_vars, NEW e \in ledger'
              PROVE  \/ \E p \in Payments : /\ e \in CaptureTransfer(p, 1, Amount)
                                            /\ stripe'[p].status = "succeeded"
                     \/ \E p \in Payments : \E f \in stripe'[p].refunds :
                            e \in RefundTransfer(p, f.seq, f.amount)
    BY DEF LedgerReal
<1>1. CASE e \in ledger
  <2>1. \A p \in Payments : StripeGrows(p)
    BY StripeGrowsLemma
  <2>. QED
    BY <1>1, <2>1 DEF LedgerReal, StripeGrows
<1>2. CASE e \notin ledger
    BY <1>2, LedgerStepLemma DEF LedgerStep, Insert
<1>. QED
    BY <1>1, <1>2

\* A capture is in the ledger after it is inserted, even if it was there before.
LEMMA CaptureInserted ==
    ASSUME LedgerReal, NEW p \in Payments
    PROVE  CaptureTransfer(p, 1, Amount) \subseteq Insert(ledger, CaptureTransfer(p, 1, Amount))
<1>. SUFFICES ASSUME NEW r \in CaptureTransfer(p, 1, Amount), NEW e \in ledger,
                     e.transfer = r.transfer, e.side = r.side
              PROVE  e = r
    BY DEF Insert
<1>1. r.transfer = <<p, "capture", 1>>
    BY DEF CaptureTransfer, Entry
<1>2. CASE \E q \in Payments : e \in CaptureTransfer(q, 1, Amount)
  <2>1. PICK q \in Payments : e \in CaptureTransfer(q, 1, Amount)
    BY <1>2
  <2>2. e.transfer = <<q, "capture", 1>>
    BY <2>1 DEF CaptureTransfer, Entry
  <2>3. q = p
    BY <1>1, <2>2
  <2>. QED
    BY <2>1, <2>3 DEF CaptureTransfer, Entry
<1>3. CASE \E q \in Payments : \E f \in stripe[q].refunds : e \in RefundTransfer(q, f.seq, f.amount)
  <2>1. e.transfer[2] = "refund"
    BY <1>3 DEF RefundTransfer, Entry
  <2>. QED
    BY <1>1, <2>1
<1>. QED
    BY <1>2, <1>3 DEF LedgerReal

LEMMA CapturedStep ==
    TypeInv /\ Informed /\ LedgerReal /\ CapturedInLedger /\ [Next]_vars => CapturedInLedger'
<1>. SUFFICES ASSUME TypeInv, Informed, LedgerReal, CapturedInLedger, [Next]_vars,
                     NEW p \in Payments, payments'[p].state \in CapturedStates
              PROVE  CaptureTransfer(p, 1, Amount) \subseteq ledger'
    BY DEF CapturedInLedger, CaptureBooked
<1>1. ledger \subseteq ledger'
    BY LedgerStepLemma DEF LedgerStep, Insert
<1>2. CASE payments[p].state \in CapturedStates
    BY <1>1, <1>2 DEF CapturedInLedger, CaptureBooked
<1>3. CASE payments[p].state \notin CapturedStates
  <2>. DEFINE row == payments[p]
  <2>1. row \in PaymentRows /\ row.state \in States
    BY DEF TypeInv, TypeOK, PaymentRows
  <2>2. CASE payments'[p] = row
    BY <1>3, <2>2
  <2>3. ASSUME NEW event \in PlainEvents \ {"Capture"}, NEW to \in States, NEW actor \in Actors,
               <<row.state, event, to>> \in Transitions,
               payments'[p] = Moved(row, row.state, event, to, actor)
        PROVE  FALSE
    <3>1. payments'[p].state = to
        BY <2>1, <2>3, MovedFields
    <3>. QED
        BY <2>3, <3>1 DEF Transitions, PlainEvents, CapturedStates
  <2>4. ASSUME NEW e \in StripeEvents, RelayDone(e), e.kind = "succeeded", e.payment = p
        PROVE  CaptureTransfer(p, 1, Amount) \subseteq ledger'
    BY <2>4, CaptureInserted DEF RelayDone, HandleSucceeded
  <2>5. ASSUME NEW a \in Admins, CaptureTx(a), requests[a].payment = p
        PROVE  CaptureTransfer(p, 1, Amount) \subseteq ledger'
    BY <2>5, CaptureInserted DEF CaptureTx
  <2>6. ASSUME NEW a \in Admins, RefundCommits(row, requests[a].amount)
        PROVE  FALSE
    BY <1>3, <2>6 DEF RefundCommits, RefundEvent, IsAllowed, Transitions, CapturedStates
  <2>. QED
    BY <2>2, <2>3, <2>4, <2>5, <2>6, RowStepLemma DEF RowStep
<1>. QED
    BY <1>2, <1>3

LedgerInv == Informed /\ LedgerReal /\ CapturedInLedger

LEMMA LedgerInit == Init => LedgerInv
<1>. SUFFICES ASSUME Init PROVE LedgerInv
    OBVIOUS
<1>1. Informed
    BY DEF Init, Informed, Recorded, Idle
<1>2. LedgerReal
    BY DEF Init, LedgerReal
<1>3. CapturedInLedger
    BY DEF Init, CapturedInLedger, CapturedStates
<1>. QED
    BY <1>1, <1>2, <1>3 DEF LedgerInv

LEMMA LedgerInvHolds == Spec => []LedgerInv
<1>1. TypeInv /\ LedgerInv /\ [Next]_vars => LedgerInv'
    BY InformedStep, LedgerRealStep, CapturedStep DEF LedgerInv
<1>. QED
    BY <1>1, LedgerInit, TypeInvHolds, PTL DEF Spec

(***************************************************************************)
(* The ledger never runs ahead of Stripe: every booked capture was         *)
(* collected and every booked refund was made, under the number and for    *)
(* the amount that are booked, also when requests race or are lost.        *)
(***************************************************************************)
THEOREM BookedCorrect == Spec => []BookedIsReal
<1>1. TypeInv /\ LedgerInv => BookedIsReal
  <2>. SUFFICES ASSUME TypeInv, LedgerInv, NEW p \in Payments
                PROVE  /\ Booked(ledger, p, "capture") # {} => stripe[p].status = "succeeded"
                       /\ \A e \in Booked(ledger, p, "refund") :
                              [seq |-> e.transfer[3], amount |-> e.amount] \in stripe[p].refunds
    BY DEF BookedIsReal
  <2>1. ASSUME NEW e \in Booked(ledger, p, "capture") PROVE stripe[p].status = "succeeded"
    BY <2>1 DEF LedgerInv, LedgerReal, Booked, CaptureTransfer, RefundTransfer, Entry
  <2>2. ASSUME NEW e \in Booked(ledger, p, "refund")
        PROVE  [seq |-> e.transfer[3], amount |-> e.amount] \in stripe[p].refunds
    <3>0. PICK q \in Payments : \E f \in stripe[q].refunds : e \in RefundTransfer(q, f.seq, f.amount)
        BY <2>2 DEF LedgerInv, LedgerReal, Booked, CaptureTransfer, Entry
    <3>1. PICK f \in stripe[q].refunds : e \in RefundTransfer(q, f.seq, f.amount)
        BY <3>0
    <3>2. e.transfer = <<q, "refund", f.seq>> /\ e.amount = f.amount
        BY <3>1 DEF RefundTransfer, Entry
    <3>3. q = p
        BY <2>2, <3>2 DEF Booked
    <3>4. f = [seq |-> f.seq, amount |-> f.amount]
        BY DEF TypeInv, TypeOK, Intents, StripeRefunds
    <3>. QED
        BY <3>2, <3>3, <3>4
  <2>. QED
    BY <2>1, <2>2
<1>. QED
    BY <1>1, TypeInvHolds, LedgerInvHolds, PTL

(***************************************************************************)
(* A payment that reached captured has its capture in the ledger, once and *)
(* for the whole price, whichever of the relay and an administrator booked *)
(* it, and keeps it through its refunds.                                   *)
(***************************************************************************)
THEOREM CapturedCorrect == Spec => []CapturedIsBooked
<1>1. LedgerInv => CapturedIsBooked
  <2>. SUFFICES ASSUME LedgerInv, NEW p \in Payments, payments[p].state \in CapturedStates
                PROVE  /\ CaptureBooked(p)
                       /\ Booked(ledger, p, "capture") = CaptureTransfer(p, 1, Amount)
    BY DEF CapturedIsBooked, CapturedStates
  <2>1. CaptureBooked(p)
    BY DEF LedgerInv, CapturedInLedger
  <2>2. CaptureTransfer(p, 1, Amount) \subseteq Booked(ledger, p, "capture")
    BY <2>1 DEF CaptureBooked, Booked, CaptureTransfer, Entry
  <2>3. ASSUME NEW e \in Booked(ledger, p, "capture")
        PROVE  e \in CaptureTransfer(p, 1, Amount)
    BY <2>3 DEF LedgerInv, LedgerReal, Booked, CaptureTransfer, RefundTransfer, Entry
  <2>. QED
    BY <2>1, <2>2, <2>3
<1>. QED
    BY <1>1, LedgerInvHolds, PTL

=============================================================================
