---------------------------- MODULE RefundProofs ----------------------------
(***************************************************************************)
(* Theorems about the books of Settlement: the numbers of refunds, the     *)
(* balance of the ledger, what the ledger, payments.refunded_jpy, the      *)
(* audit log and Stripe say was refunded, and what the reconciliation      *)
(* finds, for any number of payments, requests, amounts and lost requests. *)
(***************************************************************************)
EXTENDS MCSettlement, SettlementProofs, Sums

\* The unique index on (transfer_id, side).
OneRowPerKey ==
    \A d, e \in ledger : d.transfer = e.transfer /\ d.side = e.side => d = e

\* A transfer is booked with both rows.
BothSides ==
    \A e \in ledger :
        \/ \E p \in Payments :
               e \in CaptureTransfer(p, 1, Amount) /\ CaptureTransfer(p, 1, Amount) \subseteq ledger
        \/ \E p \in Payments, n \in Nat, amount \in Nat :
               e \in RefundTransfer(p, n, amount) /\ RefundTransfer(p, n, amount) \subseteq ledger

\* The number of the next refund of a payment.
NextNumber(p) == 1 + Cardinality(RefundDebits(ledger, p))

\* Refunds are numbered without gaps and nobody is more than one number ahead.
Numbered ==
    /\ \A p \in Payments :
          /\ RefundSeqs(p) = 1 .. Cardinality(RefundDebits(ledger, p))
          /\ \A f \in stripe[p].refunds : f.seq \in 1 .. NextNumber(p)
    /\ \A a \in Admins :
          requests[a].step \in {"refund_stripe", "refund_tx"} =>
              requests[a].seq \in 1 .. NextNumber(requests[a].payment)

\* Stripe makes one refund per number, for a real amount.
StripeRefundsOK ==
    \A p \in Payments :
        /\ IsFiniteSet(stripe[p].refunds)
        /\ \A f \in stripe[p].refunds : f.amount > 0
        /\ \A f, g \in stripe[p].refunds : f.seq = g.seq => f = g

\* What Stripe paid back is booked, or is a refund the ledger does not have.
PaidBackIsKnown ==
    \A p \in Payments :
        stripe[p].refunded = Total(RefundDebits(ledger, p)) + Total(UnbookedRefunds(p))

\* A refund is counted in refunded_jpy when it is booked.
BookedIsCounted ==
    \A p \in Payments : Total(RefundDebits(ledger, p)) <= payments[p].refunded

BusyIsFinite == IsFiniteSet({ a \in Admins : requests[a].step # "idle" })

\* A payment that saw no race has one refund under way at most, which has the next number.
LoneNumbered ==
    \A p \in Payments \ raced : \A a \in Refunding(p) :
        /\ \A b \in Refunding(p) : b = a
        /\ requests[a].step # "refund_seq" => requests[a].seq = NextNumber(p)

ReceivableRows(side) == { e \in ledger : e.account = "psp_receivable" /\ e.side = side }

\* The receivable account has the booked captures as debits and the booked refunds as credits.
ReceivableIsSum ==
    /\ Total(ReceivableRows("debit"))
         = SumFunction([p \in Payments |-> IF CaptureBooked(p) THEN Amount ELSE 0])
    /\ Total(ReceivableRows("credit"))
         = SumFunction([p \in Payments |-> Total(RefundDebits(ledger, p))])

-----------------------------------------------------------------------------
(* Totals of rows.                                                         *)

LEMMA TotalEmpty == Total({}) = 0
<1>. DEFINE w == [e \in {} |-> e.amount]
<1>1. DOMAIN w = {}
    OBVIOUS
<1>. QED
    BY <1>1, SumEmpty DEF Total, SumFunction

LEMMA TotalAdd ==
    ASSUME NEW rows, IsFiniteSet(rows), NEW r, r \notin rows,
           \A e \in rows \cup {r} : e.amount \in Nat
    PROVE  Total(rows \cup {r}) = Total(rows) + r.amount
<1>. DEFINE v == [e \in rows |-> e.amount]
            w == [e \in rows \cup {r} |-> e.amount]
<1>1. Total(rows) = SumFunctionOnSet(v, rows)
    BY DEF Total, SumFunction
<1>2. Total(rows \cup {r}) = SumFunctionOnSet(w, rows \cup {r})
    BY DEF Total, SumFunction
<1>3. /\ \A e \in rows : v[e] = w[e] /\ v[e] \in Int
      /\ \A e \in rows \cup {r} : w[e] \in Int
      /\ w[r] = r.amount /\ w[r] \in Int
    OBVIOUS
<1>. HIDE DEF v, w
<1>4. SumFunctionOnSet(v, rows) = SumFunctionOnSet(w, rows)
    BY <1>3, SumAgree
<1>5. SumFunctionOnSet(w, rows \cup {r}) = w[r] + SumFunctionOnSet(w, rows)
    BY <1>3, SumAdd
<1>6. SumFunctionOnSet(w, rows) \in Int
    BY <1>3, SumInt
<1>. QED
    BY <1>1, <1>2, <1>3, <1>4, <1>5, <1>6

LEMMA TotalNat ==
    ASSUME NEW rows, IsFiniteSet(rows), \A e \in rows : e.amount \in Nat
    PROVE  /\ Total(rows) \in Nat
           /\ \A e \in rows : e.amount <= Total(rows)
<1>. DEFINE v == [e \in rows |-> e.amount]
<1>1. Total(rows) = SumFunctionOnSet(v, rows)
    BY DEF Total, SumFunction
<1>2. \A e \in rows : v[e] = e.amount /\ v[e] \in Nat
    OBVIOUS
<1>. HIDE DEF v
<1>. QED
    BY <1>1, <1>2, SumNat

LEMMA TotalOne ==
    ASSUME NEW r, r.amount \in Nat
    PROVE  Total({r}) = r.amount
<1>1. IsFiniteSet({}) /\ {} \cup {r} = {r}
    BY FS_EmptySet
<1>2. Total({} \cup {r}) = Total({}) + r.amount
    BY <1>1, TotalAdd
<1>. QED
    BY <1>1, <1>2, TotalEmpty

-----------------------------------------------------------------------------
(* What an insertion does to the rows of refunds.                          *)

Debit(p, n, amount) == Entry(p, "refund", n, "refunds", "debit", amount)

\* A debit of the refunds account is the first row of a booked refund.
LEMMA DebitBooked ==
    ASSUME TypeInv, BothSides, NEW p \in Payments, NEW e \in RefundDebits(ledger, p)
    PROVE  /\ e.transfer[3] \in Nat /\ e.amount \in Nat
           /\ e = Debit(p, e.transfer[3], e.amount)
           /\ RefundTransfer(p, e.transfer[3], e.amount) \subseteq ledger
<1>1. e \in ledger /\ e.transfer[1] = p /\ e.account = "refunds" /\ e.side = "debit"
    BY DEF RefundDebits
<1>2. PICK q \in Payments, n \in Nat, amount \in Nat :
          e \in RefundTransfer(q, n, amount) /\ RefundTransfer(q, n, amount) \subseteq ledger
  <2>1. \A q : e \notin CaptureTransfer(q, 1, Amount)
    BY <1>1 DEF CaptureTransfer, Entry
  <2>. QED
    BY <1>1, <2>1 DEF BothSides
<1>3. e = Debit(q, n, amount)
    BY <1>1, <1>2 DEF RefundTransfer, Entry, Debit
<1>4. e.transfer = <<q, "refund", n>> /\ e.amount = amount
    BY <1>3 DEF Debit, Entry
<1>5. q = p /\ e.transfer[3] = n
    BY <1>1, <1>4
<1>. QED
    BY <1>2, <1>3, <1>4, <1>5

\* A refund whose number is booked inserts nothing, any other both its rows.
LEMMA RefundInsert ==
    ASSUME TypeInv, BothSides, OneRowPerKey,
           NEW p \in Payments, NEW n \in Nat, NEW amount \in Nat
    PROVE  Insert(ledger, RefundTransfer(p, n, amount))
             = IF n \in RefundSeqs(p) THEN ledger ELSE ledger \cup RefundTransfer(p, n, amount)
<1>. DEFINE T == RefundTransfer(p, n, amount)
<1>1. \A r \in T : r.transfer = <<p, "refund", n>> /\ r.side \in {"debit", "credit"}
    BY DEF RefundTransfer, Entry
<1>2. CASE n \in RefundSeqs(p)
  <2>1. PICK e \in RefundDebits(ledger, p) : e.transfer[3] = n
    BY <1>2 DEF RefundSeqs
  <2>2. RefundTransfer(p, n, e.amount) \subseteq ledger
    BY <2>1, DebitBooked
  <2>3. \A r \in T : \E d \in RefundTransfer(p, n, e.amount) :
            d.transfer = r.transfer /\ d.side = r.side
    BY DEF RefundTransfer, Entry
  <2>. QED
    BY <1>2, <2>2, <2>3 DEF Insert
<1>3. CASE n \notin RefundSeqs(p)
  <2>1. ASSUME NEW d \in ledger, d.transfer = <<p, "refund", n>>
        PROVE  FALSE
    <3>1. PICK q \in Payments, m \in Nat, k \in Nat :
              d \in RefundTransfer(q, m, k) /\ RefundTransfer(q, m, k) \subseteq ledger
      <4>1. \A q : d \notin CaptureTransfer(q, 1, Amount)
        BY <2>1 DEF CaptureTransfer, Entry
      <4>. QED
        BY <2>1, <4>1 DEF BothSides
    <3>2. d.transfer = <<q, "refund", m>>
        BY <3>1 DEF RefundTransfer, Entry
    <3>3. q = p /\ m = n
        BY <2>1, <3>2
    <3>. DEFINE b == Debit(p, n, k)
    <3>4. b \in ledger
        BY <3>1, <3>3 DEF RefundTransfer, Debit
    <3>5. b.transfer = <<p, "refund", n>> /\ b.account = "refunds" /\ b.side = "debit"
        BY DEF Debit, Entry
    <3>. HIDE DEF b
    <3>6. b \in RefundDebits(ledger, p) /\ b.transfer[3] = n
        BY <3>4, <3>5 DEF RefundDebits
    <3>. QED
        BY <1>3, <3>6 DEF RefundSeqs
  <2>. QED
    BY <1>1, <1>3, <2>1 DEF Insert
<1>. QED
    BY <1>2, <1>3

\* A capture brings no debit of the refunds account.
LEMMA CaptureDebits ==
    ASSUME NEW p, NEW q, NEW n, NEW amount
    PROVE  RefundDebits(Insert(ledger, CaptureTransfer(p, n, amount)), q) = RefundDebits(ledger, q)
BY DEF Insert, CaptureTransfer, Entry, RefundDebits

LEMMA RefundDebitsAdd ==
    ASSUME NEW p, NEW n, NEW amount, ledger' = ledger \cup RefundTransfer(p, n, amount)
    PROVE  /\ RefundDebits(ledger', p) = RefundDebits(ledger, p) \cup {Debit(p, n, amount)}
           /\ \A q : q # p => RefundDebits(ledger', q) = RefundDebits(ledger, q)
<1>. DEFINE d == Debit(p, n, amount)
            c == Entry(p, "refund", n, "psp_receivable", "credit", amount)
<1>1. /\ d.transfer = <<p, "refund", n>> /\ d.account = "refunds" /\ d.side = "debit"
      /\ c.account # "refunds"
    BY DEF Debit, Entry
<1>2. d.transfer[1] = p
    BY <1>1
<1>3. RefundTransfer(p, n, amount) = {d, c}
    BY DEF RefundTransfer, Debit
<1>. HIDE DEF d, c
<1>4. ledger' = ledger \cup {d, c}
    BY <1>3
<1>5. RefundDebits(ledger', p) = RefundDebits(ledger, p) \cup {d}
    BY <1>1, <1>2, <1>4 DEF RefundDebits
<1>6. ASSUME NEW q, q # p
      PROVE  RefundDebits(ledger', q) = RefundDebits(ledger, q)
    BY <1>1, <1>2, <1>4, <1>6 DEF RefundDebits
<1>. QED
    BY <1>5, <1>6 DEF d

-----------------------------------------------------------------------------
(* The steps that touch the books.                                         *)

\* A step that neither numbers, makes nor books a refund.
NoRefund ==
    /\ \A p \in Payments : /\ payments'[p].refunded = payments[p].refunded
                           /\ stripe'[p].refunds = stripe[p].refunds
                           /\ stripe'[p].refunded = stripe[p].refunded
    /\ \/ ledger' = ledger
       \/ \E p \in Payments : ledger' = Insert(ledger, CaptureTransfer(p, 1, Amount))
    /\ \A a \in Admins : \/ requests'[a] = requests[a]
                         \/ requests'[a].step \notin {"refund_stripe", "refund_tx"}
    /\ \/ audit' = audit
       \/ \E row \in AuditRows : row.action = "capture" /\ audit' = Append(audit, row)

LEMMA RowRefunded ==
    ASSUME TypeInv, [Next]_vars, NEW p \in Payments
    PROVE  \/ payments'[p].refunded = payments[p].refunded
           \/ \E a \in Admins : RefundTx(a)
<1>1. payments[p] \in PaymentRows
    BY DEF TypeInv, TypeOK
<1>2. Settled(payments[p]).refunded = payments[p].refunded
  <2>1. "AuthorizeSucceeded" \in Events /\ "webhook" \in Actors
    BY DEF Events, Actors
  <2>2. AppliedIfAllowed(payments[p], "AuthorizeSucceeded", "webhook") \in PaymentRows
    BY <1>1, <2>1, AppliedIfAllowedType
  <2>3. \A row \in PaymentRows : \A event : AppliedIfAllowed(row, event, "webhook").refunded = row.refunded
    BY MovedFields DEF AppliedIfAllowed, Applied
  <2>. QED
    BY <1>1, <2>2, <2>3 DEF Settled
<1>3. Applied(payments[p], "Capture", "admin").refunded = payments[p].refunded
    BY <1>1, MovedFields DEF Applied
<1>4. ASSUME NEW event \in PlainEvents, NEW to \in States, NEW actor \in Actors,
             payments'[p] = Moved(payments[p], payments[p].state, event, to, actor)
      PROVE  payments'[p].refunded = payments[p].refunded
    BY <1>1, <1>4, MovedFields
<1>5. CASE payments'[p] = payments[p]
    BY <1>5
<1>6. CASE payments'[p] = Settled(payments[p])
    BY <1>2, <1>6
<1>7. CASE payments'[p] = Applied(payments[p], "Capture", "admin")
    BY <1>3, <1>7
<1>. QED
    BY <1>4, <1>5, <1>6, <1>7, RowStepLemma DEF RowStep

LEMMA StripeRefunded ==
    ASSUME TypeInv, [Next]_vars, NEW p \in Payments
    PROVE  \/ stripe'[p].refunds = stripe[p].refunds /\ stripe'[p].refunded = stripe[p].refunded
           \/ \E a \in Admins : RefundAtStripe(a)
<1>. USE DEF TypeInv, TypeOK
<1>1. CASE stripe' = stripe
    BY <1>1
<1>2. ASSUME NEW q \in Payments, NEW from, NEW kind \in Kinds,
             NEW status \in {"requires_payment", "requires_capture", "succeeded", "canceled"},
             StripeMoves(q, from, status, kind)
      PROVE  stripe'[p].refunds = stripe[p].refunds /\ stripe'[p].refunded = stripe[p].refunded
  <2>1. stripe' = [stripe EXCEPT ![q] = Reported(stripe[q], status, kind)]
    BY <1>2 DEF StripeMoves
  <2>2. /\ Reported(stripe[q], status, kind).refunds = stripe[q].refunds
        /\ Reported(stripe[q], status, kind).refunded = stripe[q].refunded
    <3>1. stripe[q] \in Intents
        OBVIOUS
    <3>. QED
        BY <3>1 DEF Reported, Intents
  <2>. QED
    BY <2>1, <2>2
<1>3. ASSUME NEW a \in Admins, CaptureAtStripe(a)
      PROVE  stripe'[p].refunds = stripe[p].refunds /\ stripe'[p].refunded = stripe[p].refunded
    BY <1>3, ReportedType DEF CaptureAtStripe, Kinds
<1>4. ASSUME NEW q \in Payments, CustomerAuthorizes(q) \/ CustomerPays(q)
                                 \/ CustomerDeclined(q) \/ StripeCancels(q)
      PROVE  stripe'[p].refunds = stripe[p].refunds /\ stripe'[p].refunded = stripe[p].refunded
    BY <1>2, <1>4
       DEF CustomerAuthorizes, CustomerPays, CustomerDeclined, StripeCancels, Kinds
<1>. QED
    BY <1>1, <1>3, <1>4
       DEF Next, vars, Deliver, RelayDone, RelayRetries, Expire, CaptureCheck, CaptureRefused,
           CaptureTx, CaptureTxRollback, RefundCheck, RefundSeq, RefundRefused, RefundTx,
           RefundTxRollback, Abandon

\* A refund gets its number and reaches its transaction in steps of its own.
LEMMA RequestRefunding ==
    ASSUME TypeInv, [Next]_vars, NEW a \in Admins
    PROVE  \/ requests'[a] = requests[a]
           \/ requests'[a].step \notin {"refund_stripe", "refund_tx"}
           \/ RefundSeq(a) \/ RefundAtStripe(a)
<1>. USE DEF TypeInv, TypeOK
<1>1. CASE requests' = requests
    BY <1>1
<1>2. ASSUME NEW b \in Admins, requests' = [requests EXCEPT ![b] = Idle]
      PROVE  requests'[a] = requests[a] \/ requests'[a].step = "idle"
    BY <1>2 DEF Idle
<1>3. ASSUME NEW b \in Admins, RefundSeq(b) \/ RefundAtStripe(b)
      PROVE  requests'[a] = requests[a] \/ RefundSeq(a) \/ RefundAtStripe(a)
    BY <1>3 DEF RefundSeq, RefundAtStripe
<1>4. ASSUME NEW b \in Admins, NEW p \in Payments, CaptureCheck(b, p)
      PROVE  requests'[a] = requests[a] \/ requests'[a].step = "capture_stripe"
    BY <1>4 DEF CaptureCheck, Idle
<1>5. ASSUME NEW b \in Admins, NEW p \in Payments, NEW amount \in RefundAmounts,
             RefundCheck(b, p, amount)
      PROVE  requests'[a] = requests[a] \/ requests'[a].step = "refund_seq"
    BY <1>5 DEF RefundCheck
<1>6. ASSUME NEW b \in Admins, CaptureAtStripe(b)
      PROVE  requests'[a] = requests[a] \/ requests'[a].step = "capture_tx"
    BY <1>6 DEF CaptureAtStripe, Requests
<1>. QED
    BY <1>1, <1>2, <1>3, <1>4, <1>5, <1>6
       DEF Next, vars, CustomerAuthorizes, CustomerPays, CustomerDeclined, StripeCancels,
           StripeMoves, Deliver, RelayDone, RelayRetries, Expire, CaptureRefused, CaptureTx,
           CaptureTxRollback, RefundRefused, RefundTx, RefundTxRollback, Abandon

LEMMA LedgerAudit ==
    ASSUME TypeInv, [Next]_vars
    PROVE  \/ /\ \/ ledger' = ledger
                 \/ \E p \in Payments : ledger' = Insert(ledger, CaptureTransfer(p, 1, Amount))
              /\ \/ audit' = audit
                 \/ \E row \in AuditRows : row.action = "capture" /\ audit' = Append(audit, row)
           \/ \E a \in Admins : RefundTx(a)
<1>1. CASE ledger' = ledger /\ audit' = audit
    BY <1>1
<1>2. ASSUME NEW e \in StripeEvents, RelayDone(e)
      PROVE  /\ \/ ledger' = ledger
                \/ \E p \in Payments : ledger' = Insert(ledger, CaptureTransfer(p, 1, Amount))
             /\ audit' = audit
    BY <1>2 DEF RelayDone, HandleSucceeded, HandleOther, StripeEvents
<1>3. ASSUME NEW a \in Admins, CaptureTx(a)
      PROVE  /\ \E p \in Payments : ledger' = Insert(ledger, CaptureTransfer(p, 1, Amount))
             /\ \E row \in AuditRows : row.action = "capture" /\ audit' = Append(audit, row)
  <2>1. requests[a].payment \in Payments
    BY <1>3 DEF CaptureTx, TypeInv, RequestsOK
  <2>. DEFINE row == [action |-> "capture", payment |-> requests[a].payment,
                      amount |-> Amount, seq |-> 0]
  <2>2. row \in AuditRows /\ row.action = "capture"
    BY <2>1, ConstantsAssumption DEF AuditRows
  <2>3. audit' = Append(audit, row)
    BY <1>3 DEF CaptureTx
  <2>. HIDE DEF row
  <2>4. ledger' = Insert(ledger, CaptureTransfer(requests[a].payment, 1, Amount))
    BY <1>3 DEF CaptureTx
  <2>. QED
    BY <2>1, <2>2, <2>3, <2>4
<1>. QED
    BY <1>1, <1>2, <1>3
       DEF Next, vars, CustomerAuthorizes, CustomerPays, CustomerDeclined, StripeCancels,
           StripeMoves, Deliver, RelayRetries, Expire, CaptureCheck, CaptureAtStripe,
           CaptureRefused, CaptureTxRollback, RefundCheck, RefundSeq, RefundAtStripe,
           RefundRefused, RefundTxRollback, Abandon

\* The books change only by refunds and by captures that are inserted.
LEMMA BooksStep ==
    ASSUME TypeInv, [Next]_vars
    PROVE  NoRefund \/ \E a \in Admins : RefundSeq(a) \/ RefundAtStripe(a) \/ RefundTx(a)
BY RowRefunded, StripeRefunded, RequestRefunding, LedgerAudit DEF NoRefund

\* Likewise for a capture, which is number 1 and for the price.
LEMMA CaptureInsert ==
    ASSUME BothSides, NEW p \in Payments
    PROVE  Insert(ledger, CaptureTransfer(p, 1, Amount))
             = IF CaptureBooked(p) THEN ledger ELSE ledger \cup CaptureTransfer(p, 1, Amount)
<1>. DEFINE T == CaptureTransfer(p, 1, Amount)
<1>1. \A r \in T : r.transfer = <<p, "capture", 1>>
    BY DEF CaptureTransfer, Entry
<1>2. CASE CaptureBooked(p)
  <2>1. T \subseteq ledger
    BY <1>2 DEF CaptureBooked
  <2>. QED
    BY <1>2, <2>1 DEF Insert
<1>3. CASE ~CaptureBooked(p)
  <2>1. ASSUME NEW d \in ledger, d.transfer = <<p, "capture", 1>>
        PROVE  FALSE
    <3>1. PICK q \in Payments :
              d \in CaptureTransfer(q, 1, Amount) /\ CaptureTransfer(q, 1, Amount) \subseteq ledger
      <4>1. \A q, n, amount : d \notin RefundTransfer(q, n, amount)
        BY <2>1 DEF RefundTransfer, Entry
      <4>. QED
        BY <2>1, <4>1 DEF BothSides
    <3>2. d.transfer = <<q, "capture", 1>>
        BY <3>1 DEF CaptureTransfer, Entry
    <3>3. q = p
        BY <2>1, <3>2
    <3>. QED
        BY <1>3, <3>1, <3>3 DEF CaptureBooked
  <2>. QED
    BY <1>1, <1>3, <2>1 DEF Insert
<1>. QED
    BY <1>2, <1>3

RowsInv == TypeInv /\ Informed /\ OneRowPerKey /\ BothSides

\* What a committed refund writes.
LEMMA RefundTxEffect ==
    ASSUME RowsInv, NEW a \in Admins, RefundTx(a)
    PROVE  LET p == requests[a].payment
               n == requests[a].seq
               amount == requests[a].amount
           IN  /\ requests[a].step = "refund_tx"
               /\ p \in Payments /\ n \in Nat /\ amount \in Nat
               /\ [seq |-> n, amount |-> amount] \in stripe[p].refunds
               /\ payments'[p].refunded = payments[p].refunded + amount
               /\ \A q \in Payments : q # p => payments'[q] = payments[q]
               /\ ledger' = IF n \in RefundSeqs(p) THEN ledger
                            ELSE ledger \cup RefundTransfer(p, n, amount)
               /\ stripe' = stripe
               /\ requests' = [requests EXCEPT ![a] = Idle]
               /\ audit' = Append(audit, [action |-> "refund", payment |-> p,
                                          amount |-> amount, seq |-> n])
<1>. DEFINE p == requests[a].payment
            n == requests[a].seq
            amount == requests[a].amount
            row == payments[p]
            total == row.refunded + amount
            paid == [row EXCEPT !.refunded = total]
<1>1. requests[a].step = "refund_tx" /\ p \in Payments /\ n \in Nat /\ amount \in Nat
      /\ row \in PaymentRows
    BY DEF RefundTx, RowsInv, TypeInv, TypeOK, RequestsOK, Requests
<1>2. [seq |-> n, amount |-> amount] \in stripe[p].refunds
    BY <1>1 DEF RowsInv, Informed
<1>3. payments' = [payments EXCEPT ![p] = Applied(paid, RefundEvent(total), "admin")]
    BY DEF RefundTx
<1>4. paid \in PaymentRows /\ paid.refunded = total
    BY <1>1, RefundedRowType DEF RefundTx, PaymentRows
<1>5. Applied(paid, RefundEvent(total), "admin").refunded = total
  <2>1. \A r \in PaymentRows : \A event : Applied(r, event, "admin").refunded = r.refunded
    BY MovedFields DEF Applied
  <2>. HIDE DEF paid, total
  <2>. QED
    BY <1>4, <2>1
<1>6. payments'[p].refunded = total /\ \A q \in Payments : q # p => payments'[q] = payments[q]
    BY <1>1, <1>3, <1>5 DEF RowsInv, TypeInv, TypeOK
<1>7. ledger' = Insert(ledger, RefundTransfer(p, n, amount))
    BY DEF RefundTx, RefundBooked
<1>8. ledger' = IF n \in RefundSeqs(p) THEN ledger ELSE ledger \cup RefundTransfer(p, n, amount)
    BY <1>1, <1>7, RefundInsert DEF RowsInv
<1>9. /\ stripe' = stripe
      /\ requests' = [requests EXCEPT ![a] = Idle]
      /\ audit' = Append(audit, [action |-> "refund", payment |-> p, amount |-> amount, seq |-> n])
    BY DEF RefundTx, RefundAudited
<1>. QED
    BY <1>1, <1>2, <1>6, <1>8, <1>9

\* The ledger only ever gains whole transfers whose number is new.
LEMMA LedgerGrows ==
    ASSUME RowsInv, [Next]_vars
    PROVE  \/ ledger' = ledger
           \/ \E p \in Payments : /\ ~CaptureBooked(p)
                                  /\ ledger' = ledger \cup CaptureTransfer(p, 1, Amount)
           \/ \E a \in Admins :
                 /\ RefundTx(a)
                 /\ requests[a].seq \notin RefundSeqs(requests[a].payment)
                 /\ ledger' = ledger \cup RefundTransfer(requests[a].payment, requests[a].seq,
                                                         requests[a].amount)
<1>1. CASE NoRefund
    BY <1>1, CaptureInsert DEF NoRefund, RowsInv
<1>2. ASSUME NEW a \in Admins, RefundSeq(a) \/ RefundAtStripe(a)
      PROVE  ledger' = ledger
    BY <1>2 DEF RefundSeq, RefundAtStripe
<1>3. ASSUME NEW a \in Admins, RefundTx(a), ledger' # ledger
      PROVE  /\ requests[a].seq \notin RefundSeqs(requests[a].payment)
             /\ ledger' = ledger \cup RefundTransfer(requests[a].payment, requests[a].seq,
                                                     requests[a].amount)
    BY <1>3, RefundTxEffect
<1>. QED
    BY <1>1, <1>2, <1>3, BooksStep DEF RowsInv

LEMMA BothSidesStep == RowsInv /\ [Next]_vars => BothSides'
<1>. SUFFICES ASSUME RowsInv, [Next]_vars PROVE BothSides'
    OBVIOUS
<1>1. BothSides
    BY DEF RowsInv
<1>2. CASE ledger' = ledger
    BY <1>1, <1>2 DEF BothSides
<1>3. ASSUME NEW p \in Payments, ledger' = ledger \cup CaptureTransfer(p, 1, Amount)
      PROVE  BothSides'
    BY <1>1, <1>3 DEF BothSides
<1>4. ASSUME NEW a \in Admins, RefundTx(a),
             ledger' = ledger \cup RefundTransfer(requests[a].payment, requests[a].seq,
                                                  requests[a].amount)
      PROVE  BothSides'
  <2>1. requests[a].payment \in Payments /\ requests[a].seq \in Nat /\ requests[a].amount \in Nat
    BY <1>4, RefundTxEffect
  <2>. QED
    BY <1>1, <1>4, <2>1 DEF BothSides
<1>. QED
    BY <1>2, <1>3, <1>4, LedgerGrows

LEMMA OneRowStep == RowsInv /\ [Next]_vars => OneRowPerKey'
<1>. SUFFICES ASSUME RowsInv, [Next]_vars PROVE OneRowPerKey'
    OBVIOUS
<1>1. OneRowPerKey
    BY DEF RowsInv
<1>2. ASSUME NEW x, NEW y, x.side # y.side, ledger' = Insert(ledger, {x, y})
      PROVE  OneRowPerKey'
    BY <1>1, <1>2 DEF OneRowPerKey, Insert
<1>3. ASSUME NEW p, NEW n, NEW amount,
             \/ ledger' = Insert(ledger, CaptureTransfer(p, n, amount))
             \/ ledger' = Insert(ledger, RefundTransfer(p, n, amount))
      PROVE  OneRowPerKey'
    BY <1>2, <1>3 DEF CaptureTransfer, RefundTransfer, Entry
<1>4. CASE ledger' = ledger
    BY <1>1, <1>4 DEF OneRowPerKey
<1>. QED
    BY <1>3, <1>4, LedgerStepLemma DEF LedgerStep, RowsInv

-----------------------------------------------------------------------------
(* The numbers of refunds.                                                 *)

LEMMA QuietDebits ==
    ASSUME NoRefund, NEW p \in Payments
    PROVE  /\ RefundDebits(ledger', p) = RefundDebits(ledger, p)
           /\ RefundSeqs(p)' = RefundSeqs(p)
           /\ NextNumber(p)' = NextNumber(p)
           /\ UnbookedRefunds(p)' = UnbookedRefunds(p)
<1>1. RefundDebits(ledger', p) = RefundDebits(ledger, p)
    BY CaptureDebits DEF NoRefund
<1>2. RefundSeqs(p)' = RefundSeqs(p)
    BY <1>1 DEF RefundSeqs
<1>3. stripe'[p].refunds = stripe[p].refunds
    BY DEF NoRefund
<1>4. UnbookedRefunds(p)' = UnbookedRefunds(p)
    BY <1>2, <1>3 DEF UnbookedRefunds
<1>. QED
    BY <1>1, <1>2, <1>4 DEF NextNumber

LEMMA DebitsFinite ==
    ASSUME TypeInv, BothSides, NEW p \in Payments
    PROVE  /\ IsFiniteSet(RefundDebits(ledger, p))
           /\ Cardinality(RefundDebits(ledger, p)) \in Nat
           /\ NextNumber(p) \in Nat
           /\ \A e \in RefundDebits(ledger, p) : e.amount \in Nat
           /\ Total(RefundDebits(ledger, p)) \in Nat
<1>1. IsFiniteSet(RefundDebits(ledger, p))
    BY FS_Subset DEF RefundDebits, TypeInv
<1>2. \A e \in RefundDebits(ledger, p) : e.amount \in Nat
    BY DEF RefundDebits, TypeInv, TypeOK, LedgerRows
<1>. QED
    BY <1>1, <1>2, FS_CardinalityType, TotalNat DEF NextNumber

\* What a newly booked refund does to the debits of every payment.
LEMMA DebitsGrow ==
    ASSUME TypeInv, BothSides, NEW p \in Payments, NEW n \in Nat, NEW amount \in Nat,
           n \notin RefundSeqs(p), ledger' = ledger \cup RefundTransfer(p, n, amount)
    PROVE  /\ RefundSeqs(p)' = RefundSeqs(p) \cup {n}
           /\ NextNumber(p)' = NextNumber(p) + 1
           /\ Cardinality(RefundDebits(ledger', p)) = Cardinality(RefundDebits(ledger, p)) + 1
           /\ Total(RefundDebits(ledger', p)) = Total(RefundDebits(ledger, p)) + amount
           /\ \A q \in Payments : q # p =>
                  /\ RefundDebits(ledger', q) = RefundDebits(ledger, q)
                  /\ RefundSeqs(q)' = RefundSeqs(q)
                  /\ NextNumber(q)' = NextNumber(q)
<1>. DEFINE d == Debit(p, n, amount)
            old == RefundDebits(ledger, p)
<1>1. d.transfer[3] = n /\ d.amount = amount
    BY DEF Debit, Entry
<1>2. RefundDebits(ledger', p) = old \cup {d}
    BY RefundDebitsAdd
<1>3. d \notin old
    BY <1>1 DEF RefundSeqs
<1>4. \A q : q # p => RefundDebits(ledger', q) = RefundDebits(ledger, q)
    BY RefundDebitsAdd
<1>5. IsFiniteSet(old) /\ Cardinality(old) \in Nat /\ \A e \in old : e.amount \in Nat
    BY DebitsFinite
<1>6. RefundSeqs(p)' = { e.transfer[3] : e \in old \cup {d} }
    BY <1>2 DEF RefundSeqs
<1>. HIDE DEF d
<1>7. RefundSeqs(p)' = RefundSeqs(p) \cup {n}
    BY <1>1, <1>6 DEF RefundSeqs
<1>. HIDE DEF old
<1>8. Cardinality(old \cup {d}) = Cardinality(old) + 1
    BY <1>3, <1>5, FS_AddElement
<1>9. Total(old \cup {d}) = Total(old) + amount
    BY <1>1, <1>3, <1>5, TotalAdd
<1>10. NextNumber(p)' = NextNumber(p) + 1
  <2>1. NextNumber(p)' = 1 + Cardinality(old \cup {d})
    BY <1>2 DEF NextNumber
  <2>2. NextNumber(p) = 1 + Cardinality(old)
    BY DEF NextNumber, old
  <2>. QED
    BY <1>5, <1>8, <2>1, <2>2
<1>11. \A q \in Payments : q # p => RefundSeqs(q)' = RefundSeqs(q) /\ NextNumber(q)' = NextNumber(q)
    BY <1>4 DEF RefundSeqs, NextNumber
<1>. QED
    BY <1>2, <1>4, <1>7, <1>8, <1>9, <1>10, <1>11 DEF old

NumberInv == RowsInv /\ Numbered

LEMMA NumberedStep == NumberInv /\ [Next]_vars => Numbered'
<1>. SUFFICES ASSUME NumberInv, [Next]_vars PROVE Numbered'
    OBVIOUS
<1>0. /\ RowsInv /\ TypeInv /\ BothSides
      /\ \A p \in Payments : /\ RefundSeqs(p) = 1 .. Cardinality(RefundDebits(ledger, p))
                             /\ \A f \in stripe[p].refunds : f.seq \in 1 .. NextNumber(p)
                             /\ Cardinality(RefundDebits(ledger, p)) \in Nat
                             /\ NextNumber(p) = Cardinality(RefundDebits(ledger, p)) + 1
      /\ \A a \in Admins : requests[a].step # "idle" => requests[a].payment \in Payments
      /\ \A a \in Admins : requests[a].step \in {"refund_stripe", "refund_tx"} =>
                               requests[a].seq \in 1 .. NextNumber(requests[a].payment)
    BY DebitsFinite DEF NumberInv, RowsInv, Numbered, TypeInv, RequestsOK, NextNumber
<1>1. CASE NoRefund
  <2>1. \A p \in Payments : /\ RefundDebits(ledger', p) = RefundDebits(ledger, p)
                            /\ RefundSeqs(p)' = RefundSeqs(p)
                            /\ NextNumber(p)' = NextNumber(p)
                            /\ stripe'[p].refunds = stripe[p].refunds
    BY <1>1, QuietDebits DEF NoRefund
  <2>2. \A a \in Admins : requests'[a].step \in {"refund_stripe", "refund_tx"} =>
            requests'[a] = requests[a] /\ requests[a].payment \in Payments
    BY <1>0, <1>1 DEF NoRefund
  <2>. QED
    BY <1>0, <2>1, <2>2 DEF Numbered
<1>2. ASSUME NEW a \in Admins, RefundSeq(a)
      PROVE  Numbered'
  <2>1. ledger' = ledger /\ stripe' = stripe
    BY <1>2 DEF RefundSeq
  <2>2. \A p : /\ RefundDebits(ledger', p) = RefundDebits(ledger, p)
               /\ RefundSeqs(p)' = RefundSeqs(p)
               /\ NextNumber(p)' = NextNumber(p)
    BY <2>1 DEF RefundSeqs, NextNumber
  <2>3. requests'[a].payment = requests[a].payment /\ requests[a].payment \in Payments
        /\ requests'[a].seq = NextNumber(requests[a].payment)
    BY <1>0, <1>2 DEF RefundSeq, NextNumber, TypeInv, TypeOK, Requests
  <2>4. \A b \in Admins : b # a => requests'[b] = requests[b]
    BY <1>0, <1>2 DEF RefundSeq, TypeInv, TypeOK
  <2>5. requests'[a].seq \in 1 .. NextNumber(requests[a].payment)
    BY <1>0, <2>3
  <2>. QED
    BY <1>0, <2>1, <2>2, <2>3, <2>4, <2>5 DEF Numbered
<1>3. ASSUME NEW a \in Admins, RefundAtStripe(a)
      PROVE  Numbered'
  <2>. DEFINE r == requests[a]
  <2>1. ledger' = ledger /\ r.payment \in Payments /\ r.seq \in 1 .. NextNumber(r.payment)
    BY <1>0, <1>3 DEF RefundAtStripe
  <2>2. \A p : /\ RefundDebits(ledger', p) = RefundDebits(ledger, p)
               /\ RefundSeqs(p)' = RefundSeqs(p)
               /\ NextNumber(p)' = NextNumber(p)
    BY <2>1 DEF RefundSeqs, NextNumber
  <2>3. \A p \in Payments :
            stripe'[p].refunds \subseteq stripe[p].refunds
                \cup (IF p = r.payment THEN {[seq |-> r.seq, amount |-> r.amount]} ELSE {})
    BY <1>0, <1>3, PaidBackType DEF RefundAtStripe, TypeInv, TypeOK, Requests
  <2>4. \A b \in Admins : requests'[b].step \in {"refund_stripe", "refund_tx"} =>
            /\ requests[b].step \in {"refund_stripe", "refund_tx"}
            /\ requests'[b].payment = requests[b].payment
            /\ requests'[b].seq = requests[b].seq
    BY <1>0, <1>3 DEF RefundAtStripe, TypeInv, TypeOK, Requests
  <2>5. \A p \in Payments : \A f \in stripe'[p].refunds : f.seq \in 1 .. NextNumber(p)
    BY <1>0, <2>1, <2>3
  <2>. QED
    BY <1>0, <2>2, <2>4, <2>5 DEF Numbered
<1>4. ASSUME NEW a \in Admins, RefundTx(a)
      PROVE  Numbered'
  <2>0. PICK p, n, amount :
            p = requests[a].payment /\ n = requests[a].seq /\ amount = requests[a].amount
    OBVIOUS
  <2>1. /\ p \in Payments /\ n \in Nat /\ amount \in Nat
        /\ requests[a].step = "refund_tx"
        /\ ledger' = IF n \in RefundSeqs(p) THEN ledger
                     ELSE ledger \cup RefundTransfer(p, n, amount)
        /\ stripe' = stripe
        /\ requests' = [requests EXCEPT ![a] = Idle]
    BY <1>0, <1>4, <2>0, RefundTxEffect
  <2>2. n \in 1 .. NextNumber(p)
    BY <1>0, <2>0, <2>1
  <2>3. \A b \in Admins : requests'[b].step \in {"refund_stripe", "refund_tx"} =>
            requests'[b] = requests[b]
    BY <1>0, <2>1 DEF TypeInv, TypeOK, Idle
  <2>4. CASE n \in RefundSeqs(p)
    <3>1. \A q : /\ RefundDebits(ledger', q) = RefundDebits(ledger, q)
                 /\ RefundSeqs(q)' = RefundSeqs(q)
                 /\ NextNumber(q)' = NextNumber(q)
        BY <2>1, <2>4 DEF RefundSeqs, NextNumber
    <3>. QED
        BY <1>0, <2>1, <2>3, <3>1 DEF Numbered
  <2>5. CASE n \notin RefundSeqs(p)
    <3>0. ledger' = ledger \cup RefundTransfer(p, n, amount)
        BY <2>1, <2>5
    <3>1. /\ RefundSeqs(p)' = RefundSeqs(p) \cup {n}
          /\ NextNumber(p)' = NextNumber(p) + 1
          /\ Cardinality(RefundDebits(ledger', p)) = Cardinality(RefundDebits(ledger, p)) + 1
          /\ Total(RefundDebits(ledger', p)) = Total(RefundDebits(ledger, p)) + amount
          /\ \A q \in Payments : q # p =>
                 /\ RefundDebits(ledger', q) = RefundDebits(ledger, q)
                 /\ RefundSeqs(q)' = RefundSeqs(q)
                 /\ NextNumber(q)' = NextNumber(q)
      <4>1. TypeInv /\ BothSides /\ p \in Payments /\ n \in Nat /\ amount \in Nat
        BY <1>0, <2>1
      <4>. QED
        BY <2>5, <3>0, <4>1, DebitsGrow
    <3>2. n = Cardinality(RefundDebits(ledger, p)) + 1
        BY <1>0, <2>1, <2>2, <2>5
    <3>3. RefundSeqs(p)' = 1 .. Cardinality(RefundDebits(ledger', p))
        BY <1>0, <2>1, <3>1, <3>2
    <3>4. \A q \in Payments : /\ RefundSeqs(q)' = 1 .. Cardinality(RefundDebits(ledger', q))
                              /\ NextNumber(q) \in Nat
                              /\ NextNumber(q)' \in {NextNumber(q), NextNumber(q) + 1}
      <4>. SUFFICES ASSUME NEW q \in Payments
                    PROVE  /\ RefundSeqs(q)' = 1 .. Cardinality(RefundDebits(ledger', q))
                           /\ NextNumber(q) \in Nat
                           /\ NextNumber(q)' \in {NextNumber(q), NextNumber(q) + 1}
        OBVIOUS
      <4>1. CASE q = p
        <5>1. /\ NextNumber(p) = Cardinality(RefundDebits(ledger, p)) + 1
              /\ Cardinality(RefundDebits(ledger, p)) \in Nat
            BY <1>0, <2>1
        <5>. QED
            BY <3>1, <3>3, <4>1, <5>1
      <4>2. CASE q # p
        BY <1>0, <3>1, <4>2
      <4>. QED
        BY <4>1, <4>2
    <3>5. \A q \in Payments : \A k : k \in 1 .. NextNumber(q) => k \in 1 .. NextNumber(q)'
        BY <3>4
    <3>. QED
        BY <1>0, <2>1, <2>3, <3>4, <3>5 DEF Numbered
  <2>. QED
    BY <2>4, <2>5
<1>. QED
    BY <1>0, <1>1, <1>2, <1>3, <1>4, BooksStep

-----------------------------------------------------------------------------
(* Stripe's refunds against the ledger's.                                  *)

LEMMA StripeRefundsStep ==
    TypeInv /\ AmountsPositive /\ StripeRefundsOK /\ [Next]_vars => StripeRefundsOK'
<1>. SUFFICES ASSUME TypeInv, AmountsPositive, StripeRefundsOK, [Next]_vars, NEW p \in Payments
              PROVE  /\ IsFiniteSet(stripe'[p].refunds)
                     /\ \A f \in stripe'[p].refunds : f.amount > 0
                     /\ \A f, g \in stripe'[p].refunds : f.seq = g.seq => f = g
    BY DEF StripeRefundsOK
<1>1. CASE stripe'[p].refunds = stripe[p].refunds
    BY <1>1 DEF StripeRefundsOK
<1>2. ASSUME NEW a \in Admins, RefundAtStripe(a), stripe'[p].refunds # stripe[p].refunds
      PROVE  /\ IsFiniteSet(stripe'[p].refunds)
             /\ \A f \in stripe'[p].refunds : f.amount > 0
             /\ \A f, g \in stripe'[p].refunds : f.seq = g.seq => f = g
  <2>. DEFINE r == requests[a]
              new == [seq |-> r.seq, amount |-> r.amount]
              old == stripe[p].refunds
  <2>1. r.payment = p /\ r.amount \in Nat \ {0} /\ r.seq \in Nat
    BY <1>2 DEF RefundAtStripe, TypeInv, TypeOK, Requests, AmountsPositive
  <2>2. /\ Refundable(stripe[p], r)
        /\ stripe'[p] = PaidBack(stripe[p], r)
    BY <1>2, <2>1 DEF RefundAtStripe, TypeInv, TypeOK
  <2>3. stripe'[p].refunds = old \cup {new}
    BY <2>1, <2>2, PaidBackType DEF TypeInv, TypeOK
  <2>4. \A f \in old : f.seq # new.seq
    BY <2>2 DEF Refundable
  <2>5. new.amount > 0
    BY <2>1
  <2>6. /\ IsFiniteSet(old)
        /\ \A f \in old : f.amount > 0
        /\ \A f, g \in old : f.seq = g.seq => f = g
    BY DEF StripeRefundsOK
  <2>. HIDE DEF new, old
  <2>7. IsFiniteSet(old \cup {new})
    BY <2>6, FS_AddElement
  <2>. QED
    BY <2>3, <2>4, <2>5, <2>6, <2>7
<1>. QED
    BY <1>1, <1>2, StripeRefunded

\* A booked refund is at Stripe under its number.
LEMMA BookedAtStripe ==
    ASSUME TypeInv, LedgerReal, BothSides, NEW p \in Payments, NEW e \in RefundDebits(ledger, p)
    PROVE  \E f \in stripe[p].refunds : f.seq = e.transfer[3] /\ f.amount = e.amount
<1>1. e \in ledger /\ e = Debit(p, e.transfer[3], e.amount)
    BY DebitBooked DEF RefundDebits
<1>2. e.transfer[1] = p /\ e.account = "refunds"
    BY DEF RefundDebits
<1>3. \A q : e \notin CaptureTransfer(q, 1, Amount)
    BY <1>2 DEF CaptureTransfer, Entry
<1>4. PICK q \in Payments : \E f \in stripe[q].refunds : e \in RefundTransfer(q, f.seq, f.amount)
    BY <1>1, <1>3 DEF LedgerReal
<1>5. PICK f \in stripe[q].refunds : e \in RefundTransfer(q, f.seq, f.amount)
    BY <1>4
<1>6. e.transfer = <<q, "refund", f.seq>> /\ e.amount = f.amount
    BY <1>5 DEF RefundTransfer, Entry
<1>7. q = p /\ e.transfer[3] = f.seq
    BY <1>2, <1>6
<1>. QED
    BY <1>5, <1>6, <1>7

LEMMA UnbookedFinite ==
    ASSUME TypeInv, StripeRefundsOK, NEW p \in Payments
    PROVE  /\ IsFiniteSet(UnbookedRefunds(p))
           /\ \A f \in UnbookedRefunds(p) : f.amount \in Nat
           /\ Total(UnbookedRefunds(p)) \in Nat
<1>1. IsFiniteSet(UnbookedRefunds(p))
    BY FS_Subset DEF StripeRefundsOK, UnbookedRefunds
<1>2. \A f \in UnbookedRefunds(p) : f.amount \in Nat
    BY DEF UnbookedRefunds, TypeInv, TypeOK, Intents, StripeRefunds
<1>. QED
    BY <1>1, <1>2, TotalNat

BooksInv ==
    /\ TypeInv /\ LedgerInv /\ AmountsPositive
    /\ OneRowPerKey /\ BothSides /\ Numbered
    /\ StripeRefundsOK /\ PaidBackIsKnown /\ BookedIsCounted

\* A refund at Stripe: everything it pays back is unbooked.
LEMMA PaidAtStripe ==
    ASSUME BooksInv, NEW a \in Admins, RefundAtStripe(a), NEW p \in Payments
    PROVE  stripe'[p].refunded = Total(RefundDebits(ledger', p)) + Total(UnbookedRefunds(p)')
<1>. DEFINE r == requests[a]
<1>0. ledger' = ledger /\ RefundSeqs(p)' = RefundSeqs(p)
    BY DEF RefundAtStripe, RefundSeqs
<1>1. stripe[p].refunded = Total(RefundDebits(ledger, p)) + Total(UnbookedRefunds(p))
    BY DEF BooksInv, PaidBackIsKnown
<1>2. CASE stripe'[p] = stripe[p]
  <2>1. UnbookedRefunds(p)' = UnbookedRefunds(p)
    BY <1>0, <1>2 DEF UnbookedRefunds
  <2>. QED
    BY <1>0, <1>1, <1>2, <2>1
<1>3. CASE stripe'[p] # stripe[p]
  <2>1. r.payment = p /\ r.amount \in Nat /\ r.seq \in Nat /\ stripe[p] \in Intents
    BY <1>3 DEF BooksInv, RefundAtStripe, TypeInv, TypeOK, Requests
  <2>2. Refundable(stripe[p], r) /\ stripe'[p] = PaidBack(stripe[p], r)
    BY <1>3, <2>1 DEF BooksInv, RefundAtStripe, TypeInv, TypeOK
  <2>. DEFINE new == [seq |-> r.seq, amount |-> r.amount]
              old == UnbookedRefunds(p)
  <2>3. stripe'[p].refunds = stripe[p].refunds \cup {new}
        /\ stripe'[p].refunded = stripe[p].refunded + r.amount
    BY <2>1, <2>2 DEF PaidBack, Intents
  <2>4. \A f \in stripe[p].refunds : f.seq # r.seq
    BY <2>2 DEF Refundable
  <2>5. r.seq \notin RefundSeqs(p)
    <3>. SUFFICES ASSUME NEW e \in RefundDebits(ledger, p), e.transfer[3] = r.seq
                  PROVE  FALSE
        BY DEF RefundSeqs
    <3>. QED
        BY <2>4, BookedAtStripe DEF BooksInv, LedgerInv
  <2>6. new.seq = r.seq /\ new.amount = r.amount
    OBVIOUS
  <2>. HIDE DEF new
  <2>7. UnbookedRefunds(p)' = old \cup {new} /\ new \notin old
    BY <1>0, <2>3, <2>4, <2>5, <2>6 DEF UnbookedRefunds
  <2>. HIDE DEF old
  <2>8. IsFiniteSet(old) /\ \A f \in old : f.amount \in Nat
    BY UnbookedFinite DEF BooksInv, old
  <2>9. Total(old \cup {new}) = Total(old) + r.amount
    BY <2>1, <2>6, <2>7, <2>8, TotalAdd
  <2>10. Total(old) \in Nat /\ Total(RefundDebits(ledger, p)) \in Nat
    BY <2>8, TotalNat, DebitsFinite DEF BooksInv
  <2>. QED
    BY <1>0, <1>1, <2>1, <2>3, <2>7, <2>9, <2>10 DEF old
<1>. QED
    BY <1>2, <1>3

\* A refund booked under a new number: what was unbooked is booked.
LEMMA PaidThenBooked ==
    ASSUME BooksInv, NEW p \in Payments, NEW n \in Nat, NEW amount \in Nat,
           n \notin RefundSeqs(p), [seq |-> n, amount |-> amount] \in stripe[p].refunds,
           ledger' = ledger \cup RefundTransfer(p, n, amount), stripe' = stripe
    PROVE  Total(UnbookedRefunds(p)) = Total(UnbookedRefunds(p)') + amount
<1>. DEFINE f == [seq |-> n, amount |-> amount]
            old == UnbookedRefunds(p)
            new == UnbookedRefunds(p)'
<1>1. RefundSeqs(p)' = RefundSeqs(p) \cup {n}
    BY DebitsGrow DEF BooksInv
<1>2. f.seq = n /\ f.amount = amount /\ f \in stripe[p].refunds
    OBVIOUS
<1>3. \A g \in stripe[p].refunds : g.seq = n => g = f
    BY <1>2 DEF BooksInv, StripeRefundsOK
<1>. HIDE DEF f
<1>4. old = new \cup {f} /\ f \notin new
    BY <1>1, <1>2, <1>3 DEF UnbookedRefunds
<1>5. IsFiniteSet(old) /\ \A g \in old : g.amount \in Nat
    BY UnbookedFinite DEF BooksInv
<1>. HIDE DEF old, new
<1>6. IsFiniteSet(new)
    BY <1>4, <1>5, FS_Subset
<1>7. Total(new \cup {f}) = Total(new) + f.amount
    BY <1>4, <1>5, <1>6, TotalAdd
<1>. QED
    BY <1>2, <1>4, <1>7 DEF old, new

LEMMA PaidBackStep == BooksInv /\ [Next]_vars => PaidBackIsKnown'
<1>. SUFFICES ASSUME BooksInv, [Next]_vars, NEW q \in Payments
              PROVE  stripe'[q].refunded = Total(RefundDebits(ledger', q)) + Total(UnbookedRefunds(q)')
    BY DEF PaidBackIsKnown
<1>0. /\ RowsInv
      /\ stripe[q].refunded = Total(RefundDebits(ledger, q)) + Total(UnbookedRefunds(q))
      /\ Total(RefundDebits(ledger, q)) \in Nat
    BY DebitsFinite DEF BooksInv, PaidBackIsKnown, RowsInv, LedgerInv
<1>1. CASE NoRefund
  <2>1. stripe'[q].refunded = stripe[q].refunded
    BY <1>1 DEF NoRefund
  <2>. QED
    BY <1>0, <1>1, <2>1, QuietDebits
<1>2. ASSUME NEW a \in Admins, RefundSeq(a)
      PROVE  stripe'[q].refunded = Total(RefundDebits(ledger', q)) + Total(UnbookedRefunds(q)')
  <2>1. ledger' = ledger /\ stripe' = stripe
    BY <1>2 DEF RefundSeq
  <2>2. UnbookedRefunds(q)' = UnbookedRefunds(q)
    BY <2>1 DEF UnbookedRefunds, RefundSeqs
  <2>. QED
    BY <1>0, <2>1, <2>2
<1>3. ASSUME NEW a \in Admins, RefundTx(a)
      PROVE  stripe'[q].refunded = Total(RefundDebits(ledger', q)) + Total(UnbookedRefunds(q)')
  <2>0. PICK p, n, amount :
            p = requests[a].payment /\ n = requests[a].seq /\ amount = requests[a].amount
    OBVIOUS
  <2>1. /\ p \in Payments /\ n \in Nat /\ amount \in Nat
        /\ [seq |-> n, amount |-> amount] \in stripe[p].refunds
        /\ ledger' = IF n \in RefundSeqs(p) THEN ledger
                     ELSE ledger \cup RefundTransfer(p, n, amount)
        /\ stripe' = stripe
    BY <1>0, <1>3, <2>0, RefundTxEffect
  <2>2. CASE n \in RefundSeqs(p)
    <3>1. ledger' = ledger /\ stripe' = stripe
        BY <2>1, <2>2
    <3>2. UnbookedRefunds(q)' = UnbookedRefunds(q)
        BY <3>1 DEF UnbookedRefunds, RefundSeqs
    <3>. QED
        BY <1>0, <3>1, <3>2
  <2>3. CASE n \notin RefundSeqs(p)
    <3>0. ledger' = ledger \cup RefundTransfer(p, n, amount)
        BY <2>1, <2>3
    <3>1. /\ Total(RefundDebits(ledger', p)) = Total(RefundDebits(ledger, p)) + amount
          /\ \A r \in Payments : r # p => /\ RefundDebits(ledger', r) = RefundDebits(ledger, r)
                                          /\ RefundSeqs(r)' = RefundSeqs(r)
        BY <2>1, <2>3, <3>0, DebitsGrow DEF BooksInv
    <3>2. CASE q = p
      <4>1. Total(UnbookedRefunds(p)) = Total(UnbookedRefunds(p)') + amount
        BY <2>1, <2>3, <3>0, PaidThenBooked
      <4>2. Total(UnbookedRefunds(p)') \in Nat
        <5>1. UnbookedRefunds(p)' \in SUBSET UnbookedRefunds(p)
            BY <2>1, <2>3, <3>0, DebitsGrow DEF BooksInv, UnbookedRefunds
        <5>2. IsFiniteSet(UnbookedRefunds(p)) /\ \A f \in UnbookedRefunds(p) : f.amount \in Nat
            BY <2>1, UnbookedFinite DEF BooksInv
        <5>3. IsFiniteSet(UnbookedRefunds(p)')
            BY <5>1, <5>2, FS_Subset
        <5>. QED
            BY <5>1, <5>2, <5>3, TotalNat
      <4>. QED
        BY <1>0, <2>1, <3>1, <3>2, <4>1, <4>2
    <3>3. CASE q # p
      <4>1. UnbookedRefunds(q)' = UnbookedRefunds(q) /\ RefundDebits(ledger', q) = RefundDebits(ledger, q)
        BY <2>1, <3>1, <3>3 DEF UnbookedRefunds
      <4>. QED
        BY <1>0, <2>1, <4>1
    <3>. QED
        BY <3>2, <3>3
  <2>. QED
    BY <2>2, <2>3
<1>. QED
    BY <1>1, <1>2, <1>3, PaidAtStripe, BooksStep DEF BooksInv

\* The transaction of a refund counts it, whether or not it books it.
LEMMA CountedStep == BooksInv /\ [Next]_vars => BookedIsCounted'
<1>. SUFFICES ASSUME BooksInv, [Next]_vars, NEW q \in Payments
              PROVE  Total(RefundDebits(ledger', q)) <= payments'[q].refunded
    BY DEF BookedIsCounted
<1>0. /\ RowsInv
      /\ Total(RefundDebits(ledger, q)) \in Nat
      /\ Total(RefundDebits(ledger, q)) <= payments[q].refunded
      /\ payments[q].refunded \in Nat
  <2>1. payments[q] \in PaymentRows
    BY DEF BooksInv, TypeInv, TypeOK
  <2>2. payments[q].refunded \in Nat
    BY <2>1, ConstantsAssumption DEF PaymentRows
  <2>. QED
    BY <2>2, DebitsFinite DEF BooksInv, BookedIsCounted, RowsInv, LedgerInv
<1>1. CASE NoRefund
    BY <1>0, <1>1, QuietDebits DEF NoRefund
<1>2. ASSUME NEW a \in Admins, RefundSeq(a) \/ RefundAtStripe(a)
      PROVE  Total(RefundDebits(ledger', q)) <= payments'[q].refunded
    BY <1>0, <1>2 DEF RefundSeq, RefundAtStripe
<1>3. ASSUME NEW a \in Admins, RefundTx(a)
      PROVE  Total(RefundDebits(ledger', q)) <= payments'[q].refunded
  <2>0. PICK p, n, amount :
            p = requests[a].payment /\ n = requests[a].seq /\ amount = requests[a].amount
    OBVIOUS
  <2>1. /\ p \in Payments /\ n \in Nat /\ amount \in Nat
        /\ ledger' = IF n \in RefundSeqs(p) THEN ledger
                     ELSE ledger \cup RefundTransfer(p, n, amount)
        /\ payments'[p].refunded = payments[p].refunded + amount
        /\ \A r \in Payments : r # p => payments'[r] = payments[r]
    BY <1>0, <1>3, <2>0, RefundTxEffect
  <2>2. CASE n \in RefundSeqs(p)
    <3>1. ledger' = ledger
        BY <2>1, <2>2
    <3>2. q = p => payments'[q].refunded = payments[q].refunded + amount
        BY <2>1
    <3>3. q # p => payments'[q].refunded = payments[q].refunded
        BY <2>1
    <3>. QED
        BY <1>0, <2>1, <3>1, <3>2, <3>3
  <2>3. CASE n \notin RefundSeqs(p)
    <3>0. ledger' = ledger \cup RefundTransfer(p, n, amount)
        BY <2>1, <2>3
    <3>1. /\ Total(RefundDebits(ledger', p)) = Total(RefundDebits(ledger, p)) + amount
          /\ \A r \in Payments : r # p => RefundDebits(ledger', r) = RefundDebits(ledger, r)
        BY <2>1, <2>3, <3>0, DebitsGrow DEF BooksInv
    <3>2. CASE q = p
        BY <1>0, <2>1, <3>1, <3>2
    <3>3. CASE q # p
        BY <1>0, <2>1, <3>1, <3>3
    <3>. QED
        BY <3>2, <3>3
  <2>. QED
    BY <2>2, <2>3
<1>. QED
    BY <1>1, <1>2, <1>3, BooksStep DEF BooksInv

LEMMA BooksInit == Init => BooksInv
<1>. SUFFICES ASSUME Init PROVE BooksInv
    OBVIOUS
<1>1. /\ ledger = {}
      /\ \A p \in Payments : stripe[p].refunds = {} /\ stripe[p].refunded = 0
      /\ \A p \in Payments : payments[p].refunded = 0
      /\ \A a \in Admins : requests[a].step = "idle"
    BY IdleType DEF Init
<1>2. \A p \in Payments : /\ RefundDebits(ledger, p) = {}
                          /\ RefundSeqs(p) = {}
                          /\ UnbookedRefunds(p) = {}
    BY <1>1 DEF RefundDebits, RefundSeqs, UnbookedRefunds
<1>3. OneRowPerKey /\ BothSides
    BY <1>1 DEF OneRowPerKey, BothSides
<1>4. Numbered
  <2>1. Cardinality({}) = 0 /\ 1 .. 0 = {}
    BY FS_EmptySet
  <2>. QED
    BY <1>1, <1>2, <2>1 DEF Numbered
<1>5. StripeRefundsOK
    BY <1>1, FS_EmptySet DEF StripeRefundsOK
<1>6. PaidBackIsKnown /\ BookedIsCounted
  <2>1. 0 = 0 + 0 /\ 0 <= 0
    OBVIOUS
  <2>. QED
    BY <1>1, <1>2, <2>1, TotalEmpty DEF PaidBackIsKnown, BookedIsCounted
<1>. QED
    BY <1>3, <1>4, <1>5, <1>6, TypeInit, LedgerInit, MatchesInit DEF BooksInv

LEMMA BooksInvStep == BooksInv /\ [Next]_vars => BooksInv'
<1>. SUFFICES ASSUME BooksInv, [Next]_vars PROVE BooksInv'
    OBVIOUS
<1>1. RowsInv /\ NumberInv
    BY DEF BooksInv, LedgerInv, RowsInv, NumberInv
<1>2. TypeInv' /\ LedgerInv' /\ AmountsPositive'
    BY TypeStep, InformedStep, LedgerRealStep, CapturedStep, AmountsStep DEF BooksInv, LedgerInv
<1>3. OneRowPerKey' /\ BothSides' /\ Numbered'
    BY <1>1, OneRowStep, BothSidesStep, NumberedStep
<1>4. StripeRefundsOK' /\ PaidBackIsKnown' /\ BookedIsCounted'
    BY StripeRefundsStep, PaidBackStep, CountedStep DEF BooksInv
<1>. QED
    BY <1>2, <1>3, <1>4 DEF BooksInv

LEMMA BooksInvHolds == Spec => []BooksInv
BY BooksInit, BooksInvStep, PTL DEF Spec

(***************************************************************************)
(* A lost answer never leads to a second refund: the refunds of a payment  *)
(* are numbered 1, 2, 3, ... in the ledger, and Stripe is at most one      *)
(* number ahead, with however many administrators, refunds and lost        *)
(* requests, because a number becomes free only when its refund is booked  *)
(* (the comment on nextRefundSeq).                                         *)
(***************************************************************************)
THEOREM RefundsNumbered == Spec => []AtMostOneUnbookedRefund
<1>1. BooksInv => AtMostOneUnbookedRefund
  <2>. SUFFICES ASSUME BooksInv, NEW p \in Payments
                PROVE  /\ RefundSeqs(p) = 1 .. Cardinality(RefundSeqs(p))
                       /\ \A f \in stripe[p].refunds : f.seq <= 1 + Cardinality(RefundSeqs(p))
    BY DEF AtMostOneUnbookedRefund
  <2>. DEFINE n == Cardinality(RefundDebits(ledger, p))
  <2>1. n \in Nat /\ NextNumber(p) = n + 1
    BY DebitsFinite DEF BooksInv, NextNumber
  <2>2. RefundSeqs(p) = 1 .. n /\ \A f \in stripe[p].refunds : f.seq \in 1 .. NextNumber(p)
    BY DEF BooksInv, Numbered
  <2>3. Cardinality(1 .. n) = n
    BY <2>1, FS_Interval
  <2>4. Cardinality(RefundSeqs(p)) = n
    BY <2>2, <2>3
  <2>. HIDE DEF n
  <2>. QED
    BY <2>1, <2>2, <2>4
<1>. QED
    BY <1>1, BooksInvHolds, PTL

-----------------------------------------------------------------------------
(* The balance of the books.                                               *)

\* Two rows of one amount, one on each side, balance.
LEMMA PairBalances ==
    ASSUME NEW x, NEW y, x.side = "debit", y.side = "credit",
           x.amount \in Nat, y.amount = x.amount
    PROVE  Total({ r \in {x, y} : r.side = "debit" }) = Total({ r \in {x, y} : r.side = "credit" })
<1>1. { r \in {x, y} : r.side = "debit" } = {x} /\ { r \in {x, y} : r.side = "credit" } = {y}
    OBVIOUS
<1>2. Total({x}) = x.amount /\ Total({y}) = y.amount
    BY TotalOne
<1>. QED
    BY <1>1, <1>2

LEMMA BooksBalance == BooksInv => Balanced(ledger)
<1>. SUFFICES ASSUME BooksInv, NEW e \in ledger
              PROVE  LET rows == { r \in ledger : r.transfer = e.transfer }
                     IN  Total({ r \in rows : r.side = "debit" })
                           = Total({ r \in rows : r.side = "credit" })
    BY DEF Balanced
<1>1. PICK x, y : /\ x \in ledger /\ y \in ledger
                  /\ x.transfer = e.transfer /\ y.transfer = e.transfer
                  /\ x.side = "debit" /\ y.side = "credit"
                  /\ x.amount \in Nat /\ y.amount = x.amount
  <2>1. CASE \E p \in Payments :
                 e \in CaptureTransfer(p, 1, Amount) /\ CaptureTransfer(p, 1, Amount) \subseteq ledger
    <3>1. PICK p \in Payments :
              e \in CaptureTransfer(p, 1, Amount) /\ CaptureTransfer(p, 1, Amount) \subseteq ledger
        BY <2>1
    <3>. DEFINE x == Entry(p, "capture", 1, "psp_receivable", "debit", Amount)
                y == Entry(p, "capture", 1, "sales", "credit", Amount)
    <3>2. x \in ledger /\ y \in ledger
        BY <3>1 DEF CaptureTransfer
    <3>3. e.transfer = <<p, "capture", 1>>
        BY <3>1 DEF CaptureTransfer, Entry
    <3>4. /\ x.transfer = <<p, "capture", 1>> /\ y.transfer = <<p, "capture", 1>>
          /\ x.side = "debit" /\ y.side = "credit" /\ x.amount = Amount /\ y.amount = Amount
        BY DEF Entry
    <3>. HIDE DEF x, y
    <3>. QED
        BY <3>2, <3>3, <3>4, ConstantsAssumption
  <2>2. CASE \E p \in Payments, n \in Nat, amount \in Nat :
                 e \in RefundTransfer(p, n, amount) /\ RefundTransfer(p, n, amount) \subseteq ledger
    <3>1. PICK p \in Payments, n \in Nat, amount \in Nat :
              e \in RefundTransfer(p, n, amount) /\ RefundTransfer(p, n, amount) \subseteq ledger
        BY <2>2
    <3>. DEFINE x == Entry(p, "refund", n, "refunds", "debit", amount)
                y == Entry(p, "refund", n, "psp_receivable", "credit", amount)
    <3>2. x \in ledger /\ y \in ledger
        BY <3>1 DEF RefundTransfer
    <3>3. e.transfer = <<p, "refund", n>>
        BY <3>1 DEF RefundTransfer, Entry
    <3>4. /\ x.transfer = <<p, "refund", n>> /\ y.transfer = <<p, "refund", n>>
          /\ x.side = "debit" /\ y.side = "credit" /\ x.amount = amount /\ y.amount = amount
        BY DEF Entry
    <3>. HIDE DEF x, y
    <3>. QED
        BY <3>2, <3>3, <3>4
  <2>. QED
    BY <2>1, <2>2 DEF BooksInv, BothSides
<1>2. \A r \in ledger : r.side \in {"debit", "credit"}
    BY DEF BooksInv, TypeInv, TypeOK, LedgerRows
<1>3. { r \in ledger : r.transfer = e.transfer } = {x, y}
    BY <1>1, <1>2 DEF BooksInv, OneRowPerKey
<1>. QED
    BY <1>1, <1>3, PairBalances

(***************************************************************************)
(* The ledger balances transfer by transfer (ledger.Invariant), and the    *)
(* refunds in it never add up to more than refunded_jpy of the payment nor *)
(* to more than Stripe paid back, also while refunds race and fail half    *)
(* way.                                                                    *)
(***************************************************************************)
THEOREM LedgerCorrect == Spec => []LedgerIsSound
<1>1. BooksInv => LedgerIsSound
  <2>. SUFFICES ASSUME BooksInv, NEW p \in Payments
                PROVE  /\ Total(RefundDebits(ledger, p)) <= payments[p].refunded
                       /\ Total(RefundDebits(ledger, p)) <= stripe[p].refunded
    BY BooksBalance DEF LedgerIsSound
  <2>1. Total(RefundDebits(ledger, p)) \in Nat /\ Total(UnbookedRefunds(p)) \in Nat
    BY DebitsFinite, UnbookedFinite DEF BooksInv
  <2>. QED
    BY <2>1 DEF BooksInv, BookedIsCounted, PaidBackIsKnown
<1>. QED
    BY <1>1, BooksInvHolds, PTL

-----------------------------------------------------------------------------
(* Refunds of a payment one at a time.                                     *)

\* A step moves one request at most.
LEMMA OneRequestStep ==
    ASSUME TypeInv, [Next]_vars
    PROVE  \/ requests' = requests
           \/ \E a \in Admins : \A b \in Admins \ {a} : requests'[b] = requests[b]
<1>. USE DEF TypeInv, TypeOK
<1>1. CASE requests' = requests
    BY <1>1
<1>2. ASSUME NEW a \in Admins, requests' = [requests EXCEPT ![a] = Idle]
      PROVE  \A b \in Admins \ {a} : requests'[b] = requests[b]
    BY <1>2
<1>3. ASSUME NEW a \in Admins,
             \/ RefundSeq(a) \/ RefundAtStripe(a) \/ CaptureAtStripe(a)
             \/ \E p \in Payments : CaptureCheck(a, p)
             \/ \E p \in Payments, amount \in RefundAmounts : RefundCheck(a, p, amount)
      PROVE  \A b \in Admins \ {a} : requests'[b] = requests[b]
    BY <1>3 DEF RefundSeq, RefundAtStripe, CaptureAtStripe, CaptureCheck, RefundCheck
<1>4. ASSUME NEW a \in Admins,
             \/ CaptureRefused(a) \/ CaptureTx(a) \/ CaptureTxRollback(a) \/ RefundRefused(a)
             \/ RefundTx(a) \/ RefundTxRollback(a) \/ Abandon(a)
      PROVE  requests' = [requests EXCEPT ![a] = Idle]
    BY <1>4 DEF CaptureRefused, CaptureTx, CaptureTxRollback, RefundRefused, RefundTx,
                RefundTxRollback, Abandon
<1>. QED
    BY <1>1, <1>2, <1>3, <1>4
       DEF Next, vars, CustomerAuthorizes, CustomerPays, CustomerDeclined, StripeCancels,
           StripeMoves, Deliver, RelayDone, RelayRetries, Expire

LEMMA BusyStep == TypeInv /\ BusyIsFinite /\ [Next]_vars => BusyIsFinite'
<1>. SUFFICES ASSUME TypeInv, BusyIsFinite, [Next]_vars PROVE BusyIsFinite'
    OBVIOUS
<1>. DEFINE Busy == { a \in Admins : requests[a].step # "idle" }
<1>1. IsFiniteSet(Busy)
    BY DEF BusyIsFinite
<1>2. CASE requests' = requests
    BY <1>2 DEF BusyIsFinite
<1>3. ASSUME NEW a \in Admins, \A b \in Admins \ {a} : requests'[b] = requests[b]
      PROVE  BusyIsFinite'
  <2>1. Busy' \in SUBSET (Busy \cup {a})
    BY <1>3
  <2>. HIDE DEF Busy
  <2>2. IsFiniteSet(Busy \cup {a})
    BY <1>1, FS_AddElement
  <2>3. IsFiniteSet(Busy')
    BY <2>1, <2>2, FS_Subset
  <2>. QED
    BY <2>3 DEF Busy, BusyIsFinite
<1>. QED
    BY <1>2, <1>3, OneRequestStep

\* A set without two elements.
LEMMA AtMostOne ==
    ASSUME NEW S, IsFiniteSet(S), ~ (Cardinality(S) > 1), NEW x \in S, NEW y \in S
    PROVE  x = y
<1>. SUFFICES ASSUME x # y PROVE FALSE
    OBVIOUS
<1>1. IsFiniteSet({x}) /\ Cardinality({x}) = 1
    BY FS_Singleton
<1>2. Cardinality({x} \cup {y}) = 2
    BY <1>1, FS_AddElement
<1>3. {x} \cup {y} \in SUBSET S
    OBVIOUS
<1>4. Cardinality({x} \cup {y}) <= Cardinality(S)
    BY <1>3, FS_Subset
<1>5. Cardinality(S) \in Nat
    BY FS_CardinalityType
<1>. QED
    BY <1>2, <1>4, <1>5

LoneInv == BooksInv /\ BusyIsFinite /\ LoneNumbered /\ LoneRefundsAreBooked

\* After a step, a payment still without a race has one refund under way at most.
LEMMA OneRefunding ==
    ASSUME TypeInv, BusyIsFinite, MCNext, NEW p \in Payments \ raced'
    PROVE  \A a, b \in Refunding(p)' : a = b
<1>1. ~ (Cardinality(Refunding(p)') > 1)
    BY DEF MCNext
<1>2. IsFiniteSet({ a \in Admins : requests'[a].step # "idle" })
    BY BusyStep DEF BusyIsFinite, MCNext
<1>3. Refunding(p)' \in SUBSET { a \in Admins : requests'[a].step # "idle" }
    BY DEF Refunding, RefundSteps
<1>4. IsFiniteSet(Refunding(p)')
    BY <1>2, <1>3, FS_Subset
<1>. QED
    BY <1>1, <1>4, AtMostOne

\* A refund that is alone on its payment is booked under a new number.
LEMMA LoneRefundIsNew ==
    ASSUME LoneInv, NEW a \in Admins, RefundTx(a), requests[a].payment \notin raced
    PROVE  requests[a].seq \notin RefundSeqs(requests[a].payment)
<1>. DEFINE p == requests[a].payment
            n == Cardinality(RefundDebits(ledger, p))
<1>1. requests[a].step = "refund_tx" /\ p \in Payments
    BY DEF RefundTx, LoneInv, BooksInv, TypeInv, RequestsOK
<1>2. a \in Refunding(p)
    BY <1>1 DEF Refunding, RefundSteps
<1>3. requests[a].seq = NextNumber(p)
    BY <1>1, <1>2 DEF LoneInv, LoneNumbered
<1>4. n \in Nat /\ NextNumber(p) = 1 + n
    BY <1>1, DebitsFinite DEF LoneInv, BooksInv, NextNumber
<1>5. RefundSeqs(p) = 1 .. n
    BY <1>1 DEF LoneInv, BooksInv, Numbered
<1>. QED
    BY <1>3, <1>4, <1>5

LEMMA LoneNumberedStep == LoneInv /\ [MCNext]_mcvars => LoneNumbered'
<1>. SUFFICES ASSUME LoneInv, [MCNext]_mcvars PROVE LoneNumbered'
    OBVIOUS
<1>1. CASE UNCHANGED mcvars
    BY <1>1 DEF mcvars, vars, LoneInv, LoneNumbered, Refunding, NextNumber
<1>2. ASSUME MCNext, NEW p \in Payments \ raced', NEW a \in Refunding(p)',
             requests'[a].step # "refund_seq"
      PROVE  requests'[a].seq = NextNumber(p)'
  <2>0. /\ BooksInv /\ RowsInv /\ TypeInv /\ [Next]_vars
        /\ p \in Payments /\ p \notin raced
        /\ a \in Admins /\ requests'[a].payment = p
        /\ requests'[a].step \in {"refund_stripe", "refund_tx"}
        /\ \A b \in Refunding(p) :
              /\ \A c \in Refunding(p) : c = b
              /\ requests[b].step # "refund_seq" => requests[b].seq = NextNumber(p)
    BY <1>2 DEF MCNext, LoneInv, LoneNumbered, Refunding, RefundSteps, BooksInv, RowsInv, LedgerInv
  <2>1. ASSUME requests'[a] = requests[a], NextNumber(p)' = NextNumber(p)
        PROVE  requests'[a].seq = NextNumber(p)'
    <3>1. a \in Refunding(p) /\ requests[a].step # "refund_seq"
        BY <1>2, <2>0, <2>1 DEF Refunding, RefundSteps
    <3>. QED
        BY <2>0, <2>1, <3>1
  <2>2. CASE NoRefund
    BY <2>0, <2>1, <2>2, QuietDebits DEF NoRefund
  <2>3. ASSUME NEW b \in Admins, RefundSeq(b)
        PROVE  requests'[a].seq = NextNumber(p)'
    <3>1. NextNumber(p)' = NextNumber(p)
        BY <2>3 DEF RefundSeq, NextNumber
    <3>2. b # a => requests'[a] = requests[a]
        BY <2>0, <2>3 DEF RefundSeq, TypeInv, TypeOK
    <3>3. b = a => /\ requests'[a].payment = requests[a].payment
                   /\ requests'[a].seq = NextNumber(requests[a].payment)
        BY <2>0, <2>3 DEF RefundSeq, NextNumber, TypeInv, TypeOK, Requests
    <3>. QED
        BY <2>0, <2>1, <3>1, <3>2, <3>3
  <2>4. ASSUME NEW b \in Admins, RefundAtStripe(b)
        PROVE  requests'[a].seq = NextNumber(p)'
    <3>1. NextNumber(p)' = NextNumber(p)
        BY <2>4 DEF RefundAtStripe, NextNumber
    <3>2. /\ requests[a].step \in {"refund_stripe", "refund_tx"}
          /\ requests'[a].payment = requests[a].payment
          /\ requests'[a].seq = requests[a].seq
        BY <2>0, <2>4 DEF RefundAtStripe, TypeInv, TypeOK, Requests
    <3>3. a \in Refunding(p)
        BY <2>0, <3>2 DEF Refunding, RefundSteps
    <3>. QED
        BY <2>0, <3>1, <3>2, <3>3
  <2>5. ASSUME NEW b \in Admins, RefundTx(b)
        PROVE  requests'[a].seq = NextNumber(p)'
    <3>0. PICK q, n, amount :
              q = requests[b].payment /\ n = requests[b].seq /\ amount = requests[b].amount
        OBVIOUS
    <3>1. /\ q \in Payments /\ n \in Nat /\ amount \in Nat
          /\ requests[b].step = "refund_tx"
          /\ ledger' = IF n \in RefundSeqs(q) THEN ledger
                       ELSE ledger \cup RefundTransfer(q, n, amount)
          /\ requests' = [requests EXCEPT ![b] = Idle]
        BY <2>0, <2>5, <3>0, RefundTxEffect
    <3>2. b # a /\ requests'[a] = requests[a]
        BY <2>0, <3>1, IdleType DEF TypeInv, TypeOK
    <3>3. a \in Refunding(p)
        BY <2>0, <3>2 DEF Refunding, RefundSteps
    <3>4. q # p
      <4>. SUFFICES ASSUME q = p PROVE FALSE
        OBVIOUS
      <4>1. b \in Refunding(p)
        BY <3>0, <3>1 DEF Refunding, RefundSteps
      <4>. QED
        BY <2>0, <3>2, <3>3, <4>1
    <3>5. NextNumber(p)' = NextNumber(p)
      <4>1. CASE n \in RefundSeqs(q)
        BY <3>1, <4>1 DEF NextNumber
      <4>2. CASE n \notin RefundSeqs(q)
        BY <2>0, <3>1, <3>4, <4>2, DebitsGrow DEF RowsInv
      <4>. QED
        BY <4>1, <4>2
    <3>. QED
        BY <2>1, <3>2, <3>5
  <2>. QED
    BY <2>0, <2>2, <2>3, <2>4, <2>5, BooksStep
<1>. QED
    BY <1>1, <1>2, OneRefunding DEF LoneNumbered, LoneInv, BooksInv

LEMMA LoneBookedStep == LoneInv /\ [MCNext]_mcvars => LoneRefundsAreBooked'
<1>. SUFFICES ASSUME LoneInv, [MCNext]_mcvars, NEW q \in Payments, q \notin raced'
              PROVE  payments'[q].refunded = Total(RefundDebits(ledger', q))
    BY DEF LoneRefundsAreBooked
<1>0. /\ BooksInv /\ RowsInv /\ [Next]_vars
      /\ q \notin raced
      /\ payments[q].refunded = Total(RefundDebits(ledger, q))
    BY DEF MCNext, mcvars, LoneInv, LoneRefundsAreBooked, BooksInv, RowsInv, LedgerInv
<1>1. CASE NoRefund
    BY <1>0, <1>1, QuietDebits DEF NoRefund
<1>2. ASSUME NEW a \in Admins, RefundSeq(a) \/ RefundAtStripe(a)
      PROVE  payments'[q].refunded = Total(RefundDebits(ledger', q))
    BY <1>0, <1>2 DEF RefundSeq, RefundAtStripe
<1>3. ASSUME NEW a \in Admins, RefundTx(a)
      PROVE  payments'[q].refunded = Total(RefundDebits(ledger', q))
  <2>0. PICK p, n, amount :
            p = requests[a].payment /\ n = requests[a].seq /\ amount = requests[a].amount
    OBVIOUS
  <2>1. /\ p \in Payments /\ n \in Nat /\ amount \in Nat
        /\ payments'[p].refunded = payments[p].refunded + amount
        /\ \A r \in Payments : r # p => payments'[r] = payments[r]
        /\ ledger' = IF n \in RefundSeqs(p) THEN ledger
                     ELSE ledger \cup RefundTransfer(p, n, amount)
    BY <1>0, <1>3, <2>0, RefundTxEffect
  <2>2. CASE n \in RefundSeqs(p)
    <3>1. q # p
        BY <1>0, <1>3, <2>0, <2>2, LoneRefundIsNew
    <3>. QED
        BY <1>0, <2>1, <2>2, <3>1
  <2>3. CASE n \notin RefundSeqs(p)
    <3>0. ledger' = ledger \cup RefundTransfer(p, n, amount)
        BY <2>1, <2>3
    <3>1. /\ Total(RefundDebits(ledger', p)) = Total(RefundDebits(ledger, p)) + amount
          /\ \A r \in Payments : r # p => RefundDebits(ledger', r) = RefundDebits(ledger, r)
        BY <1>0, <2>1, <2>3, <3>0, DebitsGrow DEF RowsInv
    <3>2. CASE q = p
        BY <1>0, <2>1, <3>1, <3>2
    <3>3. CASE q # p
        BY <1>0, <2>1, <3>1, <3>3
    <3>. QED
        BY <3>2, <3>3
  <2>. QED
    BY <2>2, <2>3
<1>. QED
    BY <1>0, <1>1, <1>2, <1>3, BooksStep DEF RowsInv

LEMMA LoneInit == MCInit => LoneInv
<1>. SUFFICES ASSUME MCInit PROVE LoneInv
    OBVIOUS
<1>1. Init /\ ledger = {} /\ (\A p \in Payments : payments[p].refunded = 0)
      /\ (\A a \in Admins : requests[a].step = "idle")
    BY IdleType DEF MCInit, Init
<1>2. BooksInv
    BY <1>1, BooksInit
<1>3. BusyIsFinite
  <2>1. { a \in Admins : requests[a].step # "idle" } = {}
    BY <1>1
  <2>. QED
    BY <2>1, FS_EmptySet DEF BusyIsFinite
<1>4. LoneNumbered
    BY <1>1 DEF LoneNumbered, Refunding, RefundSteps
<1>5. LoneRefundsAreBooked
  <2>1. \A p \in Payments : RefundDebits(ledger, p) = {}
    BY <1>1 DEF RefundDebits
  <2>. QED
    BY <1>1, <2>1, TotalEmpty DEF LoneRefundsAreBooked
<1>. QED
    BY <1>2, <1>3, <1>4, <1>5 DEF LoneInv

LEMMA LoneInvStep == LoneInv /\ [MCNext]_mcvars => LoneInv'
<1>. SUFFICES ASSUME LoneInv, [MCNext]_mcvars PROVE LoneInv'
    OBVIOUS
<1>1. [Next]_vars
    BY DEF MCNext, mcvars
<1>2. BooksInv' /\ BusyIsFinite'
    BY <1>1, BooksInvStep, BusyStep DEF LoneInv, BooksInv
<1>. QED
    BY <1>2, LoneNumberedStep, LoneBookedStep DEF LoneInv

LEMMA LoneInvHolds == MCSpec => []LoneInv
BY LoneInit, LoneInvStep, PTL DEF MCSpec

(***************************************************************************)
(* refunded_jpy of a payment is the sum of its refunds in the ledger as    *)
(* long as no two refunds of that payment were under way at the same time, *)
(* for any number of requests, lost ones included: the number of a lone    *)
(* refund stays the next one from nextRefundSeq to its transaction, so     *)
(* that ON CONFLICT DO NOTHING never drops it.                             *)
(***************************************************************************)
THEOREM LoneRefundsBooked == MCSpec => []LoneRefundsAreBooked
<1>1. LoneInv => LoneRefundsAreBooked
    BY DEF LoneInv
<1>. QED
    BY <1>1, LoneInvHolds, PTL

LEMMA MatchesHolds == MCSpec => []RefundedMatchesState
<1>1. MCInit => Init
    BY DEF MCInit
<1>2. [MCNext]_mcvars => [Next]_vars
    BY DEF MCNext, mcvars
<1>. QED
    BY <1>1, <1>2, RefundedCorrect, PTL DEF MCSpec, Spec

(***************************************************************************)
(* A refund that Stripe made and the database did not record can be        *)
(* completed by the same request: it gets the number Stripe knows and      *)
(* passes every check of the transaction, whatever was refunded before.    *)
(***************************************************************************)
THEOREM LostRefundsRepeatable == MCSpec => []LostRefundIsRepeatable
<1>1. LoneInv /\ RefundedMatchesState => LostRefundIsRepeatable
  <2>. SUFFICES ASSUME LoneInv, RefundedMatchesState, NEW p \in Payments \ raced,
                       payments[p].state \in {"captured", "partially_refunded", "refunded"},
                       NEW f \in UnbookedRefunds(p)
                PROVE  /\ f.seq = 1 + Cardinality(RefundDebits(ledger, p))
                       /\ RefundCommits(payments[p], f.amount)
    BY DEF LostRefundIsRepeatable
  <2>. DEFINE n == Cardinality(RefundDebits(ledger, p))
              booked == Total(RefundDebits(ledger, p))
              unbooked == Total(UnbookedRefunds(p))
  <2>0. TypeInv /\ BothSides /\ StripeRefundsOK
    BY DEF LoneInv, BooksInv
  <2>1. n \in Nat /\ booked \in Nat /\ NextNumber(p) = 1 + n
    BY <2>0, DebitsFinite DEF NextNumber
  <2>2. f \in stripe[p].refunds /\ f.seq \notin RefundSeqs(p)
    BY DEF UnbookedRefunds
  <2>3. RefundSeqs(p) = 1 .. n /\ f.seq \in 1 .. NextNumber(p)
    BY <2>2 DEF LoneInv, BooksInv, Numbered
  <2>4. f.seq = 1 + n
    BY <2>1, <2>2, <2>3
  <2>5. f.amount \in Nat /\ f.amount > 0 /\ f.amount <= unbooked /\ unbooked \in Nat
    <3>1. IsFiniteSet(UnbookedRefunds(p)) /\ \A g \in UnbookedRefunds(p) : g.amount \in Nat
        BY <2>0, UnbookedFinite
    <3>. QED
        BY <2>0, <2>2, <3>1, TotalNat DEF StripeRefundsOK
  <2>6. payments[p].refunded = booked
    BY DEF LoneInv, LoneRefundsAreBooked
  <2>7. stripe[p].refunded = booked + unbooked
    BY DEF LoneInv, BooksInv, PaidBackIsKnown
  <2>8. stripe[p].refunded \in 0 .. Amount
    BY <2>0 DEF TypeInv, TypeOK, Intents
  <2>. HIDE DEF n, booked, unbooked
  <2>9. payments[p].refunded + f.amount <= Amount /\ payments[p].refunded < Amount
    BY <2>1, <2>5, <2>6, <2>7, <2>8, ConstantsAssumption
  <2>10. payments[p].state \in {"captured", "partially_refunded"}
    BY <2>1, <2>6, <2>9, ConstantsAssumption DEF RefundedMatchesState
  <2>11. IsAllowed(payments[p].state, RefundEvent(payments[p].refunded + f.amount))
    BY <2>10 DEF IsAllowed, RefundEvent, Transitions, States
  <2>. QED
    BY <2>4, <2>9, <2>11 DEF RefundCommits, n
<1>. QED
    BY <1>1, LoneInvHolds, MatchesHolds, PTL

-----------------------------------------------------------------------------
(* The reconciliation.                                                     *)

\* What a booked capture adds to the receivable account.
LEMMA CaptureReceivable ==
    ASSUME BothSides, NEW p \in Payments, ~CaptureBooked(p),
           ledger' = ledger \cup CaptureTransfer(p, 1, Amount)
    PROVE  /\ \E d : /\ d.amount = Amount
                     /\ d \notin ReceivableRows("debit")
                     /\ ReceivableRows("debit")' = ReceivableRows("debit") \cup {d}
           /\ ReceivableRows("credit")' = ReceivableRows("credit")
           /\ CaptureBooked(p)'
           /\ \A q : q # p => CaptureBooked(q)' = CaptureBooked(q)
           /\ \A q : RefundDebits(ledger', q) = RefundDebits(ledger, q)
<1>. DEFINE d == Entry(p, "capture", 1, "psp_receivable", "debit", Amount)
            c == Entry(p, "capture", 1, "sales", "credit", Amount)
<1>1. /\ d.transfer = <<p, "capture", 1>> /\ d.account = "psp_receivable" /\ d.side = "debit"
      /\ d.amount = Amount /\ c.account = "sales" /\ c.transfer = <<p, "capture", 1>>
    BY DEF Entry
<1>2. CaptureTransfer(p, 1, Amount) = {d, c}
    BY DEF CaptureTransfer
<1>3. \A q, n, amount : \A r \in RefundTransfer(q, n, amount) : r.transfer = <<q, "refund", n>>
    BY DEF RefundTransfer, Entry
<1>4. \A q : \A r \in CaptureTransfer(q, 1, Amount) : r.transfer = <<q, "capture", 1>>
    BY DEF CaptureTransfer, Entry
<1>5. d \notin ledger
  <2>. SUFFICES ASSUME d \in ledger PROVE FALSE
    OBVIOUS
  <2>. HIDE DEF d, c
  <2>1. PICK q \in Payments :
            d \in CaptureTransfer(q, 1, Amount) /\ CaptureTransfer(q, 1, Amount) \subseteq ledger
    <3>1. \A q, n, amount : d \notin RefundTransfer(q, n, amount)
        BY <1>1, <1>3
    <3>. QED
        BY <3>1 DEF BothSides
  <2>2. q = p
    BY <1>1, <1>4, <2>1
  <2>. QED
    BY <2>1, <2>2 DEF CaptureBooked
<1>. HIDE DEF d, c
<1>6. ledger' = ledger \cup {d, c}
    BY <1>2
<1>7. ReceivableRows("debit")' = ReceivableRows("debit") \cup {d} /\ d \notin ReceivableRows("debit")
    BY <1>1, <1>5, <1>6 DEF ReceivableRows
<1>8. ReceivableRows("credit")' = ReceivableRows("credit")
    BY <1>1, <1>6 DEF ReceivableRows
<1>9. CaptureBooked(p)'
    BY DEF CaptureBooked
<1>10. ASSUME NEW q, q # p
       PROVE  CaptureBooked(q)' = CaptureBooked(q)
  <2>1. d \notin CaptureTransfer(q, 1, Amount) /\ c \notin CaptureTransfer(q, 1, Amount)
    BY <1>1, <1>4, <1>10
  <2>2. CaptureBooked(q)' <=> CaptureBooked(q)
    BY <1>6, <2>1 DEF CaptureBooked
  <2>. QED
    BY <2>2 DEF CaptureBooked
<1>11. ASSUME NEW q
       PROVE  RefundDebits(ledger', q) = RefundDebits(ledger, q)
    BY <1>1, <1>6 DEF RefundDebits
<1>. QED
    BY <1>1, <1>7, <1>8, <1>9, <1>10, <1>11

LEMMA RefundReceivable ==
    ASSUME BothSides, NEW p \in Payments, NEW n \in Nat, NEW amount \in Nat,
           n \notin RefundSeqs(p), ledger' = ledger \cup RefundTransfer(p, n, amount)
    PROVE  /\ \E c : /\ c.amount = amount
                     /\ c \notin ReceivableRows("credit")
                     /\ ReceivableRows("credit")' = ReceivableRows("credit") \cup {c}
           /\ ReceivableRows("debit")' = ReceivableRows("debit")
           /\ \A q : CaptureBooked(q)' = CaptureBooked(q)
<1>. DEFINE d == Debit(p, n, amount)
            c == Entry(p, "refund", n, "psp_receivable", "credit", amount)
<1>1. /\ c.transfer = <<p, "refund", n>> /\ c.account = "psp_receivable" /\ c.side = "credit"
      /\ c.amount = amount /\ d.account = "refunds" /\ d.transfer = <<p, "refund", n>>
    BY DEF Entry, Debit
<1>2. RefundTransfer(p, n, amount) = {d, c}
    BY DEF RefundTransfer, Debit
<1>3. \A q, m, k : \A r \in RefundTransfer(q, m, k) : r.transfer = <<q, "refund", m>>
    BY DEF RefundTransfer, Entry
<1>4. \A q : \A r \in CaptureTransfer(q, 1, Amount) : r.transfer = <<q, "capture", 1>>
    BY DEF CaptureTransfer, Entry
<1>. HIDE DEF d, c
<1>5. c \notin ledger
  <2>. SUFFICES ASSUME c \in ledger PROVE FALSE
    OBVIOUS
  <2>1. PICK q \in Payments, m \in Nat, k \in Nat :
            c \in RefundTransfer(q, m, k) /\ RefundTransfer(q, m, k) \subseteq ledger
    <3>1. \A q : c \notin CaptureTransfer(q, 1, Amount)
        BY <1>1, <1>4
    <3>. QED
        BY <3>1 DEF BothSides
  <2>2. <<q, "refund", m>> = <<p, "refund", n>>
    BY <1>1, <1>3, <2>1
  <2>3. q = p /\ m = n
    BY <2>2
  <2>4. Debit(p, n, k) \in RefundDebits(ledger, p) /\ Debit(p, n, k).transfer[3] = n
    <3>1. Debit(p, n, k) \in ledger
        BY <2>1, <2>3 DEF RefundTransfer, Debit
    <3>. QED
        BY <3>1 DEF RefundDebits, Debit, Entry
  <2>. QED
    BY <2>4 DEF RefundSeqs
<1>6. ledger' = ledger \cup {d, c}
    BY <1>2
<1>7. ReceivableRows("credit")' = ReceivableRows("credit") \cup {c}
      /\ c \notin ReceivableRows("credit")
    BY <1>1, <1>5, <1>6 DEF ReceivableRows
<1>8. ReceivableRows("debit")' = ReceivableRows("debit")
    BY <1>1, <1>6 DEF ReceivableRows
<1>9. ASSUME NEW q
      PROVE  CaptureBooked(q)' = CaptureBooked(q)
  <2>1. d \notin CaptureTransfer(q, 1, Amount) /\ c \notin CaptureTransfer(q, 1, Amount)
    BY <1>1, <1>4
  <2>2. CaptureBooked(q)' <=> CaptureBooked(q)
    BY <1>6, <2>1 DEF CaptureBooked
  <2>. QED
    BY <2>2 DEF CaptureBooked
<1>. QED
    BY <1>1, <1>7, <1>8, <1>9

\* The summands of ReceivableIsSum.
BookedCapture == [p \in Payments |-> IF CaptureBooked(p) THEN Amount ELSE 0]

BookedRefund == [p \in Payments |-> Total(RefundDebits(ledger, p))]

LEMMA ReceivableFinite ==
    ASSUME TypeInv, BothSides, NEW side
    PROVE  /\ IsFiniteSet(ReceivableRows(side))
           /\ \A e \in ReceivableRows(side) : e.amount \in Nat
           /\ Total(ReceivableRows(side)) \in Nat
           /\ \A p \in Payments : BookedCapture[p] \in Nat /\ BookedRefund[p] \in Nat
<1>1. IsFiniteSet(ReceivableRows(side))
    BY FS_Subset DEF ReceivableRows, TypeInv
<1>2. \A e \in ReceivableRows(side) : e.amount \in Nat
    BY DEF ReceivableRows, TypeInv, TypeOK, LedgerRows
<1>3. \A p \in Payments : BookedCapture[p] \in Nat /\ BookedRefund[p] \in Nat
    BY DebitsFinite, ConstantsAssumption DEF BookedCapture, BookedRefund
<1>. QED
    BY <1>1, <1>2, <1>3, TotalNat

\* ReceivableIsSum with its sums named.
LEMMA ReceivableSums ==
    ReceivableIsSum <=>
        /\ Total(ReceivableRows("debit")) = SumFunctionOnSet(BookedCapture, Payments)
        /\ Total(ReceivableRows("credit")) = SumFunctionOnSet(BookedRefund, Payments)
BY DEF ReceivableIsSum, BookedCapture, BookedRefund, SumFunction

LEMMA ReceivableStep == BooksInv /\ ReceivableIsSum /\ [Next]_vars => ReceivableIsSum'
<1>. SUFFICES ASSUME BooksInv, ReceivableIsSum, [Next]_vars
              PROVE  /\ Total(ReceivableRows("debit")') = SumFunctionOnSet(BookedCapture', Payments)
                     /\ Total(ReceivableRows("credit")') = SumFunctionOnSet(BookedRefund', Payments)
    BY ReceivableSums DEF ReceivableIsSum, BookedCapture, BookedRefund, SumFunction
<1>0. /\ RowsInv /\ TypeInv /\ BothSides
      /\ Total(ReceivableRows("debit")) = SumFunctionOnSet(BookedCapture, Payments)
      /\ Total(ReceivableRows("credit")) = SumFunctionOnSet(BookedRefund, Payments)
    BY ReceivableSums DEF BooksInv, RowsInv, LedgerInv
<1>1. /\ \A side : IsFiniteSet(ReceivableRows(side))
      /\ \A side : \A e \in ReceivableRows(side) : e.amount \in Nat
      /\ \A side : Total(ReceivableRows(side)) \in Nat
      /\ \A p \in Payments : BookedCapture[p] \in Nat /\ BookedRefund[p] \in Nat
    BY <1>0, ReceivableFinite
<1>2. CASE ledger' = ledger
  <2>1. /\ ReceivableRows("debit")' = ReceivableRows("debit")
        /\ ReceivableRows("credit")' = ReceivableRows("credit")
        /\ BookedCapture' = BookedCapture
        /\ BookedRefund' = BookedRefund
    BY <1>2 DEF ReceivableRows, BookedCapture, BookedRefund, CaptureBooked
  <2>. QED
    BY <1>0, <2>1
<1>3. ASSUME NEW p \in Payments, ~CaptureBooked(p),
             ledger' = ledger \cup CaptureTransfer(p, 1, Amount)
      PROVE  /\ Total(ReceivableRows("debit")') = SumFunctionOnSet(BookedCapture', Payments)
             /\ Total(ReceivableRows("credit")') = SumFunctionOnSet(BookedRefund', Payments)
  <2>1. PICK d : /\ d.amount = Amount
                 /\ d \notin ReceivableRows("debit")
                 /\ ReceivableRows("debit")' = ReceivableRows("debit") \cup {d}
    BY <1>0, <1>3, CaptureReceivable
  <2>2. /\ ReceivableRows("credit")' = ReceivableRows("credit")
        /\ CaptureBooked(p)'
        /\ \A q : q # p => CaptureBooked(q)' = CaptureBooked(q)
        /\ \A q : RefundDebits(ledger', q) = RefundDebits(ledger, q)
    BY <1>0, <1>3, CaptureReceivable
  <2>3. Total(ReceivableRows("debit")') = Total(ReceivableRows("debit")) + Amount
    <3>1. d.amount \in Nat
        BY <2>1, ConstantsAssumption
    <3>2. Total(ReceivableRows("debit") \cup {d}) = Total(ReceivableRows("debit")) + d.amount
        BY <1>1, <2>1, <3>1, TotalAdd
    <3>. QED
        BY <2>1, <3>2
  <2>4. BookedRefund' = BookedRefund
    BY <2>2 DEF BookedRefund
  <2>5. /\ BookedCapture'[p] = Amount /\ BookedCapture[p] = 0
        /\ \A q \in Payments : q # p => BookedCapture'[q] = BookedCapture[q]
    BY <1>3, <2>2 DEF BookedCapture
  <2>6. \A q \in Payments : BookedCapture[q] \in Int /\ BookedCapture'[q] \in Int
    BY <1>1, <2>5, ConstantsAssumption
  <2>7. SumFunctionOnSet(BookedCapture', Payments)
          = SumFunctionOnSet(BookedCapture, Payments) + BookedCapture'[p] - BookedCapture[p]
    BY <2>5, <2>6, SumChange, FinitePayments
  <2>. QED
    BY <1>0, <1>1, <2>2, <2>3, <2>4, <2>5, <2>7, ConstantsAssumption
<1>4. ASSUME NEW a \in Admins, RefundTx(a),
             requests[a].seq \notin RefundSeqs(requests[a].payment),
             ledger' = ledger \cup RefundTransfer(requests[a].payment, requests[a].seq,
                                                  requests[a].amount)
      PROVE  /\ Total(ReceivableRows("debit")') = SumFunctionOnSet(BookedCapture', Payments)
             /\ Total(ReceivableRows("credit")') = SumFunctionOnSet(BookedRefund', Payments)
  <2>0. PICK p, n, amount :
            p = requests[a].payment /\ n = requests[a].seq /\ amount = requests[a].amount
    OBVIOUS
  <2>1. /\ p \in Payments /\ n \in Nat /\ amount \in Nat
        /\ n \notin RefundSeqs(p)
        /\ ledger' = ledger \cup RefundTransfer(p, n, amount)
    BY <1>0, <1>4, <2>0, RefundTxEffect
  <2>2. PICK c : /\ c.amount = amount
                 /\ c \notin ReceivableRows("credit")
                 /\ ReceivableRows("credit")' = ReceivableRows("credit") \cup {c}
    BY <1>0, <2>1, RefundReceivable
  <2>3. /\ ReceivableRows("debit")' = ReceivableRows("debit")
        /\ \A q : CaptureBooked(q)' = CaptureBooked(q)
    BY <1>0, <2>1, RefundReceivable
  <2>4. Total(ReceivableRows("credit")') = Total(ReceivableRows("credit")) + amount
    BY <1>1, <2>1, <2>2, TotalAdd
  <2>5. BookedCapture' = BookedCapture
    BY <2>3 DEF BookedCapture
  <2>6. /\ Total(RefundDebits(ledger', p)) = Total(RefundDebits(ledger, p)) + amount
        /\ \A q \in Payments : q # p => RefundDebits(ledger', q) = RefundDebits(ledger, q)
    BY <1>0, <2>1, DebitsGrow
  <2>7. /\ BookedRefund'[p] = BookedRefund[p] + amount
        /\ \A q \in Payments : q # p => BookedRefund'[q] = BookedRefund[q]
    BY <2>1, <2>6 DEF BookedRefund
  <2>8. \A q \in Payments : BookedRefund[q] \in Int /\ BookedRefund'[q] \in Int
    BY <1>1, <2>1, <2>7
  <2>9. SumFunctionOnSet(BookedRefund', Payments)
          = SumFunctionOnSet(BookedRefund, Payments) + BookedRefund'[p] - BookedRefund[p]
    BY <2>1, <2>7, <2>8, SumChange, FinitePayments
  <2>. QED
    BY <1>0, <1>1, <2>1, <2>3, <2>4, <2>5, <2>7, <2>9
<1>. QED
    BY <1>0, <1>2, <1>3, <1>4, LedgerGrows

LEMMA ReceivableInit == Init => ReceivableIsSum
<1>. SUFFICES ASSUME Init PROVE ReceivableIsSum
    OBVIOUS
<1>1. ledger = {}
    BY DEF Init
<1>2. ReceivableRows("debit") = {} /\ ReceivableRows("credit") = {}
      /\ \A p : RefundDebits(ledger, p) = {} /\ ~CaptureBooked(p)
    BY <1>1 DEF ReceivableRows, RefundDebits, CaptureBooked, CaptureTransfer
<1>3. \A p \in Payments : BookedCapture[p] = 0 /\ BookedRefund[p] = 0
    BY <1>2, TotalEmpty DEF BookedCapture, BookedRefund
<1>4. /\ SumFunctionOnSet(BookedCapture, Payments) = 0
      /\ SumFunctionOnSet(BookedRefund, Payments) = 0
    BY <1>3, SumZero, FinitePayments
<1>. QED
    BY <1>2, <1>4, TotalEmpty, ReceivableSums

\* A booked capture was collected.
LEMMA BookedCollected ==
    ASSUME LedgerReal, NEW p \in Payments, CaptureBooked(p)
    PROVE  stripe[p].status = "succeeded"
<1>. DEFINE d == Entry(p, "capture", 1, "psp_receivable", "debit", Amount)
<1>1. d \in ledger /\ d.transfer = <<p, "capture", 1>>
    BY DEF CaptureBooked, CaptureTransfer, Entry
<1>2. \A q, n, amount : \A r \in RefundTransfer(q, n, amount) : r.transfer = <<q, "refund", n>>
    BY DEF RefundTransfer, Entry
<1>3. \A q : \A r \in CaptureTransfer(q, 1, Amount) : r.transfer = <<q, "capture", 1>>
    BY DEF CaptureTransfer, Entry
<1>. HIDE DEF d
<1>4. PICK q \in Payments : d \in CaptureTransfer(q, 1, Amount) /\ stripe[q].status = "succeeded"
  <2>1. \A q, n, amount : d \notin RefundTransfer(q, n, amount)
    BY <1>1, <1>2
  <2>. QED
    BY <1>1, <2>1 DEF LedgerReal
<1>5. q = p
    BY <1>1, <1>3, <1>4
<1>. QED
    BY <1>4, <1>5

(***************************************************************************)
(* What the reconciliation finds, for any finite number of payments: once  *)
(* every collected payment is booked, the receivable of the ledger exceeds *)
(* Stripe's statement by exactly the refunds that Stripe made and the      *)
(* ledger does not have.  A balanced reconciliation therefore means that   *)
(* no refund was lost.                                                     *)
(***************************************************************************)
THEOREM ReconciliationFindsLost == Spec => []DifferenceIsLostRefunds
<1>1. BooksInv /\ ReceivableIsSum => DifferenceIsLostRefunds
  <2>. SUFFICES ASSUME BooksInv, ReceivableIsSum,
                       \A p \in Payments : stripe[p].status = "succeeded" => CaptureBooked(p)
                PROVE  Reconcile(ledger, StripeNet).difference =
                           SumFunction([p \in Payments |-> Total(UnbookedRefunds(p))])
    BY DEF DifferenceIsLostRefunds
  <2>. DEFINE net == [p \in Payments |->
                         (IF stripe[p].status = "succeeded" THEN Amount ELSE 0) - stripe[p].refunded]
              lost == [p \in Payments |-> Total(UnbookedRefunds(p))]
              back == [p \in Payments |-> BookedRefund[p] + lost[p]]
              sum(w) == SumFunctionOnSet(w, Payments)
  <2>1. /\ StripeNet = sum(net)
        /\ SumFunction(lost) = sum(lost)
    BY DEF StripeNet, SumFunction
  <2>2. Reconcile(ledger, StripeNet).difference
          = Total(ReceivableRows("debit")) - Total(ReceivableRows("credit")) - StripeNet
    BY DEF Reconcile, SumLedgerBalance, ExpectedAccount, ReceivableRows
  <2>3. /\ Total(ReceivableRows("debit")) = sum(BookedCapture)
        /\ Total(ReceivableRows("credit")) = sum(BookedRefund)
    BY ReceivableSums
  <2>4. \A p \in Payments :
            /\ lost[p] \in Int /\ BookedRefund[p] \in Int /\ back[p] \in Int /\ net[p] \in Int
            /\ back[p] = BookedRefund[p] + lost[p]
            /\ BookedCapture[p] = net[p] + back[p]
    <3>. SUFFICES ASSUME NEW p \in Payments
                  PROVE  /\ lost[p] \in Int /\ BookedRefund[p] \in Int
                         /\ back[p] \in Int /\ net[p] \in Int
                         /\ back[p] = BookedRefund[p] + lost[p]
                         /\ BookedCapture[p] = net[p] + back[p]
        OBVIOUS
    <3>1. BookedRefund[p] = Total(RefundDebits(ledger, p)) /\ lost[p] = Total(UnbookedRefunds(p))
          /\ BookedRefund[p] \in Nat /\ lost[p] \in Nat
        BY DebitsFinite, UnbookedFinite DEF BookedRefund, BooksInv
    <3>2. stripe[p].refunded = BookedRefund[p] + lost[p]
        BY <3>1 DEF BooksInv, PaidBackIsKnown
    <3>3. CaptureBooked(p) <=> stripe[p].status = "succeeded"
        BY BookedCollected DEF BooksInv, LedgerInv
    <3>4. net[p] = BookedCapture[p] - stripe[p].refunded /\ BookedCapture[p] \in Nat
        BY <3>3, ConstantsAssumption DEF BookedCapture
    <3>. QED
        BY <3>1, <3>2, <3>4
  <2>. HIDE DEF net, lost, back
  <2>5. sum(BookedCapture) = sum(net) + sum(back) /\ sum(back) = sum(BookedRefund) + sum(lost)
    BY <2>4, SumPlus, FinitePayments
  <2>6. sum(net) \in Int /\ sum(lost) \in Int /\ sum(BookedRefund) \in Int
    BY <2>4, SumInt, FinitePayments
  <2>. HIDE DEF sum
  <2>7. Reconcile(ledger, StripeNet).difference = sum(lost)
    BY <2>1, <2>2, <2>3, <2>5, <2>6
  <2>. QED
    BY <2>1, <2>7 DEF lost
<1>2. BooksInv /\ ReceivableIsSum /\ [Next]_vars => ReceivableIsSum'
    BY ReceivableStep
<1>. QED
    BY <1>1, <1>2, BooksInvHolds, ReceivableInit, PTL DEF Spec

-----------------------------------------------------------------------------
(* The settlement implements Books.                                        *)

\* All that Books speaks of stays.
Seen == UNCHANGED <<Collected, Repaid, StateOf, RefundedOf, CapturesBooked, RefundsBooked>>

LEMMA SameTable ==
    ASSUME NEW s, NEW event
    PROVE  /\ Books!IsAllowed(s, event) <=> IsAllowed(s, event)
           /\ Books!Target(s, event) = Target(s, event)
BY DEF Books!IsAllowed, IsAllowed, Books!Target, Target, Books!States, States,
       Books!Transitions, Transitions

LEMMA SameStripe == UNCHANGED stripe => UNCHANGED <<Collected, Repaid>>
BY DEF Collected, Repaid

LEMMA SameRows == UNCHANGED payments => UNCHANGED <<StateOf, RefundedOf>>
BY DEF StateOf, RefundedOf

LEMMA SameLedger == UNCHANGED ledger => UNCHANGED <<CapturesBooked, RefundsBooked>>
BY DEF CapturesBooked, CaptureBooked, RefundsBooked

LEMMA SameBooks == UNCHANGED <<stripe, payments, ledger>> => Seen
BY SameStripe, SameRows, SameLedger DEF Seen

\* One row of payments changes.
LEMMA OneRow ==
    ASSUME TypeInv, NEW p \in Payments, NEW row, payments' = [payments EXCEPT ![p] = row]
    PROVE  /\ StateOf' = [StateOf EXCEPT ![p] = row.state]
           /\ RefundedOf' = [RefundedOf EXCEPT ![p] = row.refunded]
BY DEF TypeInv, TypeOK, StateOf, RefundedOf

\* Stripe reports a status: at most the price is collected.
LEMMA ReportedSeen ==
    ASSUME TypeInv, NEW p \in Payments, NEW kind \in Kinds,
           NEW status \in {"requires_payment", "requires_capture", "succeeded", "canceled"},
           stripe[p].status = "succeeded" => status = "succeeded",
           stripe' = [stripe EXCEPT ![p] = Reported(stripe[p], status, kind)],
           UNCHANGED <<payments, ledger>>
    PROVE  Seen \/ Books!Collect(p)
<1>1. stripe[p] \in Intents
    BY DEF TypeInv, TypeOK
<1>2. /\ Reported(stripe[p], status, kind).status = status
      /\ Reported(stripe[p], status, kind).refunds = stripe[p].refunds
    BY <1>1, ReportedType
<1>3. Repaid' = Repaid
    BY <1>2 DEF Repaid, TypeInv, TypeOK
<1>4. Collected' = Collected \/ Collected' = Collected \cup {p}
    BY <1>2 DEF Collected, TypeInv, TypeOK
<1>. QED
    BY <1>3, <1>4, SameRows, SameLedger DEF Seen, Books!Collect

\* What inserting a capture does to the books.
LEMMA CaptureSeen ==
    ASSUME BothSides, NEW p \in Payments, ledger' = Insert(ledger, CaptureTransfer(p, 1, Amount))
    PROVE  /\ CapturesBooked' = CapturesBooked \cup {p}
           /\ RefundsBooked' = RefundsBooked
<1>1. \A q : RefundDebits(ledger', q) = RefundDebits(ledger, q)
    BY CaptureDebits
<1>2. CASE CaptureBooked(p)
  <2>1. ledger' = ledger /\ p \in CapturesBooked
    BY <1>2, CaptureInsert DEF CapturesBooked
  <2>. QED
    BY <2>1, SameLedger
<1>3. CASE ~CaptureBooked(p)
  <2>1. ledger' = ledger \cup CaptureTransfer(p, 1, Amount)
    BY <1>3, CaptureInsert
  <2>2. \A q \in Payments : \A r \in CaptureTransfer(q, 1, Amount) : r.transfer[1] = q
    BY DEF CaptureTransfer, Entry
  <2>3. \A q \in Payments : CaptureBooked(q)' <=> CaptureBooked(q) \/ q = p
    BY <2>1, <2>2 DEF CaptureBooked
  <2>. QED
    BY <1>1, <2>3 DEF CapturesBooked, RefundsBooked
<1>. QED
    BY <1>2, <1>3

\* What applying one event does to the state that Books speaks of.
LEMMA AppliedState ==
    ASSUME NEW row \in PaymentRows, NEW event, NEW actor
    PROVE  /\ Applied(row, event, actor).state = Target(row.state, event)
           /\ Applied(row, event, actor).refunded = row.refunded
BY MovedFields DEF Applied

LEMMA TableTargets ==
    /\ Target("created", "AuthorizeSucceeded") = "authorized"
    /\ Target("authorized", "Capture") = "captured"
    /\ \A s \in States :
          /\ IsAllowed(s, "AuthorizeSucceeded") <=> s = "created"
          /\ IsAllowed(s, "Capture") <=> s = "authorized"
          /\ IsAllowed(s, "Expire") => Target(s, "Expire") = "expired"
          /\ IsAllowed(s, "RefundFull") =>
                 s \in {"captured", "partially_refunded"} /\ Target(s, "RefundFull") = "refunded"
          /\ IsAllowed(s, "RefundPartial") =>
                 /\ s \in {"captured", "partially_refunded"}
                 /\ Target(s, "RefundPartial") = "partially_refunded"
<1>1. /\ IsAllowed("created", "AuthorizeSucceeded")
      /\ IsAllowed("authorized", "Capture")
    BY DEF IsAllowed, Transitions, States
<1>2. \A s, to : /\ <<s, "AuthorizeSucceeded", to>> \in Transitions => s = "created" /\ to = "authorized"
                 /\ <<s, "Capture", to>> \in Transitions => s = "authorized" /\ to = "captured"
                 /\ <<s, "Expire", to>> \in Transitions => to = "expired"
                 /\ <<s, "RefundFull", to>> \in Transitions =>
                        s \in {"captured", "partially_refunded"} /\ to = "refunded"
                 /\ <<s, "RefundPartial", to>> \in Transitions =>
                        s \in {"captured", "partially_refunded"} /\ to = "partially_refunded"
    BY DEF Transitions
<1>3. ASSUME NEW s \in States, NEW event, IsAllowed(s, event)
      PROVE  <<s, event, Target(s, event)>> \in Transitions
    BY <1>3, TargetInTable
<1>4. Target("created", "AuthorizeSucceeded") = "authorized" /\ Target("authorized", "Capture") = "captured"
  <2>1. /\ <<"created", "AuthorizeSucceeded", Target("created", "AuthorizeSucceeded")>> \in Transitions
        /\ <<"authorized", "Capture", Target("authorized", "Capture")>> \in Transitions
    BY <1>1, TargetInTable
  <2>. QED
    BY <1>2, <2>1
<1>5. \A s \in States : /\ IsAllowed(s, "AuthorizeSucceeded") <=> s = "created"
                        /\ IsAllowed(s, "Capture") <=> s = "authorized"
  <2>. SUFFICES ASSUME NEW s \in States
                PROVE  /\ IsAllowed(s, "AuthorizeSucceeded") <=> s = "created"
                       /\ IsAllowed(s, "Capture") <=> s = "authorized"
    OBVIOUS
  <2>1. s = "created" => IsAllowed(s, "AuthorizeSucceeded")
    BY <1>1
  <2>2. s = "authorized" => IsAllowed(s, "Capture")
    BY <1>1
  <2>3. ASSUME IsAllowed(s, "AuthorizeSucceeded") PROVE s = "created"
    <3>1. <<s, "AuthorizeSucceeded", Target(s, "AuthorizeSucceeded")>> \in Transitions
        BY <2>3, TargetInTable
    <3>. QED
        BY <1>2, <3>1
  <2>4. ASSUME IsAllowed(s, "Capture") PROVE s = "authorized"
    <3>1. <<s, "Capture", Target(s, "Capture")>> \in Transitions
        BY <2>4, TargetInTable
    <3>. QED
        BY <1>2, <3>1
  <2>. QED
    BY <2>1, <2>2, <2>3, <2>4
<1>6. ASSUME NEW s \in States
      PROVE  /\ IsAllowed(s, "Expire") => Target(s, "Expire") = "expired"
             /\ IsAllowed(s, "RefundFull") =>
                    s \in {"captured", "partially_refunded"} /\ Target(s, "RefundFull") = "refunded"
             /\ IsAllowed(s, "RefundPartial") =>
                    /\ s \in {"captured", "partially_refunded"}
                    /\ Target(s, "RefundPartial") = "partially_refunded"
    BY <1>2, <1>3
<1>. QED
    BY <1>4, <1>5, <1>6

LEMMA SettledState ==
    ASSUME NEW row \in PaymentRows
    PROVE  /\ Settled(row).state = IF row.state \in {"created", "authorized"} THEN "captured"
                                                                            ELSE row.state
           /\ Settled(row).refunded = row.refunded
<1>. DEFINE next == AppliedIfAllowed(row, "AuthorizeSucceeded", "webhook")
<1>1. "AuthorizeSucceeded" \in Events /\ "webhook" \in Actors
    BY DEF Events, Actors
<1>2. next \in PaymentRows
    BY <1>1, AppliedIfAllowedType
<1>3. row.state \in States
    BY DEF PaymentRows
<1>4. /\ next.state = IF row.state = "created" THEN "authorized" ELSE row.state
      /\ next.refunded = row.refunded
    BY <1>3, AppliedState, TableTargets DEF AppliedIfAllowed
<1>. HIDE DEF next
<1>5. next.state \in States
    BY <1>2 DEF PaymentRows
<1>6. /\ AppliedIfAllowed(next, "Capture", "webhook").state
           = IF next.state = "authorized" THEN "captured" ELSE next.state
      /\ AppliedIfAllowed(next, "Capture", "webhook").refunded = next.refunded
    BY <1>2, <1>5, AppliedState, TableTargets DEF AppliedIfAllowed
<1>7. Settled(row) = AppliedIfAllowed(next, "Capture", "webhook")
    BY DEF Settled, next
<1>. QED
    BY <1>4, <1>6, <1>7

\* A capture is booked and counted in one step, by the relay or by an administrator.
LEMMA CaptureBooks ==
    ASSUME BooksInv, NEW p \in Payments, NEW row, stripe[p].status = "succeeded",
           payments' = [payments EXCEPT ![p] = row],
           row.state = IF payments[p].state \in {"created", "authorized"} THEN "captured"
                                                                        ELSE payments[p].state,
           row.refunded = payments[p].refunded,
           ledger' = Insert(ledger, CaptureTransfer(p, 1, Amount)), UNCHANGED stripe
    PROVE  Books!BookCapture(p)
<1>1. /\ StateOf' = [StateOf EXCEPT ![p] = row.state]
      /\ RefundedOf' = [RefundedOf EXCEPT ![p] = row.refunded]
    BY OneRow DEF BooksInv
<1>2. StateOf[p] = payments[p].state /\ RefundedOf[p] = payments[p].refunded
    BY DEF StateOf, RefundedOf
<1>3. RefundedOf' = RefundedOf
    BY <1>1, <1>2 DEF RefundedOf
<1>4. CapturesBooked' = CapturesBooked \cup {p} /\ RefundsBooked' = RefundsBooked
    BY CaptureSeen DEF BooksInv
<1>5. p \in Collected
    BY DEF Collected
<1>. QED
    BY <1>1, <1>2, <1>3, <1>4, <1>5, SameStripe DEF Books!BookCapture

\* What a committed refund adds to the refunds in the ledger.
LEMMA RefundSeen ==
    ASSUME BooksInv, NEW a \in Admins, RefundTx(a)
    PROVE  LET p == requests[a].payment
               f == [seq |-> requests[a].seq, amount |-> requests[a].amount]
           IN  /\ RefundsBooked' = [RefundsBooked EXCEPT ![p] = RefundsBooked[p] \cup {f}]
               /\ CapturesBooked' = CapturesBooked
<1>. DEFINE p == requests[a].payment
            n == requests[a].seq
            amount == requests[a].amount
            f == [seq |-> n, amount |-> amount]
            listed(e) == [seq |-> e.transfer[3], amount |-> e.amount]
<1>0. RowsInv
    BY DEF BooksInv, LedgerInv, RowsInv
<1>1. /\ p \in Payments /\ n \in Nat /\ amount \in Nat
      /\ f \in stripe[p].refunds
      /\ ledger' = IF n \in RefundSeqs(p) THEN ledger ELSE ledger \cup RefundTransfer(p, n, amount)
    BY <1>0, RefundTxEffect
<1>2. CASE n \in RefundSeqs(p)
  <2>1. PICK e \in RefundDebits(ledger, p) : e.transfer[3] = n
    BY <1>2 DEF RefundSeqs
  <2>2. PICK g \in stripe[p].refunds : g.seq = n /\ g.amount = e.amount
    BY <1>1, <2>1, BookedAtStripe DEF BooksInv, LedgerInv
  <2>3. g = f
    BY <1>1, <2>2 DEF BooksInv, StripeRefundsOK
  <2>4. listed(e) = f
    BY <2>1, <2>2, <2>3
  <2>5. f \in RefundsBooked[p]
    BY <1>1, <2>1, <2>4 DEF RefundsBooked
  <2>6. UNCHANGED <<CapturesBooked, RefundsBooked>>
    BY <1>1, <1>2, SameLedger
  <2>. HIDE DEF f, p
  <2>7. RefundsBooked = [RefundsBooked EXCEPT ![p] = RefundsBooked[p] \cup {f}]
    BY <2>5 DEF RefundsBooked
  <2>. QED
    BY <2>6, <2>7 DEF f, p
<1>3. CASE n \notin RefundSeqs(p)
  <2>. DEFINE d == Debit(p, n, amount)
  <2>1. ledger' = ledger \cup RefundTransfer(p, n, amount)
    BY <1>1, <1>3
  <2>2. /\ RefundDebits(ledger', p) = RefundDebits(ledger, p) \cup {d}
        /\ \A q : q # p => RefundDebits(ledger', q) = RefundDebits(ledger, q)
    BY <2>1, RefundDebitsAdd
  <2>3. listed(d) = f
    BY DEF Debit, Entry
  <2>4. \A q \in Payments : \A r \in CaptureTransfer(q, 1, Amount) :
            r \notin RefundTransfer(p, n, amount)
    BY DEF CaptureTransfer, RefundTransfer, Entry
  <2>5. CapturesBooked' = CapturesBooked
    BY <2>1, <2>4 DEF CapturesBooked, CaptureBooked
  <2>. HIDE DEF d, f, p
  <2>6. { listed(e) : e \in RefundDebits(ledger', p) }
          = { listed(e) : e \in RefundDebits(ledger, p) } \cup {f}
    BY <2>2, <2>3
  <2>7. RefundsBooked' = [RefundsBooked EXCEPT ![p] = RefundsBooked[p] \cup {f}]
    BY <1>1, <2>2, <2>6 DEF RefundsBooked
  <2>. QED
    BY <2>5, <2>7 DEF f, p
<1>. QED
    BY <1>2, <1>3

\* A refund is booked and counted in one step, and only one that Stripe made.
LEMMA RefundBooks ==
    ASSUME BooksInv, NEW a \in Admins, RefundTx(a)
    PROVE  \E p \in Payments : \E f \in Repaid[p] : Books!BookRefund(p, f)
<1>. DEFINE p == requests[a].payment
            amount == requests[a].amount
            f == [seq |-> requests[a].seq, amount |-> amount]
            row == payments[p]
            total == row.refunded + amount
            paid == [row EXCEPT !.refunded = total]
            new == Applied(paid, RefundEvent(total), "admin")
<1>0. RowsInv
    BY DEF BooksInv, LedgerInv, RowsInv
<1>1. p \in Payments /\ amount \in Nat /\ f \in stripe[p].refunds /\ stripe' = stripe
    BY <1>0, RefundTxEffect
<1>2. row \in PaymentRows /\ row.state \in States /\ Repaid[p] = stripe[p].refunds
    BY <1>1 DEF BooksInv, TypeInv, TypeOK, PaymentRows, Repaid
<1>3. total <= Amount /\ IsAllowed(row.state, RefundEvent(total))
    BY DEF RefundTx, RefundCommits
<1>4. paid \in PaymentRows /\ paid.refunded = total /\ paid.state = row.state
    BY <1>1, <1>2, <1>3, RefundedRowType DEF PaymentRows
<1>5. payments' = [payments EXCEPT ![p] = new]
    BY DEF RefundTx
<1>. HIDE DEF paid
<1>6. new.state = Target(row.state, RefundEvent(total)) /\ new.refunded = total
    BY <1>4, AppliedState
<1>. HIDE DEF total, new
<1>7. /\ row.state \in {"captured", "partially_refunded"}
      /\ new.state = IF total = Amount THEN "refunded" ELSE "partially_refunded"
    BY <1>2, <1>3, <1>6, TableTargets DEF RefundEvent
<1>8. StateOf' = [StateOf EXCEPT ![p] = new.state] /\ RefundedOf' = [RefundedOf EXCEPT ![p] = total]
    BY <1>1, <1>5, <1>6, OneRow DEF BooksInv
<1>9. RefundsBooked' = [RefundsBooked EXCEPT ![p] = RefundsBooked[p] \cup {f}]
      /\ CapturesBooked' = CapturesBooked
    BY RefundSeen
<1>10. p \in CapturesBooked
    BY <1>1, <1>7 DEF BooksInv, LedgerInv, CapturedInLedger, CapturedStates, CapturesBooked
<1>11. /\ StateOf[p] = row.state /\ RefundedOf[p] + f.amount = total
       /\ [RefundedOf EXCEPT ![p] = @ + f.amount] = [RefundedOf EXCEPT ![p] = total]
    BY <1>1 DEF StateOf, RefundedOf, total
<1>12. UNCHANGED <<Collected, Repaid>>
    BY <1>1, SameStripe
<1>13. Books!BookRefund(p, f)
    BY <1>3, <1>7, <1>8, <1>9, <1>10, <1>11, <1>12 DEF Books!BookRefund
<1>. QED
    BY <1>1, <1>2, <1>13

\* Stripe pays back under a number that follows the booked refunds.
LEMMA RefundRepays ==
    ASSUME BooksInv, NEW a \in Admins, RefundAtStripe(a)
    PROVE  \/ Seen
           \/ \E p \in Payments : \E n \in Books!Numbers(p), amount \in 1 .. Amount :
                  Books!Repay(p, n, amount)
<1>. DEFINE r == requests[a]
            p == r.payment
            intent == stripe[p]
<1>1. /\ p \in Payments /\ r.amount \in Nat \ {0} /\ r.seq \in Nat
      /\ intent \in Intents
    BY DEF RefundAtStripe, BooksInv, TypeInv, TypeOK, RequestsOK, Requests, AmountsPositive
<1>2. UNCHANGED <<payments, ledger>>
    BY DEF RefundAtStripe
<1>3. CASE UNCHANGED stripe
    BY <1>2, <1>3, SameBooks
<1>4. CASE /\ Refundable(intent, r)
           /\ stripe' = [stripe EXCEPT ![p] = PaidBack(intent, r)]
  <2>. DEFINE f == [seq |-> r.seq, amount |-> r.amount]
  <2>1. /\ PaidBack(intent, r).status = intent.status
        /\ PaidBack(intent, r).refunds = intent.refunds \cup {f}
    BY <1>1, <1>4, PaidBackType
  <2>2. Collected' = Collected
    BY <1>1, <1>4, <2>1 DEF Collected, BooksInv, TypeInv, TypeOK
  <2>3. Repaid' = [Repaid EXCEPT ![p] = Repaid[p] \cup {f}]
    BY <1>1, <1>4, <2>1 DEF Repaid, BooksInv, TypeInv, TypeOK
  <2>4. r.amount \in 1 .. Amount
    BY <1>1, <1>4, ConstantsAssumption DEF Refundable, Intents
  <2>5. p \in Collected /\ \A g \in Repaid[p] : g.seq # r.seq
    BY <1>1, <1>4 DEF Refundable, Collected, Repaid
  <2>6. r.seq \in Books!Numbers(p)
    <3>1. /\ r.seq \in 1 .. NextNumber(p)
          /\ RefundSeqs(p) = 1 .. Cardinality(RefundDebits(ledger, p))
        BY <1>1 DEF RefundAtStripe, BooksInv, Numbered
    <3>2. Cardinality(RefundDebits(ledger, p)) \in Nat
        BY <1>1, DebitsFinite DEF BooksInv
    <3>3. r.seq = 1 \/ r.seq - 1 \in RefundSeqs(p)
        BY <3>1, <3>2 DEF NextNumber
    <3>4. CASE r.seq = 1
        BY <3>4 DEF Books!Numbers
    <3>5. ASSUME NEW e \in RefundDebits(ledger, p), e.transfer[3] = r.seq - 1
          PROVE  r.seq \in Books!Numbers(p)
      <4>. DEFINE g == [seq |-> e.transfer[3], amount |-> e.amount]
      <4>1. g \in RefundsBooked[p] /\ g.seq + 1 = r.seq
        BY <1>1, <3>5 DEF RefundsBooked
      <4>. HIDE DEF g
      <4>. QED
        BY <4>1 DEF Books!Numbers
    <3>. QED
        BY <3>3, <3>4, <3>5 DEF RefundSeqs
  <2>7. UNCHANGED <<StateOf, RefundedOf, CapturesBooked, RefundsBooked>>
    BY <1>2, SameRows, SameLedger
  <2>8. Books!Repay(p, r.seq, r.amount)
    BY <2>2, <2>3, <2>5, <2>7 DEF Books!Repay
  <2>. HIDE DEF r
  <2>. QED
    BY <1>1, <2>4, <2>6, <2>8
<1>. QED
    BY <1>3, <1>4 DEF RefundAtStripe

\* A handled event moves the payment, or books its capture.
LEMMA HandledBooks ==
    ASSUME BooksInv, NEW e \in StripeEvents, RelayDone(e)
    PROVE  \E p \in Payments :
               \/ \E event \in {"AuthorizeSucceeded", "AuthorizeFailed", "Cancel"} :
                      Books!Move(p, event)
               \/ Books!BookCapture(p)
<1>. DEFINE p == e.payment
            row == payments[p]
<1>1. p \in Payments /\ e.kind \in Kinds /\ stripe' = stripe /\ row \in PaymentRows
    BY DEF RelayDone, StripeEvents, BooksInv, TypeInv, TypeOK
<1>2. CASE e.kind = "succeeded"
  <2>1. /\ payments' = [payments EXCEPT ![p] = Settled(row)]
        /\ ledger' = Insert(ledger, CaptureTransfer(p, 1, Amount))
    BY <1>2 DEF RelayDone, HandleSucceeded, Settled
  <2>2. stripe[p].status = "succeeded"
    <3>1. Recorded(e)
        BY DEF RelayDone, Recorded
    <3>. QED
        BY <1>1, <1>2, <3>1 DEF BooksInv, LedgerInv, Informed
  <2>3. /\ Settled(row).state = IF row.state \in {"created", "authorized"} THEN "captured"
                                                                          ELSE row.state
        /\ Settled(row).refunded = row.refunded
    BY <1>1, SettledState
  <2>4. Books!BookCapture(p)
    BY <1>1, <2>1, <2>2, <2>3, CaptureBooks
  <2>. QED
    BY <1>1, <2>4
<1>3. CASE e.kind # "succeeded"
  <2>. DEFINE event == EventOf(e.kind)
              new == Applied(row, event, "webhook")
  <2>1. event \in {"AuthorizeSucceeded", "AuthorizeFailed", "Cancel"}
    BY <1>1, <1>3 DEF EventOf, Kinds
  <2>2. IsAllowed(row.state, event)
    BY <1>3 DEF RelayDone, HandlerAccepts
  <2>3. payments' = [payments EXCEPT ![p] = new] /\ UNCHANGED <<stripe, ledger>>
    BY <1>1, <1>3 DEF RelayDone, HandleOther
  <2>4. new.state = Target(row.state, event) /\ new.refunded = row.refunded
    BY <1>1, AppliedState
  <2>. HIDE DEF event, new
  <2>5. /\ StateOf' = [StateOf EXCEPT ![p] = Target(row.state, event)]
        /\ RefundedOf' = [RefundedOf EXCEPT ![p] = row.refunded]
    <3>1. TypeInv
        BY DEF BooksInv
    <3>2. /\ StateOf' = [StateOf EXCEPT ![p] = new.state]
          /\ RefundedOf' = [RefundedOf EXCEPT ![p] = new.refunded]
        BY <1>1, <2>3, <3>1, OneRow
    <3>. QED
        BY <2>4, <3>2
  <2>6. StateOf[p] = row.state /\ RefundedOf' = RefundedOf
    BY <1>1, <2>5 DEF StateOf, RefundedOf
  <2>7. Books!IsAllowed(StateOf[p], event) /\ Books!Target(StateOf[p], event) = Target(row.state, event)
    BY <2>2, <2>6, SameTable
  <2>8. UNCHANGED <<Collected, Repaid, CapturesBooked, RefundsBooked>>
    BY <2>3, SameStripe, SameLedger
  <2>9. Books!Move(p, event)
    BY <2>5, <2>6, <2>7, <2>8 DEF Books!Move
  <2>. QED
    BY <1>1, <2>1, <2>9
<1>. QED
    BY <1>2, <1>3

LEMMA ExpiredBooks ==
    ASSUME BooksInv, NEW from \in {"created", "authorized"}, NEW old \in SUBSET Payments,
           Expire(from, old)
    PROVE  Books!Expire(old)
<1>1. \A p \in Payments :
          /\ payments[p] \in PaymentRows
          /\ payments'[p] = IF p \in old
                            THEN Moved(payments[p], from, "Expire", "expired", "housekeeping")
                            ELSE payments[p]
    BY DEF Expire, BooksInv, TypeInv, TypeOK
<1>2. \A p \in Payments :
          /\ payments'[p].state = IF p \in old THEN "expired" ELSE payments[p].state
          /\ payments'[p].refunded = payments[p].refunded
    BY <1>1, MovedFields
<1>3. /\ StateOf' = [p \in Payments |-> IF p \in old THEN "expired" ELSE StateOf[p]]
      /\ RefundedOf' = RefundedOf
    BY <1>2 DEF StateOf, RefundedOf
<1>4. \A p \in old : Books!IsAllowed(StateOf[p], "Expire")
  <2>1. IsAllowed("created", "Expire") /\ IsAllowed("authorized", "Expire")
    BY DEF IsAllowed, Transitions, States
  <2>2. \A p \in old : StateOf[p] = from
    BY DEF Expire, StateOf
  <2>. QED
    BY <2>1, <2>2, SameTable
<1>5. UNCHANGED <<Collected, Repaid, CapturesBooked, RefundsBooked>>
    BY SameStripe, SameLedger DEF Expire
<1>. QED
    BY <1>3, <1>4, <1>5 DEF Books!Expire

\* Stripe and the customer at most collect the price.
LEMMA CollectedSeen ==
    ASSUME BooksInv, NEW p \in Payments,
           CustomerAuthorizes(p) \/ CustomerPays(p) \/ CustomerDeclined(p) \/ StripeCancels(p)
    PROVE  Seen \/ Books!Collect(p)
<1>1. ASSUME NEW from, NEW kind \in Kinds,
             NEW status \in {"requires_payment", "requires_capture", "succeeded", "canceled"},
             StripeMoves(p, from, status, kind), "succeeded" \notin from
      PROVE  Seen \/ Books!Collect(p)
    BY <1>1, ReportedSeen DEF StripeMoves, BooksInv
<1>. QED
    BY <1>1 DEF CustomerAuthorizes, CustomerPays, CustomerDeclined, StripeCancels, Kinds

\* The steps of requests that only read, ask or give up.
LEMMA QuietSeen ==
    ASSUME NEW a \in Admins,
           \/ \E p \in Payments : CaptureCheck(a, p)
           \/ CaptureRefused(a) \/ CaptureTxRollback(a)
           \/ \E p \in Payments, amount \in RefundAmounts : RefundCheck(a, p, amount)
           \/ RefundSeq(a) \/ RefundRefused(a) \/ RefundTxRollback(a) \/ Abandon(a)
    PROVE  Seen
BY SameBooks DEF CaptureCheck, CaptureRefused, CaptureTxRollback, RefundCheck, RefundSeq,
                 RefundRefused, RefundTxRollback, Abandon

\* An administrator's capture, at Stripe and in the database.
LEMMA CaptureSteps ==
    ASSUME BooksInv, NEW a \in Admins, CaptureAtStripe(a) \/ CaptureTx(a)
    PROVE  Seen \/ \E p \in Payments : Books!Collect(p) \/ Books!BookCapture(p)
<1>. DEFINE p == requests[a].payment
            row == payments[p]
<1>1. p \in Payments /\ row \in PaymentRows /\ row.state \in States
    BY DEF CaptureAtStripe, CaptureTx, BooksInv, TypeInv, TypeOK, RequestsOK, PaymentRows
<1>2. CASE CaptureAtStripe(a)
  <2>1. /\ stripe' = [stripe EXCEPT ![p] = Reported(stripe[p], "succeeded", "succeeded")]
        /\ UNCHANGED <<payments, ledger>>
    BY <1>2 DEF CaptureAtStripe
  <2>2. "succeeded" \in Kinds /\ TypeInv
    BY DEF Kinds, BooksInv
  <2>. QED
    BY <1>1, <2>1, <2>2, ReportedSeen
<1>3. CASE CaptureTx(a)
  <2>. DEFINE new == Applied(row, "Capture", "admin")
  <2>1. /\ IsAllowed(row.state, "Capture")
        /\ payments' = [payments EXCEPT ![p] = new]
        /\ ledger' = Insert(ledger, CaptureTransfer(p, 1, Amount))
        /\ UNCHANGED stripe
    BY <1>3 DEF CaptureTx
  <2>2. stripe[p].status = "succeeded"
    BY <1>3 DEF CaptureTx, BooksInv, LedgerInv, Informed
  <2>3. row.state = "authorized" /\ new.state = "captured" /\ new.refunded = row.refunded
    BY <1>1, <2>1, AppliedState, TableTargets
  <2>. HIDE DEF new
  <2>4. Books!BookCapture(p)
    BY <1>1, <2>1, <2>2, <2>3, CaptureBooks
  <2>. QED
    BY <1>1, <2>4
<1>. QED
    BY <1>2, <1>3

LEMMA BooksRefined == BooksInv /\ [Next]_vars => [Books!Next]_(Books!vars)
<1>. SUFFICES ASSUME BooksInv, [Next]_vars PROVE Seen \/ Books!Next
    BY DEF Seen, Books!vars
<1>1. CASE UNCHANGED vars
    BY <1>1, SameBooks DEF vars
<1>2. ASSUME NEW p \in Payments,
             CustomerAuthorizes(p) \/ CustomerPays(p) \/ CustomerDeclined(p) \/ StripeCancels(p)
      PROVE  Seen \/ Books!Next
    BY <1>2, CollectedSeen DEF Books!Next
<1>3. ASSUME NEW e \in StripeEvents, Deliver(e) \/ RelayRetries(e)
      PROVE  Seen
    BY <1>3, SameBooks DEF Deliver, RelayRetries
<1>4. ASSUME NEW e \in StripeEvents, RelayDone(e)
      PROVE  Books!Next
    BY <1>4, HandledBooks DEF Books!Next
<1>5. ASSUME NEW from \in {"created", "authorized"}, NEW old \in SUBSET Payments, Expire(from, old)
      PROVE  Books!Next
    BY <1>5, ExpiredBooks DEF Books!Next
<1>6. ASSUME NEW a \in Admins, CaptureAtStripe(a) \/ CaptureTx(a)
      PROVE  Seen \/ Books!Next
    BY <1>6, CaptureSteps DEF Books!Next
<1>7. ASSUME NEW a \in Admins, RefundAtStripe(a)
      PROVE  Seen \/ Books!Next
    BY <1>7, RefundRepays DEF Books!Next
<1>8. ASSUME NEW a \in Admins, RefundTx(a)
      PROVE  Books!Next
    BY <1>8, RefundBooks DEF Books!Next
<1>. QED
    BY <1>1, <1>2, <1>3, <1>4, <1>5, <1>6, <1>7, <1>8, QuietSeen DEF Next

(***************************************************************************)
(* The settlement implements Books, for any number of payments, requests   *)
(* and amounts: however relay, housekeeping and administrators interleave  *)
(* and wherever a request is lost, money is booked after Stripe moved it,  *)
(* in the step that changes the payment, and nothing booked is taken back. *)
(***************************************************************************)
THEOREM BooksKept == Spec => KeepsBooks
<1>1. Init => Books!Init
  <2>. SUFFICES ASSUME Init PROVE Books!Init
    OBVIOUS
  <2>1. Collected = {} /\ Repaid = [p \in Payments |-> {}]
    BY DEF Init, Collected, Repaid
  <2>2. StateOf = [p \in Payments |-> "created"] /\ RefundedOf = [p \in Payments |-> 0]
    BY DEF Init, StateOf, RefundedOf
  <2>3. CapturesBooked = {} /\ RefundsBooked = [p \in Payments |-> {}]
    BY DEF Init, CapturesBooked, CaptureBooked, CaptureTransfer, RefundsBooked, RefundDebits
  <2>. QED
    BY <2>1, <2>2, <2>3 DEF Books!Init
<1>. QED
    BY <1>1, BooksInvHolds, BooksRefined, PTL DEF Spec, KeepsBooks, Books!Spec

-----------------------------------------------------------------------------
(* The audit log.                                                          *)

AuditSum(p) == SumFunction([i \in AuditRefunds(p) |-> audit[i].amount])

LEMMA AuditFinite ==
    ASSUME TypeInv, NEW p
    PROVE  /\ IsFiniteSet(AuditRefunds(p))
           /\ \A i \in AuditRefunds(p) : i \in 1 .. Len(audit) /\ audit[i].amount \in Nat
           /\ AuditSum(p) \in Nat
<1>. DEFINE w == [i \in AuditRefunds(p) |-> audit[i].amount]
<1>1. audit \in Seq(AuditRows) /\ Len(audit) \in Nat
    BY DEF TypeInv, TypeOK
<1>2. AuditRefunds(p) \in SUBSET (1 .. Len(audit))
    BY <1>1 DEF AuditRefunds
<1>3. IsFiniteSet(1 .. Len(audit))
    BY <1>1, FS_Interval
<1>4. IsFiniteSet(AuditRefunds(p))
    BY <1>2, <1>3, FS_Subset
<1>5. \A i \in AuditRefunds(p) : i \in 1 .. Len(audit) /\ audit[i].amount \in Nat
  <2>1. \A i \in 1 .. Len(audit) : audit[i] \in AuditRows
    BY <1>1
  <2>. QED
    BY <1>2, <2>1 DEF AuditRows
<1>6. AuditSum(p) = SumFunctionOnSet(w, AuditRefunds(p)) /\ \A i \in AuditRefunds(p) : w[i] \in Nat
    BY <1>5 DEF AuditSum, SumFunction
<1>. HIDE DEF w
<1>7. SumFunctionOnSet(w, AuditRefunds(p)) \in Nat
    BY <1>4, <1>6, SumNat
<1>. QED
    BY <1>4, <1>5, <1>6, <1>7

\* A row of something else, or of another payment, leaves the refunds of p alone.
LEMMA AuditOther ==
    ASSUME TypeInv, NEW p, NEW row \in AuditRows, audit' = Append(audit, row),
           row.action = "capture" \/ row.payment # p
    PROVE  /\ AuditRefunds(p)' = AuditRefunds(p)
           /\ \A i \in AuditRefunds(p) : audit'[i] = audit[i]
           /\ AuditSum(p)' = AuditSum(p)
<1>1. /\ audit \in Seq(AuditRows) /\ Len(audit) \in Nat /\ DOMAIN audit = 1 .. Len(audit)
      /\ DOMAIN audit' = 1 .. Len(audit) + 1
      /\ audit'[Len(audit) + 1] = row
      /\ \A i \in 1 .. Len(audit) : audit'[i] = audit[i]
    BY DEF TypeInv, TypeOK
<1>2. AuditRefunds(p)' = AuditRefunds(p) /\ \A i \in AuditRefunds(p) : audit'[i] = audit[i]
    BY <1>1 DEF AuditRefunds
<1>3. [i \in AuditRefunds(p)' |-> audit'[i].amount] = [i \in AuditRefunds(p) |-> audit[i].amount]
    BY <1>2
<1>. QED
    BY <1>2, <1>3 DEF AuditSum

LEMMA AuditAdd ==
    ASSUME TypeInv, NEW row \in AuditRows, audit' = Append(audit, row), row.action = "refund",
           NEW p, row.payment = p
    PROVE  /\ \E k : /\ k \notin AuditRefunds(p)
                     /\ AuditRefunds(p)' = AuditRefunds(p) \cup {k}
                     /\ audit'[k] = row
           /\ \A i \in AuditRefunds(p) : audit'[i] = audit[i]
           /\ AuditSum(p)' = AuditSum(p) + row.amount
<1>. DEFINE rows == AuditRefunds(p)
            k == Len(audit) + 1
            v == [i \in rows |-> audit[i].amount]
            w == [i \in rows \cup {k} |-> audit'[i].amount]
<1>1. /\ audit \in Seq(AuditRows) /\ Len(audit) \in Nat /\ DOMAIN audit = 1 .. Len(audit)
      /\ DOMAIN audit' = 1 .. Len(audit) + 1
      /\ audit'[Len(audit) + 1] = row
      /\ \A i \in 1 .. Len(audit) : audit'[i] = audit[i]
      /\ row.amount \in Nat
    BY DEF TypeInv, TypeOK, AuditRows
<1>2. AuditRefunds(p)' = rows \cup {k}
    BY <1>1 DEF AuditRefunds
<1>3. \A i \in rows : i \in 1 .. Len(audit) /\ audit[i].amount \in Nat
    BY AuditFinite
<1>4. IsFiniteSet(rows) /\ k \notin rows
    BY <1>1, <1>3, AuditFinite
<1>5. \A i \in rows : audit'[i] = audit[i]
    BY <1>1, <1>3
<1>6. AuditSum(p) = SumFunctionOnSet(v, rows)
    BY DEF AuditSum, SumFunction
<1>7. AuditSum(p)' = SumFunctionOnSet(w, rows \cup {k})
    BY <1>2 DEF AuditSum, SumFunction
<1>8. /\ \A i \in rows : v[i] = w[i] /\ w[i] \in Int
      /\ w[k] = row.amount /\ w[k] \in Int
    BY <1>1, <1>3, <1>5
<1>9. audit'[k] = row
    BY <1>1
<1>. HIDE DEF v, w, k, rows
<1>10. SumFunctionOnSet(v, rows) = SumFunctionOnSet(w, rows)
    BY <1>4, <1>8, SumAgree
<1>11. SumFunctionOnSet(w, rows \cup {k}) = w[k] + SumFunctionOnSet(w, rows)
    BY <1>4, <1>8, SumAdd
<1>12. SumFunctionOnSet(w, rows) \in Int
    BY <1>4, <1>8, SumInt
<1>13. AuditSum(p)' = AuditSum(p) + row.amount
    BY <1>1, <1>6, <1>7, <1>8, <1>10, <1>11, <1>12
<1>. QED
    BY <1>2, <1>4, <1>5, <1>9, <1>13 DEF rows

\* The refunds that the rows of a payment are about.
AuditedRefunds(p) == { AuditedRefund(i) : i \in AuditRefunds(p) }

RowsAreDistinct(p) ==
    \A i, j \in AuditRefunds(p) : AuditedRefund(i) = AuditedRefund(j) => i = j

(***************************************************************************)
(* The transaction of a refund writes the row and inserts into the ledger; *)
(* where no two refunds of the payment were under way its number is new.   *)
(***************************************************************************)
AuditInv ==
    \A p \in Payments :
        /\ AuditedRefunds(p) = RefundsBooked[p]
        /\ payments[p].refunded = AuditSum(p)
        /\ p \notin raced => RowsAreDistinct(p)

\* The log and the ledger say the same of q as before.
LEMMA AuditKept ==
    ASSUME AuditInv, [MCNext]_mcvars, NEW q \in Payments,
           AuditRefunds(q)' = AuditRefunds(q),
           \A i \in AuditRefunds(q) : audit'[i] = audit[i],
           AuditSum(q)' = AuditSum(q),
           RefundsBooked'[q] = RefundsBooked[q],
           payments'[q].refunded = payments[q].refunded
    PROVE  /\ AuditedRefunds(q)' = RefundsBooked'[q]
           /\ payments'[q].refunded = AuditSum(q)'
           /\ q \notin raced' => RowsAreDistinct(q)'
<1>1. \A i \in AuditRefunds(q) : AuditedRefund(i)' = AuditedRefund(i)
    BY DEF AuditedRefund
<1>2. AuditedRefunds(q)' = AuditedRefunds(q)
    BY <1>1 DEF AuditedRefunds
<1>3. RowsAreDistinct(q)' <=> RowsAreDistinct(q)
    BY <1>1 DEF RowsAreDistinct
<1>4. q \in raced => q \in raced'
    BY DEF MCNext, mcvars
<1>. QED
    BY <1>2, <1>3, <1>4 DEF AuditInv

LEMMA AuditStep == LoneInv /\ AuditInv /\ [MCNext]_mcvars => AuditInv'
<1>. SUFFICES ASSUME LoneInv, AuditInv, [MCNext]_mcvars, NEW q \in Payments
              PROVE  /\ AuditedRefunds(q)' = RefundsBooked'[q]
                     /\ payments'[q].refunded = AuditSum(q)'
                     /\ q \notin raced' => RowsAreDistinct(q)'
    BY DEF AuditInv
<1>0. BooksInv /\ RowsInv /\ TypeInv /\ [Next]_vars
    BY DEF MCNext, mcvars, LoneInv, BooksInv, RowsInv, LedgerInv
<1>1. ASSUME audit' = audit
      PROVE  /\ AuditRefunds(q)' = AuditRefunds(q)
             /\ \A i \in AuditRefunds(q) : audit'[i] = audit[i]
             /\ AuditSum(q)' = AuditSum(q)
    BY <1>1 DEF AuditRefunds, AuditSum
<1>2. CASE NoRefund
  <2>1. RefundsBooked'[q] = RefundsBooked[q]
    BY <1>2, QuietDebits DEF RefundsBooked
  <2>2. /\ AuditRefunds(q)' = AuditRefunds(q)
        /\ \A i \in AuditRefunds(q) : audit'[i] = audit[i]
        /\ AuditSum(q)' = AuditSum(q)
    BY <1>0, <1>1, <1>2, AuditOther DEF NoRefund
  <2>3. payments'[q].refunded = payments[q].refunded
    BY <1>2 DEF NoRefund
  <2>. QED
    BY <2>1, <2>2, <2>3, AuditKept
<1>3. ASSUME NEW a \in Admins, RefundSeq(a) \/ RefundAtStripe(a)
      PROVE  /\ AuditedRefunds(q)' = RefundsBooked'[q]
             /\ payments'[q].refunded = AuditSum(q)'
             /\ q \notin raced' => RowsAreDistinct(q)'
  <2>1. UNCHANGED <<audit, ledger, payments>>
    BY <1>3 DEF RefundSeq, RefundAtStripe
  <2>2. RefundsBooked' = RefundsBooked
    BY <2>1, SameLedger
  <2>. QED
    BY <1>1, <2>1, <2>2, AuditKept
<1>4. ASSUME NEW a \in Admins, RefundTx(a)
      PROVE  /\ AuditedRefunds(q)' = RefundsBooked'[q]
             /\ payments'[q].refunded = AuditSum(q)'
             /\ q \notin raced' => RowsAreDistinct(q)'
  <2>0. PICK p, n, amount :
            p = requests[a].payment /\ n = requests[a].seq /\ amount = requests[a].amount
    OBVIOUS
  <2>. DEFINE row == [action |-> "refund", payment |-> p, amount |-> amount, seq |-> n]
              f == [seq |-> n, amount |-> amount]
  <2>1. /\ p \in Payments /\ n \in Nat /\ amount \in Nat
        /\ payments'[p].refunded = payments[p].refunded + amount
        /\ \A r \in Payments : r # p => payments'[r] = payments[r]
        /\ audit' = Append(audit, row)
    BY <1>0, <1>4, <2>0, RefundTxEffect
  <2>2. /\ row \in AuditRows /\ row.action = "refund" /\ row.payment = p
        /\ row.amount = amount /\ row.seq = n
    BY <2>1 DEF AuditRows
  <2>3. RefundsBooked' = [RefundsBooked EXCEPT ![p] = RefundsBooked[p] \cup {f}]
    BY <1>0, <1>4, <2>0, RefundSeen
  <2>4. f = [seq |-> row.seq, amount |-> row.amount] /\ f.seq = n
    OBVIOUS
  <2>. HIDE DEF row, f
  <2>5. CASE q # p
    <3>1. RefundsBooked'[q] = RefundsBooked[q]
        BY <2>3, <2>5 DEF RefundsBooked
    <3>2. /\ AuditRefunds(q)' = AuditRefunds(q)
          /\ \A i \in AuditRefunds(q) : audit'[i] = audit[i]
          /\ AuditSum(q)' = AuditSum(q)
        BY <1>0, <2>1, <2>2, <2>5, AuditOther
    <3>. QED
        BY <2>1, <2>5, <3>1, <3>2, AuditKept
  <2>6. CASE q = p
    <3>1. PICK k : /\ k \notin AuditRefunds(q)
                   /\ AuditRefunds(q)' = AuditRefunds(q) \cup {k}
                   /\ audit'[k] = row
        BY <1>0, <2>1, <2>2, <2>6, AuditAdd
    <3>2. /\ \A i \in AuditRefunds(q) : audit'[i] = audit[i]
          /\ AuditSum(q)' = AuditSum(q) + amount
        BY <1>0, <2>1, <2>2, <2>6, AuditAdd
    <3>3. AuditedRefund(k)' = f /\ \A i \in AuditRefunds(q) : AuditedRefund(i)' = AuditedRefund(i)
        BY <2>4, <3>1, <3>2 DEF AuditedRefund
    <3>4. AuditedRefunds(q)' = AuditedRefunds(q) \cup {f}
        BY <3>1, <3>3 DEF AuditedRefunds
    <3>5. RefundsBooked'[q] = RefundsBooked[q] \cup {f}
        BY <2>3, <2>6 DEF RefundsBooked
    <3>6. AuditedRefunds(q) = RefundsBooked[q] /\ payments[q].refunded = AuditSum(q)
        BY DEF AuditInv
    <3>7. ASSUME q \notin raced'
          PROVE  RowsAreDistinct(q)'
      <4>1. q \notin raced /\ RowsAreDistinct(q)
        BY <3>7 DEF MCNext, mcvars, AuditInv
      <4>2. n \notin RefundSeqs(q)
        BY <1>4, <2>0, <2>6, <4>1, LoneRefundIsNew
      <4>3. f \notin RefundsBooked[q]
        BY <2>4, <4>2 DEF RefundsBooked, RefundSeqs
      <4>4. \A i \in AuditRefunds(q) : AuditedRefund(i) # f
        BY <3>6, <4>3 DEF AuditedRefunds
      <4>. QED
        BY <3>1, <3>3, <4>1, <4>4 DEF RowsAreDistinct
    <3>. QED
        BY <2>1, <2>6, <3>2, <3>4, <3>5, <3>6, <3>7
  <2>. QED
    BY <2>5, <2>6
<1>. QED
    BY <1>0, <1>2, <1>3, <1>4, BooksStep

LEMMA AuditInit == MCInit => AuditInv
<1>. SUFFICES ASSUME MCInit, NEW p \in Payments
              PROVE  /\ AuditedRefunds(p) = RefundsBooked[p]
                     /\ payments[p].refunded = AuditSum(p)
                     /\ RowsAreDistinct(p)
    BY DEF AuditInv
<1>. DEFINE w == [i \in AuditRefunds(p) |-> audit[i].amount]
<1>1. payments[p].refunded = 0 /\ AuditRefunds(p) = {} /\ RefundDebits(ledger, p) = {}
    BY DEF MCInit, Init, AuditRefunds, RefundDebits
<1>2. DOMAIN w = {} /\ AuditSum(p) = SumFunction(w)
    BY <1>1 DEF AuditSum
<1>. HIDE DEF w
<1>3. AuditSum(p) = 0
    BY <1>2, SumEmpty DEF SumFunction
<1>. QED
    BY <1>1, <1>3 DEF AuditedRefunds, RowsAreDistinct, RefundsBooked

\* Stripe's refunds that the ledger does not have, without their numbers.
LEMMA UnbookedAre ==
    ASSUME BooksInv, NEW p \in Payments
    PROVE  stripe[p].refunds \ RefundsBooked[p] = UnbookedRefunds(p)
<1>1. ASSUME NEW f \in stripe[p].refunds, f.seq \in RefundSeqs(p)
      PROVE  f \in RefundsBooked[p]
  <2>1. PICK e \in RefundDebits(ledger, p) : e.transfer[3] = f.seq
    BY <1>1 DEF RefundSeqs
  <2>2. PICK g \in stripe[p].refunds : g.seq = e.transfer[3] /\ g.amount = e.amount
    BY <2>1, BookedAtStripe DEF BooksInv, LedgerInv
  <2>3. f = g /\ f = [seq |-> f.seq, amount |-> f.amount]
    BY <2>1, <2>2 DEF BooksInv, StripeRefundsOK, TypeInv, TypeOK, Intents, StripeRefunds
  <2>. QED
    BY <2>1, <2>2, <2>3 DEF RefundsBooked
<1>2. ASSUME NEW f \in RefundsBooked[p]
      PROVE  f.seq \in RefundSeqs(p)
    BY <1>2 DEF RefundsBooked, RefundSeqs
<1>. QED
    BY <1>1, <1>2 DEF UnbookedRefunds

(***************************************************************************)
(* The audit log and the ledger name the same refunds of a payment, for    *)
(* any interleaving of any number of requests, lost ones included; what    *)
(* the log lists adds up to refunded_jpy, and it lists a refund twice only *)
(* where two refunds of the payment were under way at the same time.       *)
(***************************************************************************)
THEOREM RefundsAudited == MCSpec => []RefundsAreAudited
<1>1. LoneInv /\ AuditInv => RefundsAreAudited
    BY UnbookedAre DEF LoneInv, AuditInv, RefundsAreAudited, AuditedRefunds, AuditSum, RowsAreDistinct
<1>. QED
    BY <1>1, AuditInit, AuditStep, LoneInvHolds, PTL DEF MCSpec

=============================================================================
