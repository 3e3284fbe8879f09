----------------------------- MODULE Settlement -----------------------------
(***************************************************************************)
(* How a payment that has a Stripe PaymentIntent is settled.  Four actors  *)
(* work on the rows of one PostgreSQL database without calling each other: *)
(*                                                                         *)
(*   - the webhook receiver, which records what Stripe reports;            *)
(*   - the outbox relay, which applies a recorded event to the payment and *)
(*     to the ledger;                                                      *)
(*   - housekeeping, which expires payments that stay open too long;       *)
(*   - administrators, whose capture and refund requests read the row,     *)
(*     call Stripe and then write the row, in separate steps.              *)
(*                                                                         *)
(* Stripe and the customer are external.  A database transaction is one    *)
(* step: the code holds the row lock of the payment from its first         *)
(* statement on that row to the commit.                                    *)
(***************************************************************************)
EXTENDS Integers, Sequences, FiniteSets, StateMachine, Ledger

CONSTANTS
    Payments,       \* the payments, each linked to its PaymentIntent
    Admins,         \* one slot per administrator request in progress
    Amount,         \* the price of a payment
    RefundAmounts,  \* the amounts an administrator may ask to refund
    MaxInt,         \* the largest signed 64-bit integer
    MaxRetries,     \* Relay.MaxRetries
    ListLimit,      \* the 1000 of ListWebhookEvents(ctx, 1000)
    NoPayment,      \* the payment of an idle slot
    MayAbandon      \* whether a request may be lost between two of its steps

ASSUME ConstantsAssumption ==
    /\ MaxInt \in Nat
    /\ Amount \in 1 .. MaxInt
    /\ RefundAmounts \subseteq 1 .. MaxInt
    /\ MaxRetries \in Nat \ {0}
    /\ ListLimit \in Nat
    /\ NoPayment \notin Payments
    /\ MayAbandon \in BOOLEAN

VARIABLES
    payments,   \* payments and payment_transitions rows
    ledger,     \* ledger_entries rows
    audit,      \* audit_logs rows of captures and refunds, oldest first
    webhooks,   \* webhook_events rows in order of received_at
    outbox,     \* outbox_events rows, one per recorded webhook event
    stripe,     \* Stripe's side of each PaymentIntent
    requests    \* administrator requests in progress

vars == <<payments, ledger, audit, webhooks, outbox, stripe, requests>>

-----------------------------------------------------------------------------
(* Types.                                                                  *)

Kinds == {"amount_capturable_updated", "succeeded", "payment_failed", "canceled"}

\* A Stripe event; Stripe raises each kind at most once per PaymentIntent here.
StripeEvents == [payment : Payments, kind : Kinds]

HistoryRows == [from : States, event : Events, to : States, actor : {"webhook", "admin", "housekeeping"}]

PaymentRows == [state : States, refunded : 0 .. Amount, history : Seq(HistoryRows)]

OutboxRows == [status : {"absent", "pending", "done", "failed"}, retries : 0 .. MaxRetries]

StripeRefunds == [seq : Nat, amount : Nat]

Intents == [status : {"requires_payment", "requires_capture", "succeeded", "canceled"},
            events : SUBSET Kinds,
            refunds : SUBSET StripeRefunds,
            refunded : 0 .. Amount]

Steps == {"idle", "capture_stripe", "capture_tx", "refund_seq", "refund_stripe", "refund_tx"}

Requests == [step : Steps, payment : Payments \cup {NoPayment}, amount : Nat, seq : Nat]

\* A row has the id of Stripe's refund, which is known here by the number in its key.
AuditRows == [action : {"capture", "refund"}, payment : Payments, amount : Nat, seq : Nat]

Idle == [step |-> "idle", payment |-> NoPayment, amount |-> 0, seq |-> 0]

TransferIds == Payments \X {"capture", "refund"} \X Nat

LedgerRows == [transfer : TransferIds, account : Accounts, side : {"debit", "credit"}, amount : Nat]

(***************************************************************************)
(* The type invariant of the settlement state: the rows of the database,   *)
(* Stripe's records and the requests in progress.                          *)
(***************************************************************************)
TypeOK ==
    /\ payments \in [Payments -> PaymentRows]
    /\ ledger \in SUBSET LedgerRows
    /\ audit \in Seq(AuditRows)
    /\ webhooks \in Seq(StripeEvents)
    /\ outbox \in [StripeEvents -> OutboxRows]
    /\ stripe \in [Payments -> Intents]
    /\ requests \in [Admins -> Requests]

Init ==
    /\ payments = [p \in Payments |-> [state |-> "created", refunded |-> 0, history |-> <<>>]]
    /\ ledger = {}
    /\ audit = <<>>
    /\ webhooks = <<>>
    /\ outbox = [e \in StripeEvents |-> [status |-> "absent", retries |-> 0]]
    /\ stripe = [p \in Payments |-> [status |-> "requires_payment", events |-> {},
                                     refunds |-> {}, refunded |-> 0]]
    /\ requests = [a \in Admins |-> Idle]

-----------------------------------------------------------------------------
(* Stripe and the customer (external).                                     *)

\* The intent moves to a status and Stripe raises the event that reports it.
Reported(intent, status, kind) ==
    [intent EXCEPT !.status = status, !.events = @ \cup {kind}]

StripeMoves(p, from, status, kind) ==
    /\ stripe[p].status \in from
    /\ stripe' = [stripe EXCEPT ![p] = Reported(@, status, kind)]
    /\ UNCHANGED <<payments, ledger, audit, webhooks, outbox, requests>>

\* Confirmation in manual and in automatic capture mode.
CustomerAuthorizes(p) ==
    StripeMoves(p, {"requires_payment"}, "requires_capture", "amount_capturable_updated")

CustomerPays(p) == StripeMoves(p, {"requires_payment"}, "succeeded", "succeeded")

\* The intent stays open: the customer may try another card.
CustomerDeclined(p) ==
    /\ "payment_failed" \notin stripe[p].events
    /\ StripeMoves(p, {"requires_payment"}, "requires_payment", "payment_failed")

\* From Stripe's dashboard, or because the authorization lapsed at Stripe.
StripeCancels(p) ==
    StripeMoves(p, {"requires_payment", "requires_capture"}, "canceled", "canceled")

-----------------------------------------------------------------------------
(* The webhook receiver.                                                   *)

Recorded(e) == outbox[e].status # "absent"

\* Receiver.record.  A redelivery inserts no row and changes nothing.
Deliver(e) ==
    /\ e.kind \in stripe[e.payment].events
    /\ ~Recorded(e)
    /\ webhooks' = Append(webhooks, e)
    /\ outbox' = [outbox EXCEPT ![e] = [status |-> "pending", retries |-> 0]]
    /\ UNCHANGED <<payments, ledger, audit, stripe, requests>>

-----------------------------------------------------------------------------
(* The outbox relay and its handler.                                       *)

\* The new state and the payment_transitions row that goes with it.
Moved(row, from, event, to, actor) ==
    [row EXCEPT !.state = to,
                !.history = Append(@, [from |-> from, event |-> event,
                                       to |-> to, actor |-> actor])]

\* UseCase.ApplyEvent where the table allows the event.
Applied(row, event, actor) ==
    Moved(row, row.state, event, Target(row.state, event), actor)

\* ApplyEvent with ErrInvalidTransition ignored.
AppliedIfAllowed(row, event, actor) ==
    IF IsAllowed(row.state, event) THEN Applied(row, event, actor) ELSE row

\* The transition a webhook of one of the other kinds asks for.
EventOf(kind) ==
    CASE kind = "amount_capturable_updated" -> "AuthorizeSucceeded"
      [] kind = "payment_failed"            -> "AuthorizeFailed"
      [] kind = "canceled"                  -> "Cancel"

\* ListWebhookEvents returns the latest ListLimit events only.
Listed(e) ==
    \E i \in DOMAIN webhooks : webhooks[i] = e /\ i > Len(webhooks) - ListLimit

HandlerAccepts(e) ==
    /\ Listed(e)
    /\ e.kind # "succeeded" => IsAllowed(payments[e.payment].state, EventOf(e.kind))

\* Mutant: the transition is taken from authorized only.
HandleSucceededOnce(p) ==
    /\ payments' = [payments EXCEPT ![p] = AppliedIfAllowed(@, "Capture", "webhook")]
    /\ ledger' = Insert(ledger, CaptureTransfer(p, 1, Amount))

\* Mutant: captures are numbered like refunds, from the rows in the ledger.
HandleSucceededNumbered(p) ==
    /\ payments' = [payments EXCEPT ![p] =
           AppliedIfAllowed(AppliedIfAllowed(@, "AuthorizeSucceeded", "webhook"),
                            "Capture", "webhook")]
    /\ ledger' = Insert(ledger,
           CaptureTransfer(p, 1 + Cardinality(Booked(ledger, p, "capture")), Amount))

\* payment_intent.succeeded: both events in turn, then always the ledger.
HandleSucceeded(p) ==
    /\ payments' = [payments EXCEPT ![p] =
           AppliedIfAllowed(AppliedIfAllowed(@, "AuthorizeSucceeded", "webhook"),
                            "Capture", "webhook")]
    /\ ledger' = Insert(ledger, CaptureTransfer(p, 1, Amount))

HandleOther(p, kind) ==
    /\ payments' = [payments EXCEPT ![p] = Applied(@, EventOf(kind), "webhook")]
    /\ UNCHANGED ledger

\* handleOne after a handler that returned nil.
RelayDone(e) ==
    /\ outbox[e].status = "pending"
    /\ HandlerAccepts(e)
    /\ IF e.kind = "succeeded" THEN HandleSucceeded(e.payment)
                               ELSE HandleOther(e.payment, e.kind)
    /\ outbox' = [outbox EXCEPT ![e].status = "done"]
    /\ UNCHANGED <<audit, webhooks, stripe, requests>>

\* Mutant: one retry too many.
RelayRetriesPastMax(e) ==
    /\ outbox[e].status = "pending"
    /\ ~HandlerAccepts(e)
    /\ outbox' = [outbox EXCEPT ![e] =
           [status |-> IF @.retries + 1 > MaxRetries THEN "failed" ELSE "pending",
            retries |-> @.retries + 1]]
    /\ UNCHANGED <<payments, ledger, audit, webhooks, stripe, requests>>

\* handleOne after a handler that returned an error.
RelayRetries(e) ==
    /\ outbox[e].status = "pending"
    /\ ~HandlerAccepts(e)
    /\ outbox' = [outbox EXCEPT ![e] =
           [status |-> IF @.retries + 1 >= MaxRetries THEN "failed" ELSE "pending",
            retries |-> @.retries + 1]]
    /\ UNCHANGED <<payments, ledger, audit, webhooks, stripe, requests>>

-----------------------------------------------------------------------------
(* Housekeeping.                                                           *)

\* Mutant: the rows are chosen first and updated by id, without WHERE state = from.
ExpireChosenEarlier(from, old) ==
    /\ old # {}
    /\ \A p \in old : payments[p].state \in {"created", "authorized"}
    /\ payments' = [p \in Payments |->
           IF p \in old THEN Moved(payments[p], from, "Expire", "expired", "housekeeping")
                        ELSE payments[p]]
    /\ UNCHANGED <<ledger, audit, webhooks, outbox, stripe, requests>>

\* expireBy for one state: the rows older than the cutoff, in one transaction.
Expire(from, old) ==
    /\ old # {}
    /\ \A p \in old : payments[p].state = from
    /\ payments' = [p \in Payments |->
           IF p \in old THEN Moved(payments[p], from, "Expire", "expired", "housekeeping")
                        ELSE payments[p]]
    /\ UNCHANGED <<ledger, audit, webhooks, outbox, stripe, requests>>

-----------------------------------------------------------------------------
(* An administrator's capture.                                             *)

CaptureCheck(a, p) ==
    /\ requests[a].step = "idle"
    /\ payments[p].state = "authorized"
    /\ requests' = [requests EXCEPT ![a] = [Idle EXCEPT !.step = "capture_stripe", !.payment = p]]
    /\ UNCHANGED <<payments, ledger, audit, webhooks, outbox, stripe>>

\* The capture key is derived from the payment: a second call gets the first answer.
CaptureAtStripe(a) ==
    LET p == requests[a].payment
    IN  /\ requests[a].step = "capture_stripe"
        /\ stripe[p].status \in {"requires_capture", "succeeded"}
        /\ stripe' = [stripe EXCEPT ![p] = Reported(@, "succeeded", "succeeded")]
        /\ requests' = [requests EXCEPT ![a].step = "capture_tx"]
        /\ UNCHANGED <<payments, ledger, audit, webhooks, outbox>>

CaptureRefused(a) ==
    /\ requests[a].step = "capture_stripe"
    /\ stripe[requests[a].payment].status \notin {"requires_capture", "succeeded"}
    /\ requests' = [requests EXCEPT ![a] = Idle]
    /\ UNCHANGED <<payments, ledger, audit, webhooks, outbox, stripe>>

CaptureTx(a) ==
    LET p == requests[a].payment
    IN  /\ requests[a].step = "capture_tx"
        /\ IsAllowed(payments[p].state, "Capture")
        /\ payments' = [payments EXCEPT ![p] = Applied(@, "Capture", "admin")]
        /\ ledger' = Insert(ledger, CaptureTransfer(p, 1, Amount))
        /\ audit' = Append(audit, [action |-> "capture", payment |-> p,
                                   amount |-> Amount, seq |-> 0])
        /\ requests' = [requests EXCEPT ![a] = Idle]
        /\ UNCHANGED <<webhooks, outbox, stripe>>

\* ErrInvalidTransition rolls the whole transaction back, audit row included.
CaptureTxRollback(a) ==
    /\ requests[a].step = "capture_tx"
    /\ ~IsAllowed(payments[requests[a].payment].state, "Capture")
    /\ requests' = [requests EXCEPT ![a] = Idle]
    /\ UNCHANGED <<payments, ledger, audit, webhooks, outbox, stripe>>

-----------------------------------------------------------------------------
(* An administrator's refund.                                              *)

\* A sum of two int64 values wraps around.
Wrapped(sum) == IF sum > MaxInt THEN sum - 2 * (MaxInt + 1) ELSE sum

RefundCheck(a, p, amount) ==
    /\ requests[a].step = "idle"
    /\ Wrapped(payments[p].refunded + amount) <= Amount
    /\ requests' = [requests EXCEPT ![a] = [step |-> "refund_seq", payment |-> p,
                                            amount |-> amount, seq |-> 0]]
    /\ UNCHANGED <<payments, ledger, audit, webhooks, outbox, stripe>>

\* Mutant: every refund of a payment is number 1.
RefundSeqConstant(a) ==
    /\ requests[a].step = "refund_seq"
    /\ requests' = [requests EXCEPT ![a].step = "refund_stripe", ![a].seq = 1]
    /\ UNCHANGED <<payments, ledger, audit, webhooks, outbox, stripe>>

\* Mutant: the number follows the refunds Stripe lists, not those in the ledger.
RefundSeqFromStripe(a) ==
    /\ requests[a].step = "refund_seq"
    /\ requests' = [requests EXCEPT
           ![a].step = "refund_stripe",
           ![a].seq = 1 + Cardinality(stripe[requests[a].payment].refunds)]
    /\ UNCHANGED <<payments, ledger, audit, webhooks, outbox, stripe>>

\* nextRefundSeq, a read of its own.
RefundSeq(a) ==
    /\ requests[a].step = "refund_seq"
    /\ requests' = [requests EXCEPT
           ![a].step = "refund_stripe",
           ![a].seq = 1 + Cardinality(RefundDebits(ledger, requests[a].payment))]
    /\ UNCHANGED <<payments, ledger, audit, webhooks, outbox, stripe>>

\* The refund Stripe already made under this request's idempotency key.
Replays(intent, r) == [seq |-> r.seq, amount |-> r.amount] \in intent.refunds

\* A key Stripe has not seen, for an amount it can still refund.
Refundable(intent, r) ==
    /\ \A f \in intent.refunds : f.seq # r.seq
    /\ intent.status = "succeeded"
    /\ intent.refunded + r.amount <= Amount

PaidBack(intent, r) ==
    [intent EXCEPT !.refunds = @ \cup {[seq |-> r.seq, amount |-> r.amount]},
                   !.refunded = @ + r.amount]

RefundAtStripe(a) ==
    LET r == requests[a]
    IN  /\ r.step = "refund_stripe"
        /\ \/ /\ Replays(stripe[r.payment], r)
              /\ UNCHANGED stripe
           \/ /\ Refundable(stripe[r.payment], r)
              /\ stripe' = [stripe EXCEPT ![r.payment] = PaidBack(@, r)]
        /\ requests' = [requests EXCEPT ![a].step = "refund_tx"]
        /\ UNCHANGED <<payments, ledger, audit, webhooks, outbox>>

\* Mutant: whatever Stripe answers, the refund goes on.
RefundRefusedIgnored(a) ==
    LET r == requests[a]
    IN  /\ r.step = "refund_stripe"
        /\ ~Replays(stripe[r.payment], r)
        /\ ~Refundable(stripe[r.payment], r)
        /\ requests' = [requests EXCEPT ![a].step = "refund_tx"]
        /\ UNCHANGED <<payments, ledger, audit, webhooks, outbox, stripe>>

\* Not paid, too much, or idempotency_error for a key used with another amount.
RefundRefused(a) ==
    LET r == requests[a]
    IN  /\ r.step = "refund_stripe"
        /\ ~Replays(stripe[r.payment], r)
        /\ ~Refundable(stripe[r.payment], r)
        /\ requests' = [requests EXCEPT ![a] = Idle]
        /\ UNCHANGED <<payments, ledger, audit, webhooks, outbox, stripe>>

\* Mutant: the last refund is a partial one too.
RefundEventPartial(refunded) == "RefundPartial"

RefundEvent(refunded) == IF refunded = Amount THEN "RefundFull" ELSE "RefundPartial"

\* Mutant: the last yen of a payment cannot be refunded.
RefundCommitsBelow(row, amount) ==
    /\ row.refunded + amount < Amount
    /\ IsAllowed(row.state, RefundEvent(row.refunded + amount))

\* The CHECK on refunded_jpy and the transition table both let the refund pass.
RefundCommits(row, amount) ==
    /\ row.refunded + amount <= Amount
    /\ IsAllowed(row.state, RefundEvent(row.refunded + amount))

\* Mutant: the number is derived again when the refund is booked.
RefundBookedRenumbered(r) ==
    Insert(ledger, RefundTransfer(r.payment, 1 + Cardinality(RefundDebits(ledger, r.payment)),
                                  r.amount))

\* Mutant: the running total is booked instead of this refund's amount.
RefundBookedTotal(r) ==
    Insert(ledger, RefundTransfer(r.payment, r.seq, payments[r.payment].refunded + r.amount))

RefundBooked(r) == Insert(ledger, RefundTransfer(r.payment, r.seq, r.amount))

RefundAudited(r) ==
    Append(audit, [action |-> "refund", payment |-> r.payment, amount |-> r.amount, seq |-> r.seq])

RefundTx(a) ==
    LET r == requests[a]
        total == payments[r.payment].refunded + r.amount
    IN  /\ r.step = "refund_tx"
        /\ RefundCommits(payments[r.payment], r.amount)
        /\ payments' = [payments EXCEPT ![r.payment] =
               Applied([@ EXCEPT !.refunded = total], RefundEvent(total), "admin")]
        /\ ledger' = RefundBooked(r)
        /\ audit' = RefundAudited(r)
        /\ requests' = [requests EXCEPT ![a] = Idle]
        /\ UNCHANGED <<webhooks, outbox, stripe>>

\* Mutant: the audit row is not part of the transaction.
RefundTxRollbackAudited(a) ==
    LET r == requests[a]
    IN  /\ r.step = "refund_tx"
        /\ ~RefundCommits(payments[r.payment], r.amount)
        /\ audit' = RefundAudited(r)
        /\ requests' = [requests EXCEPT ![a] = Idle]
        /\ UNCHANGED <<payments, ledger, webhooks, outbox, stripe>>

RefundTxRollback(a) ==
    LET r == requests[a]
    IN  /\ r.step = "refund_tx"
        /\ ~RefundCommits(payments[r.payment], r.amount)
        /\ requests' = [requests EXCEPT ![a] = Idle]
        /\ UNCHANGED <<payments, ledger, audit, webhooks, outbox, stripe>>

\* The process dies, the answer is lost or a database call fails: nothing of the
\* request is left but what its earlier steps did.
Abandon(a) ==
    /\ MayAbandon
    /\ requests[a].step # "idle"
    /\ requests' = [requests EXCEPT ![a] = Idle]
    /\ UNCHANGED <<payments, ledger, audit, webhooks, outbox, stripe>>

-----------------------------------------------------------------------------

Next ==
    \/ \E p \in Payments :
          \/ CustomerAuthorizes(p)
          \/ CustomerPays(p)
          \/ CustomerDeclined(p)
          \/ StripeCancels(p)
    \/ \E e \in StripeEvents :
          \/ Deliver(e)
          \/ RelayDone(e)
          \/ RelayRetries(e)
    \/ \E from \in {"created", "authorized"}, old \in SUBSET Payments : Expire(from, old)
    \/ \E a \in Admins :
          \/ \E p \in Payments : CaptureCheck(a, p)
          \/ CaptureAtStripe(a)
          \/ CaptureRefused(a)
          \/ CaptureTx(a)
          \/ CaptureTxRollback(a)
          \/ \E p \in Payments, amount \in RefundAmounts : RefundCheck(a, p, amount)
          \/ RefundSeq(a)
          \/ RefundAtStripe(a)
          \/ RefundRefused(a)
          \/ RefundTx(a)
          \/ RefundTxRollback(a)
          \/ Abandon(a)

Spec == Init /\ [][Next]_vars

(***************************************************************************)
(* Stripe redelivers an event until it is answered with 200, and           *)
(* Relay.Loop runs a batch on every tick: each recorded event that is      *)
(* pending is handled.  Nothing is assumed of customers, administrators or *)
(* housekeeping.                                                           *)
(***************************************************************************)
Fairness == \A e \in StripeEvents :
                WF_vars(Deliver(e)) /\ WF_vars(RelayDone(e) \/ RelayRetries(e))

FairSpec == Spec /\ Fairness

-----------------------------------------------------------------------------
(* Properties.                                                             *)

CaptureBooked(p) == CaptureTransfer(p, 1, Amount) \subseteq ledger

RefundSeqs(p) == { e.transfer[3] : e \in RefundDebits(ledger, p) }

\* The rows of a history lead from created to the payment's state.
IsPathTo(h, state) ==
    /\ \A i \in 1 .. Len(h) :
          /\ <<h[i].from, h[i].event, h[i].to>> \in Transitions
          /\ h[i].from = IF i = 1 THEN "created" ELSE h[i-1].to
    /\ state = IF h = <<>> THEN "created" ELSE h[Len(h)].to

(***************************************************************************)
(* payment_transitions tells the whole story of a payment: the recorded    *)
(* transitions are permitted by the table, start at created, follow one    *)
(* another and end in the payment's state, whoever of the relay,           *)
(* housekeeping and the administrators wrote them.                         *)
(***************************************************************************)
HistoryIsPath == \A p \in Payments : IsPathTo(payments[p].history, payments[p].state)

(***************************************************************************)
(* The state of a payment and its refunded_jpy agree: nothing is refunded  *)
(* outside partially_refunded and refunded, and refunded is exactly the    *)
(* whole price (applyRefundTx decides the event after AddRefundedAmount).  *)
(***************************************************************************)
RefundedMatchesState ==
    \A p \in Payments :
        /\ payments[p].refunded > 0 <=> payments[p].state \in {"partially_refunded", "refunded"}
        /\ payments[p].refunded = Amount <=> payments[p].state = "refunded"

(***************************************************************************)
(* A payment that reached captured has its capture in the ledger, once and *)
(* for the full price, whether the relay or an administrator got there     *)
(* first, and still has it after refunds.                                  *)
(***************************************************************************)
CapturedIsBooked ==
    \A p \in Payments :
        payments[p].state \in {"captured", "partially_refunded", "refunded"} =>
            /\ CaptureBooked(p)
            /\ Booked(ledger, p, "capture") = CaptureTransfer(p, 1, Amount)

(***************************************************************************)
(* The ledger never runs ahead of Stripe: a booked capture was collected   *)
(* by Stripe, and a booked refund is a refund Stripe made under the same   *)
(* number for the same amount.                                             *)
(***************************************************************************)
BookedIsReal ==
    \A p \in Payments :
        /\ Booked(ledger, p, "capture") # {} => stripe[p].status = "succeeded"
        /\ \A e \in Booked(ledger, p, "refund") :
               [seq |-> e.transfer[3], amount |-> e.amount] \in stripe[p].refunds

(***************************************************************************)
(* No double refund after a lost answer: Stripe is at most one refund      *)
(* ahead of the ledger, because a request that repeats an unbooked refund  *)
(* derives the same number, hence the same idempotency key                 *)
(* (the comment on nextRefundSeq).                                         *)
(***************************************************************************)
AtMostOneUnbookedRefund ==
    \A p \in Payments :
        /\ RefundSeqs(p) = 1 .. Cardinality(RefundSeqs(p))
        /\ \A f \in stripe[p].refunds : f.seq <= 1 + Cardinality(RefundSeqs(p))

(***************************************************************************)
(* The books balance (ledger.Invariant), and what they say was refunded is *)
(* never more than what the payment row says nor than what Stripe paid     *)
(* back.                                                                   *)
(***************************************************************************)
LedgerIsSound ==
    /\ Balanced(ledger)
    /\ \A p \in Payments :
          LET refunds == Total(RefundDebits(ledger, p))
          IN  /\ refunds <= payments[p].refunded
              /\ refunds <= stripe[p].refunded

\* What Books speaks of.
Collected == { p \in Payments : stripe[p].status = "succeeded" }

Repaid == [p \in Payments |-> stripe[p].refunds]

StateOf == [p \in Payments |-> payments[p].state]

RefundedOf == [p \in Payments |-> payments[p].refunded]

CapturesBooked == { p \in Payments : CaptureBooked(p) }

RefundsBooked ==
    [p \in Payments |->
        { [seq |-> e.transfer[3], amount |-> e.amount] : e \in RefundDebits(ledger, p) }]

Books == INSTANCE Books WITH
    collected <- Collected, repaid <- Repaid, state <- StateOf, refunded <- RefundedOf,
    captured <- CapturesBooked, booked <- RefundsBooked

(***************************************************************************)
(* The settlement implements Books: however the steps of the relay,        *)
(* housekeeping and the requests interleave and wherever a request is      *)
(* lost, a capture or a refund is booked and counted in one step, after    *)
(* Stripe moved the money, and only a request whose number follows the     *)
(* booked refunds makes Stripe pay back.                                   *)
(***************************************************************************)
KeepsBooks == Books!Spec

(***************************************************************************)
(* refunded_jpy of a payment is the sum of its refunds in the ledger       *)
(* (docs/01-requirements-analysis.md section 5: payments and ledger never  *)
(* contradict each other).                                                 *)
(***************************************************************************)
RefundedIsBooked ==
    \A p \in Payments : payments[p].refunded = Total(RefundDebits(ledger, p))

(***************************************************************************)
(* No payment is collected once it has failed or expired here              *)
(* (docs/03-basic-design.md section 2.1: its PaymentIntent is canceled, so *)
(* that a success cannot follow).                                          *)
(***************************************************************************)
CollectedWhileOpen ==
    [][\A p \in Payments :
          stripe'[p].status = "succeeded" /\ stripe[p].status # "succeeded" =>
              payments[p].state \notin {"failed", "expired"}]_vars

(***************************************************************************)
(* Money goes back through Stripe only for a payment whose state allows a  *)
(* refund (docs/03-basic-design.md section 4.5: the table is consulted     *)
(* before Stripe is called).                                               *)
(***************************************************************************)
RefundedOnlyIfCaptured ==
    \A p \in Payments :
        stripe[p].refunds # {} =>
            payments[p].state \in {"captured", "partially_refunded", "refunded"}

(***************************************************************************)
(* What Stripe collected is never lost: once a PaymentIntent has           *)
(* succeeded, its capture is booked and the payment leaves the open states *)
(* in the end, whatever order the events arrive in and whoever else works  *)
(* on the payment.                                                         *)
(***************************************************************************)
CollectedIsSettled ==
    \A p \in Payments :
        stripe[p].status = "succeeded" ~>
            CaptureBooked(p) /\ payments[p].state \notin {"created", "authorized"}

=============================================================================
