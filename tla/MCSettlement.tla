---------------------------- MODULE MCSettlement ----------------------------
(* Settlement with a history variable and the reconciliation, for TLC. *)
EXTENDS Settlement, Reconciliation

\* Sums over all payments are taken below.
ASSUME FinitePayments == IsFiniteSet(Payments)

VARIABLE raced   \* payments on which two refund requests were open at once

mcvars == <<vars, raced>>

RefundSteps == {"refund_seq", "refund_stripe", "refund_tx"}

\* Requests whose next steps are those of a refund of p.
Refunding(p) == { a \in Admins : requests[a].payment = p /\ requests[a].step \in RefundSteps }

MCInit == Init /\ raced = {}

MCNext ==
    /\ Next
    /\ raced' = raced \cup { p \in Payments : Cardinality(Refunding(p)') > 1 }

MCSpec == MCInit /\ [][MCNext]_mcvars /\ Fairness

-----------------------------------------------------------------------------

UnbookedRefunds(p) == { f \in stripe[p].refunds : f.seq \notin RefundSeqs(p) }

(***************************************************************************)
(* refunded_jpy of a payment is the sum of its refunds in the ledger       *)
(* unless two refunds of that payment were under way at the same time,     *)
(* however often requests are lost between their steps.                    *)
(***************************************************************************)
LoneRefundsAreBooked ==
    \A p \in Payments \ raced : payments[p].refunded = Total(RefundDebits(ledger, p))

(***************************************************************************)
(* A refund that Stripe made and the database did not record is not lost:  *)
(* the same request again passes every check, gets the same number, hence  *)
(* Stripe's first answer, and is then recorded (the comment on             *)
(* nextRefundSeq).                                                         *)
(***************************************************************************)
LostRefundIsRepeatable ==
    \A p \in Payments \ raced :
        Refunding(p) = {}
            /\ payments[p].state \in {"captured", "partially_refunded", "refunded"} =>
        \A f \in UnbookedRefunds(p) :
            /\ f.seq = 1 + Cardinality(RefundDebits(ledger, p))
            /\ RefundCommits(payments[p], f.amount)

\* The audit rows of a payment's refunds, and the refund that a row is about.
AuditRefunds(p) == { i \in DOMAIN audit : audit[i].payment = p /\ audit[i].action = "refund" }

AuditedRefund(i) == [seq |-> audit[i].seq, amount |-> audit[i].amount]

(***************************************************************************)
(* The refunds of a payment can be told from the audit log and from the    *)
(* ledger alike (FR-D5 in docs/02): both name the same ones, whoever raced *)
(* and wherever a request was lost, so that the log misses those refunds   *)
(* of Stripe that the ledger misses and no others.  What the rows list     *)
(* adds up to refunded_jpy, and two rows are about one refund only where   *)
(* two refunds of the payment were under way at the same time.             *)
(***************************************************************************)
RefundsAreAudited ==
    \A p \in Payments :
        LET rows == AuditRefunds(p)
            audited == { AuditedRefund(i) : i \in rows }
        IN  /\ audited = RefundsBooked[p]
            /\ stripe[p].refunds \ audited = UnbookedRefunds(p)
            /\ payments[p].refunded = SumFunction([i \in rows |-> audit[i].amount])
            /\ p \notin raced =>
                   \A i, j \in rows : AuditedRefund(i) = AuditedRefund(j) => i = j

\* What a statement of Stripe lists.
StripeNet ==
    SumFunction([p \in Payments |->
        (IF stripe[p].status = "succeeded" THEN Amount ELSE 0) - stripe[p].refunded])

(***************************************************************************)
(* Reconciler.Reconcile finds what the books miss: once every collected    *)
(* payment is booked, the receivable exceeds what Stripe pays out by the   *)
(* refunds that Stripe made and the ledger does not have, and by nothing   *)
(* else.                                                                   *)
(***************************************************************************)
DifferenceIsLostRefunds ==
    (\A p \in Payments : stripe[p].status = "succeeded" => CaptureBooked(p)) =>
        Reconcile(ledger, StripeNet).difference =
            SumFunction([p \in Payments |-> Total(UnbookedRefunds(p))])

=============================================================================
