--------------------------- MODULE Reconciliation ---------------------------
(***************************************************************************)
(* The comparison of internal/reconciliation: what the ledger says that    *)
(* Stripe owes against what a statement of Stripe says it pays out.        *)
(***************************************************************************)
EXTENDS Ledger

ExpectedAccount == "psp_receivable"

SumLedgerBalance(ledger, account) ==
    LET sum(side) == Total({ e \in ledger : e.account = account /\ e.side = side })
    IN  [debitTotal |-> sum("debit"), creditTotal |-> sum("credit")]

\* A positive difference: the ledger has more than the statement.
Reconcile(ledger, stripeNet) ==
    LET sum == SumLedgerBalance(ledger, ExpectedAccount)
        net == sum.debitTotal - sum.creditTotal
    IN  [ledgerNet |-> net, stripeNet |-> stripeNet, difference |-> net - stripeNet,
         balanced |-> net = stripeNet]

=============================================================================
