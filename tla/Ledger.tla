------------------------------- MODULE Ledger -------------------------------
(***************************************************************************)
(* The double-entry ledger of internal/ledger and the ledger_entries table.*)
(* A transfer is a debit and a credit row that share a transfer id derived *)
(* from (payment, kind, number); a ledger is a set of rows.                *)
(***************************************************************************)
EXTENDS Naturals, Integers, FiniteSets, Functions

Accounts == {"psp_receivable", "sales", "refunds"}

Entry(payment, kind, seq, account, side, amount) ==
    [transfer |-> <<payment, kind, seq>>, account |-> account,
     side |-> side, amount |-> amount]

CaptureTransfer(payment, seq, amount) ==
    { Entry(payment, "capture", seq, "psp_receivable", "debit", amount),
      Entry(payment, "capture", seq, "sales", "credit", amount) }

\* Mutant: a refund is taken back from sales.
RefundTransferFromSales(payment, seq, amount) ==
    { Entry(payment, "refund", seq, "refunds", "debit", amount),
      Entry(payment, "refund", seq, "sales", "credit", amount) }

RefundTransfer(payment, seq, amount) ==
    { Entry(payment, "refund", seq, "refunds", "debit", amount),
      Entry(payment, "refund", seq, "psp_receivable", "credit", amount) }

\* INSERT ... ON CONFLICT (transfer_id, side) DO NOTHING, for both rows.
Insert(ledger, rows) ==
    ledger \cup { r \in rows : \A e \in ledger :
                      e.transfer # r.transfer \/ e.side # r.side }

Booked(ledger, payment, kind) ==
    { e \in ledger : e.transfer[1] = payment /\ e.transfer[2] = kind }

\* The rows nextRefundSeq counts.
RefundDebits(ledger, payment) ==
    { e \in ledger : /\ e.transfer[1] = payment
                     /\ e.account = "refunds"
                     /\ e.side = "debit" }

Total(rows) == SumFunction([e \in rows |-> e.amount])

\* Balance: debits minus credits of one account.
Balance(ledger, account) ==
    Total({ e \in ledger : e.account = account /\ e.side = "debit" })
      - Total({ e \in ledger : e.account = account /\ e.side = "credit" })

\* Invariant: every transfer's debits equal its credits.
Balanced(ledger) ==
    \A e \in ledger :
        LET rows == { r \in ledger : r.transfer = e.transfer }
        IN  Total({ r \in rows : r.side = "debit" })
              = Total({ r \in rows : r.side = "credit" })

=============================================================================
