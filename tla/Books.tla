-------------------------------- MODULE Books --------------------------------
(***************************************************************************)
(* What the settlement of payments promises, whoever of the relay,         *)
(* housekeeping and the administrators does the work and however often a   *)
(* request is lost between its steps.  Money moves at Stripe first and is  *)
(* booked later; the ledger and the payment row are written together;      *)
(* nothing that was collected, paid back or booked is ever taken back; and *)
(* Stripe makes a refund only when all refunds before it are booked.       *)
(***************************************************************************)
EXTENDS Integers, StateMachine

CONSTANTS Payments, Amount

VARIABLES
    collected,  \* the payments whose price Stripe has collected
    repaid,     \* per payment: the refunds Stripe made, [seq, amount]
    state,      \* per payment: its state
    refunded,   \* per payment: refunded_jpy
    captured,   \* the payments whose capture is in the ledger
    booked      \* per payment: the refunds in the ledger, [seq, amount]

vars == <<collected, repaid, state, refunded, captured, booked>>

Init ==
    /\ collected = {}
    /\ repaid = [p \in Payments |-> {}]
    /\ state = [p \in Payments |-> "created"]
    /\ refunded = [p \in Payments |-> 0]
    /\ captured = {}
    /\ booked = [p \in Payments |-> {}]

Collect(p) ==
    /\ collected' = collected \cup {p}
    /\ UNCHANGED <<repaid, state, refunded, captured, booked>>

\* The first refund, or the one after a refund that is booked.
Numbers(p) == {1} \cup { f.seq + 1 : f \in booked[p] }

\* A number is used once.
Repay(p, n, amount) ==
    /\ p \in collected
    /\ \A f \in repaid[p] : f.seq # n
    /\ repaid' = [repaid EXCEPT ![p] = @ \cup {[seq |-> n, amount |-> amount]}]
    /\ UNCHANGED <<collected, state, refunded, captured, booked>>

\* A transition that moves no money.
Move(p, event) ==
    /\ IsAllowed(state[p], event)
    /\ state' = [state EXCEPT ![p] = Target(@, event)]
    /\ UNCHANGED <<collected, repaid, refunded, captured, booked>>

Expire(old) ==
    /\ \A p \in old : IsAllowed(state[p], "Expire")
    /\ state' = [p \in Payments |-> IF p \in old THEN "expired" ELSE state[p]]
    /\ UNCHANGED <<collected, repaid, refunded, captured, booked>>

\* A payment that is still open becomes captured; a closed one keeps its state.
BookCapture(p) ==
    /\ p \in collected
    /\ captured' = captured \cup {p}
    /\ state' = [state EXCEPT ![p] = IF @ \in {"created", "authorized"} THEN "captured" ELSE @]
    /\ UNCHANGED <<collected, repaid, refunded, booked>>

BookRefund(p, f) ==
    /\ p \in captured
    /\ state[p] \in {"captured", "partially_refunded"}
    /\ refunded[p] + f.amount <= Amount
    /\ refunded' = [refunded EXCEPT ![p] = @ + f.amount]
    /\ booked' = [booked EXCEPT ![p] = @ \cup {f}]
    /\ state' = [state EXCEPT ![p] =
           IF refunded[p] + f.amount = Amount THEN "refunded" ELSE "partially_refunded"]
    /\ UNCHANGED <<collected, repaid, captured>>

Next ==
    \/ \E p \in Payments :
          \/ Collect(p)
          \/ \E n \in Numbers(p), amount \in 1 .. Amount : Repay(p, n, amount)
          \/ \E event \in {"AuthorizeSucceeded", "AuthorizeFailed", "Cancel"} : Move(p, event)
          \/ BookCapture(p)
          \/ \E f \in repaid[p] : BookRefund(p, f)
    \/ \E old \in SUBSET Payments : Expire(old)

Spec == Init /\ [][Next]_vars

==============================================================================
