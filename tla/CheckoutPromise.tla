-------------------------- MODULE CheckoutPromise --------------------------
(***************************************************************************)
(* What a checkout promises to the customer who submits one rendered form, *)
(* once or many times (FR-A4 in docs/02-requirements-specification.md):    *)
(* every answer to the form names the same payment, for the product that   *)
(* was asked for, and the form is charged at most once, and only after it  *)
(* was answered.                                                           *)
(***************************************************************************)
CONSTANTS Keys, Carts, PaymentIds

VARIABLES
    orders,     \* per form: the answers given so far, [payment, cart]
    charged     \* the forms the customer was charged for

TypeOK ==
    /\ orders \in [Keys -> SUBSET [payment : PaymentIds, cart : Carts]]
    /\ charged \subseteq Keys

Init ==
    /\ orders = [k \in Keys |-> {}]
    /\ charged = {}

Answer(k, p, cart) ==
    /\ orders[k] = {}
    /\ \A other \in Keys : \A o \in orders[other] : o.payment # p
    /\ orders' = [orders EXCEPT ![k] = {[payment |-> p, cart |-> cart]}]
    /\ UNCHANGED charged

Charge(k) ==
    /\ orders[k] # {}
    /\ k \notin charged
    /\ charged' = charged \cup {k}
    /\ UNCHANGED orders

Next ==
    \E k \in Keys :
        \/ \E p \in PaymentIds, cart \in Carts : Answer(k, p, cart)
        \/ Charge(k)

Spec == Init /\ [][Next]_<<orders, charged>>

=============================================================================
