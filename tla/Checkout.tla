------------------------------ MODULE Checkout ------------------------------
(***************************************************************************)
(* How a rendered purchase form becomes a payment with a PaymentIntent.    *)
(* The form carries an idempotency key issued by the server, and may be    *)
(* submitted any number of times: twice at once, again after an error, or  *)
(* hours later from the browser's history.  Each submission is a request   *)
(* whose statements interleave with those of the others:                   *)
(*                                                                         *)
(*   lookup    GetIdempotency: replay, refuse or go on                     *)
(*   reserve   one transaction: the payments row and the key row           *)
(*   create    the PaymentIntent at Stripe, under the key {key}:create     *)
(*   link      SetStripePaymentIntent                                      *)
(*   snapshot  SetIdempotencyResponse, then the redirect to /pay/{id}      *)
(*                                                                         *)
(* Housekeeping deletes key rows past their expires_at.  Stripe is         *)
(* external: it keeps its idempotency keys longer than the hour the key    *)
(* rows are kept, and here for ever.                                       *)
(***************************************************************************)
EXTENDS Naturals, FiniteSets

CONSTANTS
    Clients,        \* one slot per submission in progress
    Keys,           \* the idempotency keys of the rendered forms
    Carts,          \* what request_hash covers: product, amount, capture mode
    PaymentIds,     \* payment ids the generator may return
    None            \* SQL NULL, and the field of an idle slot

ASSUME ConstantsAssumption ==
    /\ None \notin Keys \cup Carts \cup PaymentIds
    /\ Keys \cap PaymentIds = {}

VARIABLES
    keys,       \* idempotency_keys rows
    payments,   \* payments rows
    intents,    \* PaymentIntents at Stripe, each named by the master key it was created with
    requests,   \* submissions in progress
    answers,    \* the redirects to /pay/{payment} sent so far
    shown       \* the PaymentIntents whose client_secret a page has shown

vars == <<keys, payments, intents, requests, answers, shown>>

-----------------------------------------------------------------------------

Masters == Keys \cup PaymentIds

OrNone(S) == S \cup {None}

Snapshots == [payment : PaymentIds, intent : Masters]

KeyRows == [cart : Carts, payment : PaymentIds, snapshot : OrNone(Snapshots)]

\* intent is stripe_payment_intent_id.
PaymentRows == [cart : Carts, intent : OrNone(Masters)]

\* key is the form the intent was created for; paid once the customer confirmed.
Intents == [cart : Carts, key : Keys, paid : BOOLEAN]

\* NULL is not a row.
ASSUME NullAssumption == None \notin KeyRows \cup Snapshots \cup PaymentRows \cup Intents

Requests == [step : {"idle", "lookup", "reserve", "create", "link", "snapshot"},
             key : OrNone(Keys), cart : OrNone(Carts),
             payment : OrNone(PaymentIds), intent : OrNone(Masters)]

Answers == [key : Keys, cart : Carts, payment : PaymentIds]

Idle == [step |-> "idle", key |-> None, cart |-> None, payment |-> None, intent |-> None]

(***************************************************************************)
(* The type invariant: the rows, Stripe's PaymentIntents and the           *)
(* submissions in progress.                                                *)
(***************************************************************************)
TypeOK ==
    /\ keys \in [Keys -> OrNone(KeyRows)]
    /\ payments \in [PaymentIds -> OrNone(PaymentRows)]
    /\ intents \in [Masters -> OrNone(Intents)]
    /\ requests \in [Clients -> Requests]
    /\ answers \subseteq Answers
    /\ shown \subseteq Masters

Init ==
    /\ keys = [k \in Keys |-> None]
    /\ payments = [p \in PaymentIds |-> None]
    /\ intents = [m \in Masters |-> None]
    /\ requests = [c \in Clients |-> Idle]
    /\ answers = {}
    /\ shown = {}

Finished(c) == requests' = [requests EXCEPT ![c] = Idle]

GoesTo(c, step) == requests' = [requests EXCEPT ![c].step = step]

Answered(c, payment) ==
    answers' = answers \cup {[key |-> requests[c].key, cart |-> requests[c].cart,
                              payment |-> payment]}

-----------------------------------------------------------------------------
(* StartCheckout.                                                          *)

Submit(c, key, cart) ==
    /\ requests[c].step = "idle"
    /\ requests' = [requests EXCEPT ![c] = [Idle EXCEPT !.step = "lookup", !.key = key, !.cart = cart]]
    /\ UNCHANGED <<keys, payments, intents, answers, shown>>

\* Mutant: the hash is not compared.
SameHashUnchecked(row, cart) == TRUE

\* The row was written by a request with the same request_hash.
SameHash(row, cart) == row.cart = cart

LookupMiss(c) ==
    /\ requests[c].step = "lookup"
    /\ keys[requests[c].key] = None
    /\ GoesTo(c, "reserve")
    /\ UNCHANGED <<keys, payments, intents, answers, shown>>

LookupReplay(c) ==
    LET row == keys[requests[c].key]
    IN  /\ requests[c].step = "lookup"
        /\ row # None
        /\ SameHash(row, requests[c].cart)
        /\ row.snapshot # None
        /\ Answered(c, row.snapshot.payment)
        /\ Finished(c)
        /\ UNCHANGED <<keys, payments, intents, shown>>

\* ErrIdempotencyConflict or ErrIdempotencyInProgress.
LookupRefused(c) ==
    LET row == keys[requests[c].key]
    IN  /\ requests[c].step = "lookup"
        /\ row # None
        /\ ~SameHash(row, requests[c].cart) \/ row.snapshot = None
        /\ Finished(c)
        /\ UNCHANGED <<keys, payments, intents, answers, shown>>

\* Mutant: the key row is written before the payment has an id.
ReserveKeyFirst(c) ==
    LET r == requests[c]
    IN  /\ r.step = "reserve"
        /\ keys[r.key] = None
        /\ \E p \in PaymentIds :
              /\ payments[p] = None
              /\ payments' = [payments EXCEPT ![p] = [cart |-> r.cart, intent |-> None]]
              /\ keys' = [keys EXCEPT ![r.key] = [cart |-> r.cart, payment |-> None, snapshot |-> None]]
              /\ requests' = [requests EXCEPT ![c].step = "create", ![c].payment = p]
        /\ UNCHANGED <<intents, answers, shown>>

\* CreatePayment and TryInsertIdempotency commit together.
Reserve(c) ==
    LET r == requests[c]
    IN  /\ r.step = "reserve"
        /\ keys[r.key] = None
        /\ \E p \in PaymentIds :
              /\ payments[p] = None
              /\ payments' = [payments EXCEPT ![p] = [cart |-> r.cart, intent |-> None]]
              /\ keys' = [keys EXCEPT ![r.key] = [cart |-> r.cart, payment |-> p, snapshot |-> None]]
              /\ requests' = [requests EXCEPT ![c].step = "create", ![c].payment = p]
        /\ UNCHANGED <<intents, answers, shown>>

\* ON CONFLICT (key) DO NOTHING returned no row: the payments row is rolled back too.
ReserveRefused(c) ==
    /\ requests[c].step = "reserve"
    /\ keys[requests[c].key] # None
    /\ Finished(c)
    /\ UNCHANGED <<keys, payments, intents, answers, shown>>

\* Mutant: the payment is the master, as it is for captures and refunds.
CreateMasterPayment(r) == r.payment

\* The IdempotencyMaster of the creation, from which Derive makes {key}:create.
CreateMaster(r) == r.key

\* A new master creates a PaymentIntent; a known one with the same parameters replays it.
CreateAtStripe(c) ==
    LET r == requests[c]
        m == CreateMaster(r)
    IN  /\ r.step = "create"
        /\ \/ /\ intents[m] = None
              /\ intents' = [intents EXCEPT ![m] = [cart |-> r.cart, key |-> r.key, paid |-> FALSE]]
           \/ /\ intents[m] # None
              /\ intents[m].cart = r.cart
              /\ UNCHANGED intents
        /\ requests' = [requests EXCEPT ![c].step = "link", ![c].intent = m]
        /\ UNCHANGED <<keys, payments, answers, shown>>

\* idempotency_error: the master was used with other parameters.
CreateRefused(c) ==
    LET r == requests[c]
        m == CreateMaster(r)
    IN  /\ r.step = "create"
        /\ intents[m] # None
        /\ intents[m].cart # r.cart
        /\ Finished(c)
        /\ UNCHANGED <<keys, payments, intents, answers, shown>>

LinkedTo(intent) == { p \in PaymentIds : payments[p] # None /\ payments[p].intent = intent }

\* Mutant: stripe_payment_intent_id is not UNIQUE.
LinkNotUnique(c) ==
    LET r == requests[c]
    IN  /\ r.step = "link"
        /\ payments' = [payments EXCEPT ![r.payment].intent = r.intent]
        /\ GoesTo(c, "snapshot")
        /\ UNCHANGED <<keys, intents, answers, shown>>

Link(c) ==
    LET r == requests[c]
    IN  /\ r.step = "link"
        /\ LinkedTo(r.intent) \subseteq {r.payment}
        /\ payments' = [payments EXCEPT ![r.payment].intent = r.intent]
        /\ GoesTo(c, "snapshot")
        /\ UNCHANGED <<keys, intents, answers, shown>>

\* Mutant: the error of SetStripePaymentIntent is ignored.
LinkErrorIgnored(c) ==
    LET r == requests[c]
    IN  /\ r.step = "link"
        /\ ~(LinkedTo(r.intent) \subseteq {r.payment})
        /\ GoesTo(c, "snapshot")
        /\ UNCHANGED <<keys, payments, intents, answers, shown>>

\* stripe_payment_intent_id is UNIQUE.
LinkRefused(c) ==
    LET r == requests[c]
    IN  /\ r.step = "link"
        /\ ~(LinkedTo(r.intent) \subseteq {r.payment})
        /\ Finished(c)
        /\ UNCHANGED <<keys, payments, intents, answers, shown>>

\* The UPDATE changes no row when the key row is gone; the answer is sent all the same.
Snapshot(c) ==
    LET r == requests[c]
    IN  /\ r.step = "snapshot"
        /\ keys' = [keys EXCEPT ![r.key] =
               IF @ = None THEN None
               ELSE [@ EXCEPT !.payment = r.payment,
                              !.snapshot = [payment |-> r.payment, intent |-> r.intent]]]
        /\ Answered(c, r.payment)
        /\ Finished(c)
        /\ UNCHANGED <<payments, intents, shown>>

\* The process dies, Stripe or the breaker refuses, a statement fails, or the
\* answer of the creation is lost after Stripe made the PaymentIntent.
Abandon(c) ==
    /\ requests[c].step # "idle"
    /\ Finished(c)
    /\ UNCHANGED <<keys, payments, intents, answers, shown>>

-----------------------------------------------------------------------------
(* Housekeeping and the payment page.                                      *)

\* The request that reserved the key row has not ended.
Holds(c, key) == requests[c].key = key /\ requests[c].step \in {"create", "link", "snapshot"}

\* Mutant: only rows that have their answer are deleted.
DeleteAnsweredKey(k) ==
    /\ keys[k] # None
    /\ keys[k].snapshot # None
    /\ \A c \in Clients : ~Holds(c, k)
    /\ keys' = [keys EXCEPT ![k] = None]
    /\ UNCHANGED <<payments, intents, requests, answers, shown>>

\* DeleteExpiredIdempotency.  A row is kept for an hour, longer than a request lasts.
DeleteExpiredKey(k) ==
    /\ keys[k] # None
    /\ \A c \in Clients : ~Holds(c, k)
    /\ keys' = [keys EXCEPT ![k] = None]
    /\ UNCHANGED <<payments, intents, requests, answers, shown>>

\* GET /pay/{payment_id}: the client_secret comes from the snapshot of the key
\* row that names the payment.
ShowPayment(k, p) ==
    /\ payments[p] # None
    /\ keys[k] # None
    /\ keys[k].payment = p
    /\ keys[k].snapshot # None
    /\ shown' = shown \cup {keys[k].snapshot.intent}
    /\ UNCHANGED <<keys, payments, intents, requests, answers>>

\* External: Stripe.js confirms the PaymentIntent with the client_secret.
CustomerPays(m) ==
    /\ m \in shown
    /\ intents[m] # None
    /\ ~intents[m].paid
    /\ intents' = [intents EXCEPT ![m].paid = TRUE]
    /\ UNCHANGED <<keys, payments, requests, answers, shown>>

-----------------------------------------------------------------------------

Step(c) ==
    \/ LookupMiss(c)
    \/ LookupReplay(c)
    \/ LookupRefused(c)
    \/ Reserve(c)
    \/ ReserveRefused(c)
    \/ CreateAtStripe(c)
    \/ CreateRefused(c)
    \/ Link(c)
    \/ LinkRefused(c)
    \/ Snapshot(c)

Next ==
    \/ \E c \in Clients :
          \/ \E key \in Keys, cart \in Carts : Submit(c, key, cart)
          \/ Step(c)
          \/ Abandon(c)
    \/ \E k \in Keys :
          \/ DeleteExpiredKey(k)
          \/ \E p \in PaymentIds : ShowPayment(k, p)
    \/ \E m \in Masters : CustomerPays(m)

Spec == Init /\ [][Next]_vars

(***************************************************************************)
(* The server goes on with a request it accepted, and housekeeping deletes *)
(* every key row in the end.  Nothing is assumed of the customer.          *)
(***************************************************************************)
Fairness ==
    /\ \A c \in Clients : WF_vars(Step(c))
    /\ \A k \in Keys : WF_vars(DeleteExpiredKey(k))

FairSpec == Spec /\ Fairness

-----------------------------------------------------------------------------
(* Properties.                                                             *)

Paid == { m \in Masters : intents[m] # None /\ intents[m].paid }

Orders == [k \in Keys |-> { [payment |-> a.payment, cart |-> a.cart] :
                            a \in { b \in answers : b.key = k } }]

Promise == INSTANCE CheckoutPromise
    WITH orders <- Orders, charged <- { intents[m].key : m \in Paid }

(***************************************************************************)
(* One form, one payment: whatever is submitted again, at once, after a    *)
(* crash or after the key row is gone, every answer to a form names the    *)
(* same payment for the cart that was submitted, and the form is charged   *)
(* only after an answer (FR-A4).                                           *)
(***************************************************************************)
KeepsPromise == Promise!Spec

(***************************************************************************)
(* A form is charged once: no two PaymentIntents created for one key are   *)
(* both paid (ADR-0007: the key is handed on to Stripe).                   *)
(***************************************************************************)
ChargedOnce == \A m, n \in Paid : intents[m].key = intents[n].key => m = n

(***************************************************************************)
(* A paid PaymentIntent can be settled: exactly one payment is linked to   *)
(* it, for the same cart, so that queryPaymentIDByStripe finds it when the *)
(* webhook arrives.                                                        *)
(***************************************************************************)
PaidIsKnown ==
    \A m \in Paid : \E p \in PaymentIds :
        LinkedTo(m) = {p} /\ payments[p].cart = intents[m].cart

(***************************************************************************)
(* The page of a payment shows the secret of that payment's own            *)
(* PaymentIntent: a snapshot and the payment it is found by agree.         *)
(***************************************************************************)
PageShowsOwnIntent ==
    \A k \in Keys :
        keys[k] # None /\ keys[k].snapshot # None =>
            /\ keys[k].snapshot.payment = keys[k].payment
            /\ payments[keys[k].payment].intent = keys[k].snapshot.intent
            /\ payments[keys[k].payment].cart = keys[k].cart

(***************************************************************************)
(* A form that was submitted again lands on the same payment (the comment  *)
(* in indexHandler): a request that got the PaymentIntent from Stripe can  *)
(* link it to its payment.                                                 *)
(***************************************************************************)
ResendLands ==
    \A c \in Clients :
        requests[c].step = "link" => LinkedTo(requests[c].intent) \subseteq {requests[c].payment}

(***************************************************************************)
(* A key is never in progress for ever: it gets its answer, or housekeeping*)
(* frees it so that the form can be submitted again.                       *)
(***************************************************************************)
KeyIsReleased ==
    \A k \in Keys :
        keys[k] # None /\ keys[k].snapshot = None ~> keys[k] = None \/ keys[k].snapshot # None

=============================================================================
