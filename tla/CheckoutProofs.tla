--------------------------- MODULE CheckoutProofs ---------------------------
(***************************************************************************)
(* Theorems about Checkout, for any number of submissions, keys and carts. *)
(***************************************************************************)
EXTENDS Checkout, TLAPS

Held(c) == requests[c].step \in {"create", "link", "snapshot"}

\* A submission in progress has a key and a cart, and a payment once it reserved one.
RequestsInv ==
    \A c \in Clients :
        /\ requests[c].step # "idle" => requests[c].key \in Keys /\ requests[c].cart \in Carts
        /\ Held(c) => requests[c].payment \in PaymentIds

TypeInv == TypeOK /\ RequestsInv

\* A key row names a payment for its cart; its snapshot was answered and names that
\* payment and the PaymentIntent of the key.
KeysInv ==
    \A k \in Keys :
        keys[k] # None =>
            /\ payments[keys[k].payment] # None
            /\ payments[keys[k].payment].cart = keys[k].cart
            /\ keys[k].snapshot # None =>
                  /\ keys[k].snapshot = [payment |-> keys[k].payment, intent |-> k]
                  /\ payments[keys[k].payment].intent = k
                  /\ \E a \in answers : a.key = k

KeysDistinct ==
    \A k, l \in Keys :
        keys[k] # None /\ keys[l] # None /\ keys[k].payment = keys[l].payment => k = l

\* What a submission that reserved its key knows of the rows.
KnowsRows(c) ==
    LET r == requests[c]
    IN  /\ keys[r.key] # None
        /\ keys[r.key].payment = r.payment
        /\ keys[r.key].cart = r.cart
        /\ keys[r.key].snapshot = None
        /\ r.step \in {"create", "link"} => payments[r.payment].intent = None
        /\ r.step \in {"link", "snapshot"} =>
              r.intent = r.key /\ intents[r.key] # None /\ intents[r.key].cart = r.cart
        /\ r.step = "snapshot" => payments[r.payment].intent = r.key

HoldersInv == \A c \in Clients : Held(c) => KnowsRows(c)

OneHolder ==
    \A c, d \in Clients : Held(c) /\ Held(d) /\ requests[c].key = requests[d].key => c = d

\* A PaymentIntent is named by the key it was created for, and paid only after it was shown.
IntentsInv ==
    \A m \in Masters :
        intents[m] # None => m \in Keys /\ intents[m].key = m /\ (intents[m].paid => m \in shown)

LinksInv ==
    \A p \in PaymentIds :
        payments[p] # None /\ payments[p].intent # None =>
            /\ intents[payments[p].intent] # None
            /\ intents[payments[p].intent].cart = payments[p].cart

LinksUnique ==
    \A p, q \in PaymentIds :
        /\ payments[p] # None
        /\ payments[q] # None
        /\ payments[p].intent # None
        /\ payments[p].intent = payments[q].intent
        => p = q

\* An answered payment is linked to the PaymentIntent of the key.
AnswersInv ==
    \A a \in answers :
        /\ payments[a.payment] # None
        /\ payments[a.payment].intent = a.key
        /\ payments[a.payment].cart = a.cart

ShownInv == \A m \in shown : \E a \in answers : a.key = m

Inv ==
    /\ TypeInv
    /\ KeysInv
    /\ KeysDistinct
    /\ HoldersInv
    /\ OneHolder
    /\ IntentsInv
    /\ LinksInv
    /\ LinksUnique
    /\ AnswersInv
    /\ ShownInv

-----------------------------------------------------------------------------

LEMMA InitInv == Init => Inv
<1>. SUFFICES ASSUME Init PROVE Inv
    OBVIOUS
<1>1. Idle \in Requests /\ Idle.step = "idle"
    BY DEF Idle, Requests, OrNone
<1>2. TypeOK
    BY <1>1 DEF Init, TypeOK, OrNone
<1>3. \A c \in Clients : requests[c].step = "idle"
    BY <1>1 DEF Init
<1>4. TypeInv /\ HoldersInv /\ OneHolder
    BY <1>2, <1>3 DEF TypeInv, RequestsInv, HoldersInv, OneHolder, Held
<1>. QED
    BY <1>4 DEF Init, Inv, KeysInv, KeysDistinct, IntentsInv, LinksInv, LinksUnique,
                AnswersInv, ShownInv

\* A submission that holds no key may change: nothing is said of it.
LEMMA Unheld ==
    ASSUME Inv, NEW c \in Clients, NEW r \in Requests,
           r.step \in {"idle", "lookup", "reserve"},
           r.step # "idle" => r.key \in Keys /\ r.cart \in Carts,
           requests' = [requests EXCEPT ![c] = r],
           UNCHANGED <<keys, payments, intents, shown>>
    PROVE  /\ answers' \subseteq Answers => TypeInv'
           /\ HoldersInv' /\ OneHolder' /\ KeysDistinct' /\ LinksInv' /\ LinksUnique' /\ IntentsInv'
<1>1. requests \in [Clients -> Requests]
    BY DEF Inv, TypeInv, TypeOK
<1>2. requests' \in [Clients -> Requests] /\ requests'[c] = r
    BY <1>1
<1>3. \A d \in Clients : d # c => requests'[d] = requests[d]
    BY <1>1
<1>4. \A d \in Clients : Held(d)' => d # c /\ Held(d)
    BY <1>2, <1>3 DEF Held
<1>5. answers' \subseteq Answers => TypeOK'
    BY <1>2 DEF Inv, TypeInv, TypeOK
<1>6. RequestsInv'
    BY <1>2, <1>3, <1>4 DEF Inv, TypeInv, RequestsInv
<1>7. HoldersInv'
    BY <1>3, <1>4 DEF Inv, HoldersInv, KnowsRows
<1>8. OneHolder'
    BY <1>3, <1>4 DEF Inv, OneHolder
<1>. QED
    BY <1>5, <1>6, <1>7, <1>8
       DEF Inv, TypeInv, KeysDistinct, LinksInv, LinksUnique, IntentsInv

LEMMA UnheldInv ==
    ASSUME Inv, NEW c \in Clients, NEW r \in Requests,
           r.step \in {"idle", "lookup", "reserve"},
           r.step # "idle" => r.key \in Keys /\ r.cart \in Carts,
           requests' = [requests EXCEPT ![c] = r],
           UNCHANGED <<keys, payments, intents, answers, shown>>
    PROVE  Inv'
<1>1. /\ answers' \subseteq Answers => TypeInv'
      /\ HoldersInv' /\ OneHolder' /\ KeysDistinct' /\ LinksInv' /\ LinksUnique' /\ IntentsInv'
    BY Unheld
<1>2. answers' \subseteq Answers
    BY DEF Inv, TypeInv, TypeOK
<1>. QED
    BY <1>1, <1>2 DEF Inv, KeysInv, AnswersInv, ShownInv

LEMMA IdleRequest == Idle \in Requests /\ Idle.step = "idle"
BY DEF Idle, Requests, OrNone

LEMMA FinishedInv ==
    ASSUME Inv, NEW c \in Clients, Finished(c),
           UNCHANGED <<keys, payments, intents, answers, shown>>
    PROVE  Inv'
BY IdleRequest, UnheldInv DEF Finished

LEMMA SubmitInv ==
    ASSUME Inv, NEW c \in Clients, NEW key \in Keys, NEW cart \in Carts, Submit(c, key, cart)
    PROVE  Inv'
<1>. DEFINE r == [Idle EXCEPT !.step = "lookup", !.key = key, !.cart = cart]
<1>1. r \in Requests /\ r.step = "lookup" /\ r.key = key /\ r.cart = cart
    BY DEF Idle, Requests, OrNone
<1>2. requests' = [requests EXCEPT ![c] = r]
    BY DEF Submit
<1>. HIDE DEF r
<1>. QED
    BY <1>1, <1>2, UnheldInv DEF Submit

LEMMA LookupMissInv ==
    ASSUME Inv, NEW c \in Clients, LookupMiss(c)
    PROVE  Inv'
<1>. DEFINE r == [requests[c] EXCEPT !.step = "reserve"]
<1>1. requests[c] \in Requests /\ requests[c].key \in Keys /\ requests[c].cart \in Carts
    BY DEF LookupMiss, Inv, TypeInv, TypeOK, RequestsInv
<1>2. r \in Requests /\ r.step = "reserve" /\ r.key = requests[c].key /\ r.cart = requests[c].cart
    BY <1>1 DEF Requests
<1>3. requests' = [requests EXCEPT ![c] = r]
    BY DEF LookupMiss, GoesTo, Inv, TypeInv, TypeOK
<1>. HIDE DEF r
<1>. QED
    BY <1>1, <1>2, <1>3, UnheldInv DEF LookupMiss

\* The answer an earlier submission got is given again.
LEMMA LookupReplayInv ==
    ASSUME Inv, NEW c \in Clients, LookupReplay(c)
    PROVE  Inv'
<1>. DEFINE key == requests[c].key
            row == keys[key]
            a == [key |-> key, cart |-> requests[c].cart, payment |-> row.snapshot.payment]
<1>1. key \in Keys /\ requests[c].cart \in Carts
    BY DEF LookupReplay, Inv, TypeInv, RequestsInv
<1>2. row # None /\ row.cart = requests[c].cart /\ row.snapshot # None
    BY DEF LookupReplay, SameHash
<1>3. row \in KeyRows
    BY <1>1, <1>2 DEF Inv, TypeInv, TypeOK, OrNone
<1>4. /\ payments[row.payment] # None
      /\ payments[row.payment].cart = row.cart
      /\ row.snapshot = [payment |-> row.payment, intent |-> key]
      /\ payments[row.payment].intent = key
    BY <1>1, <1>2 DEF Inv, KeysInv
<1>5. answers' = answers \cup {a}
    BY DEF LookupReplay, Answered
<1>6. row.payment \in PaymentIds
    BY <1>3 DEF KeyRows
<1>7. a \in Answers /\ a.key = key /\ a.cart = requests[c].cart /\ a.payment = row.payment
    BY <1>1, <1>4, <1>6 DEF Answers
<1>. HIDE DEF a, row, key
<1>8. answers' \subseteq Answers
    BY <1>5, <1>7 DEF Inv, TypeInv, TypeOK
<1>9. /\ TypeInv'
      /\ HoldersInv' /\ OneHolder' /\ KeysDistinct' /\ LinksInv' /\ LinksUnique' /\ IntentsInv'
    BY <1>8, IdleRequest, Unheld DEF LookupReplay, Finished
<1>10. AnswersInv'
    BY <1>2, <1>4, <1>5, <1>7 DEF LookupReplay, Inv, AnswersInv
<1>11. KeysInv' /\ ShownInv'
    BY <1>5 DEF LookupReplay, Inv, KeysInv, ShownInv
<1>. QED
    BY <1>9, <1>10, <1>11 DEF Inv

\* A new payment and the key row that names it.
LEMMA ReserveInv ==
    ASSUME Inv, NEW c \in Clients, Reserve(c)
    PROVE  Inv'
<1>. DEFINE r == requests[c]
            newPayment == [cart |-> r.cart, intent |-> None]
<1>1. PICK p \in PaymentIds :
          /\ payments[p] = None
          /\ payments' = [payments EXCEPT ![p] = newPayment]
          /\ keys' = [keys EXCEPT ![r.key] = [cart |-> r.cart, payment |-> p, snapshot |-> None]]
          /\ requests' = [requests EXCEPT ![c] = [r EXCEPT !.step = "create", !.payment = p]]
    BY DEF Reserve, Inv, TypeInv, TypeOK
<1>. DEFINE newRow == [cart |-> r.cart, payment |-> p, snapshot |-> None]
            newRequest == [r EXCEPT !.step = "create", !.payment = p]
<1>2. r.step = "reserve" /\ keys[r.key] = None /\ UNCHANGED <<intents, answers, shown>>
    BY DEF Reserve
<1>3. r \in Requests /\ r.key \in Keys /\ r.cart \in Carts
    BY <1>2 DEF Inv, TypeInv, TypeOK, RequestsInv
<1>4. /\ newPayment \in PaymentRows /\ newPayment.cart = r.cart /\ newPayment.intent = None
      /\ newRow \in KeyRows /\ newRow.cart = r.cart /\ newRow.payment = p /\ newRow.snapshot = None
      /\ newPayment # None /\ newRow # None
    BY <1>3, NullAssumption DEF PaymentRows, KeyRows, OrNone
<1>5. /\ newRequest \in Requests /\ newRequest.step = "create" /\ newRequest.key = r.key
      /\ newRequest.cart = r.cart /\ newRequest.payment = p
    BY <1>3 DEF Requests, OrNone
<1>6. /\ payments \in [PaymentIds -> OrNone(PaymentRows)]
      /\ keys \in [Keys -> OrNone(KeyRows)]
      /\ requests \in [Clients -> Requests]
    BY DEF Inv, TypeInv, TypeOK
<1>. HIDE DEF r, newPayment, newRow, newRequest
<1>7. /\ payments' \in [PaymentIds -> OrNone(PaymentRows)]
      /\ payments'[p] = newPayment
      /\ \A q \in PaymentIds : q # p => payments'[q] = payments[q]
    BY <1>1, <1>4, <1>6 DEF OrNone
<1>8. /\ keys' \in [Keys -> OrNone(KeyRows)]
      /\ keys'[r.key] = newRow
      /\ \A k \in Keys : k # r.key => keys'[k] = keys[k]
    BY <1>1, <1>3, <1>4, <1>6 DEF OrNone, newRow
<1>9. /\ requests' \in [Clients -> Requests]
      /\ requests'[c] = newRequest
      /\ \A d \in Clients : d # c => requests'[d] = requests[d]
    BY <1>1, <1>5, <1>6 DEF newRequest
<1>10. TypeOK'
    BY <1>2, <1>7, <1>8, <1>9 DEF Inv, TypeInv, TypeOK
<1>11. RequestsInv'
    BY <1>3, <1>5, <1>9 DEF Inv, TypeInv, RequestsInv, Held
<1>12. \A k \in Keys : keys[k] # None => k # r.key /\ keys[k].payment # p
    BY <1>1, <1>2 DEF Inv, KeysInv
<1>13. \A k \in Keys : keys[k] # None => keys[k].payment \in PaymentIds
    BY <1>6 DEF OrNone, KeyRows
<1>14. KeysInv'
    BY <1>2, <1>4, <1>7, <1>8, <1>12, <1>13 DEF Inv, KeysInv
<1>15. KeysDistinct'
    BY <1>4, <1>8, <1>12 DEF Inv, KeysDistinct
<1>16. \A d \in Clients : Held(d) =>
           d # c /\ requests[d].key # r.key /\ requests[d].payment # p
    <2>1. ASSUME NEW d \in Clients, Held(d) PROVE d # c
        BY <1>2, <2>1 DEF Held, r
    <2>2. ASSUME NEW d \in Clients, Held(d)
          PROVE  requests[d].key # r.key /\ requests[d].payment # p
      <3>1. requests[d].key \in Keys /\ keys[requests[d].key] # None
              /\ keys[requests[d].key].payment = requests[d].payment
        BY <2>2 DEF Inv, TypeInv, RequestsInv, HoldersInv, KnowsRows, Held
      <3>. QED
        BY <1>12, <3>1
    <2>. QED
        BY <2>1, <2>2
<1>17. \A d \in Clients : d # c => (Held(d)' <=> Held(d))
    BY <1>9 DEF Held
<1>18. HoldersInv'
  <2>1. ASSUME NEW d \in Clients, d # c, Held(d)
        PROVE  /\ keys'[requests[d].key] = keys[requests[d].key]
               /\ payments'[requests[d].payment] = payments[requests[d].payment]
    BY <1>7, <1>8, <1>16, <2>1 DEF Inv, TypeInv, RequestsInv, Held
  <2>2. ASSUME NEW d \in Clients, d # c, Held(d)'
        PROVE  KnowsRows(d)'
    BY <1>2, <1>9, <1>17, <2>1, <2>2 DEF Inv, HoldersInv, KnowsRows
  <2>3. KnowsRows(c)'
    BY <1>3, <1>4, <1>5, <1>7, <1>8, <1>9 DEF KnowsRows
  <2>. QED
    BY <2>2, <2>3 DEF HoldersInv
<1>19. OneHolder'
    BY <1>5, <1>9, <1>16, <1>17 DEF Inv, OneHolder
<1>20. IntentsInv' /\ ShownInv'
    BY <1>2 DEF Inv, IntentsInv, ShownInv
<1>21. LinksInv' /\ LinksUnique'
    BY <1>2, <1>4, <1>7 DEF Inv, LinksInv, LinksUnique
<1>22. AnswersInv'
    BY <1>1, <1>2, <1>7 DEF Inv, TypeInv, TypeOK, Answers, AnswersInv
<1>. QED
    BY <1>10, <1>11, <1>14, <1>15, <1>18, <1>19, <1>20, <1>21, <1>22 DEF Inv, TypeInv

\* Facts about a submission that holds its key.
LEMMA HolderFacts ==
    ASSUME Inv, NEW c \in Clients, Held(c)
    PROVE  /\ requests[c] \in Requests
           /\ requests[c].key \in Keys
           /\ requests[c].cart \in Carts
           /\ requests[c].payment \in PaymentIds
           /\ KnowsRows(c)
           /\ payments[requests[c].payment] # None
           /\ payments[requests[c].payment] \in PaymentRows
           /\ payments[requests[c].payment].cart = requests[c].cart
           /\ keys[requests[c].key] \in KeyRows
           /\ \A d \in Clients : d # c /\ Held(d) =>
                 /\ requests[d].key # requests[c].key
                 /\ requests[d].payment # requests[c].payment
<1>. DEFINE r == requests[c]
<1>1. r \in Requests /\ r.key \in Keys /\ r.cart \in Carts /\ r.payment \in PaymentIds
    BY DEF Inv, TypeInv, TypeOK, RequestsInv, Held
<1>2. KnowsRows(c)
    BY DEF Inv, HoldersInv
<1>3. keys[r.key] # None /\ keys[r.key].payment = r.payment /\ keys[r.key].cart = r.cart
    BY <1>2 DEF KnowsRows
<1>4. payments[r.payment] # None /\ payments[r.payment].cart = r.cart
    BY <1>1, <1>3 DEF Inv, KeysInv
<1>5. payments[r.payment] \in PaymentRows /\ keys[r.key] \in KeyRows
    BY <1>1, <1>3, <1>4 DEF Inv, TypeInv, TypeOK, OrNone
<1>6. ASSUME NEW d \in Clients, d # c, Held(d)
      PROVE  requests[d].key # r.key /\ requests[d].payment # r.payment
  <2>1. requests[d].key # r.key
    BY <1>6 DEF Inv, OneHolder
  <2>2. requests[d].key \in Keys /\ KnowsRows(d)
    BY <1>6 DEF Inv, TypeInv, RequestsInv, HoldersInv, Held
  <2>3. keys[requests[d].key] # None /\ keys[requests[d].key].payment = requests[d].payment
    BY <2>2 DEF KnowsRows
  <2>. QED
    BY <1>1, <1>3, <2>1, <2>2, <2>3 DEF Inv, KeysDistinct
<1>. QED
    BY <1>1, <1>2, <1>3, <1>4, <1>5, <1>6

LEMMA CreateAtStripeInv ==
    ASSUME Inv, NEW c \in Clients, CreateAtStripe(c)
    PROVE  Inv'
<1>. DEFINE r == requests[c]
            newRequest == [r EXCEPT !.step = "link", !.intent = r.key]
            created == [cart |-> r.cart, key |-> r.key, paid |-> FALSE]
<1>1. /\ r.step = "create" /\ Held(c)
      /\ requests' = [requests EXCEPT ![c] = newRequest]
      /\ \/ /\ intents[r.key] = None
            /\ intents' = [intents EXCEPT ![r.key] = created]
         \/ /\ intents[r.key] # None
            /\ intents[r.key].cart = r.cart
            /\ UNCHANGED intents
      /\ UNCHANGED <<keys, payments, answers, shown>>
    BY DEF CreateAtStripe, CreateMaster, Held, Inv, TypeInv, TypeOK
<1>2. /\ r \in Requests /\ r.key \in Keys /\ r.cart \in Carts /\ r.payment \in PaymentIds
      /\ KnowsRows(c)
      /\ \A d \in Clients : d # c /\ Held(d) => requests[d].key # r.key
    BY <1>1, HolderFacts
<1>3. /\ created \in Intents /\ created # None
      /\ created.cart = r.cart /\ created.key = r.key /\ ~created.paid
  <2>1. created \in Intents
    BY <1>2 DEF Intents
  <2>2. created # None
    BY <2>1, NullAssumption
  <2>. QED
    BY <2>1, <2>2
<1>4. /\ newRequest \in Requests /\ newRequest.step = "link" /\ newRequest.key = r.key
      /\ newRequest.cart = r.cart /\ newRequest.payment = r.payment /\ newRequest.intent = r.key
    BY <1>2 DEF Requests, OrNone, Masters
<1>5. intents \in [Masters -> OrNone(Intents)] /\ requests \in [Clients -> Requests]
    BY DEF Inv, TypeInv, TypeOK
<1>6. r.key \in Masters
    BY <1>2 DEF Masters
<1>. HIDE DEF r, newRequest, created
<1>7. /\ intents' \in [Masters -> OrNone(Intents)]
      /\ intents'[r.key] # None
      /\ intents'[r.key].cart = r.cart
      /\ \A m \in Masters : m # r.key => intents'[m] = intents[m]
      /\ intents[r.key] = None => intents'[r.key] = created
      /\ intents[r.key] # None => intents'[r.key] = intents[r.key]
    BY <1>1, <1>3, <1>5, <1>6 DEF OrNone
<1>8. /\ requests' \in [Clients -> Requests]
      /\ requests'[c] = newRequest
      /\ \A d \in Clients : d # c => requests'[d] = requests[d]
    BY <1>1, <1>4, <1>5
<1>9. \A d \in Clients : Held(d)' <=> Held(d)
    BY <1>1, <1>4, <1>8 DEF Held
<1>10. TypeInv'
    BY <1>1, <1>2, <1>4, <1>7, <1>8, <1>9 DEF Inv, TypeInv, TypeOK, RequestsInv
<1>11. KeysInv' /\ KeysDistinct' /\ AnswersInv' /\ ShownInv' /\ LinksUnique'
    BY <1>1 DEF Inv, KeysInv, KeysDistinct, AnswersInv, ShownInv, LinksUnique
<1>12. HoldersInv'
  <2>1. ASSUME NEW d \in Clients, d # c, Held(d)
        PROVE  KnowsRows(d)'
    <3>1. requests[d].key \in Masters /\ requests[d].key # r.key /\ KnowsRows(d)
        BY <1>2, <2>1, HolderFacts DEF Masters, r
    <3>2. intents'[requests[d].key] = intents[requests[d].key] /\ requests'[d] = requests[d]
        BY <1>7, <1>8, <2>1, <3>1
    <3>. QED
        BY <1>1, <3>1, <3>2 DEF KnowsRows
  <2>2. KnowsRows(c)'
    BY <1>1, <1>2, <1>4, <1>7, <1>8 DEF KnowsRows, r
  <2>. QED
    BY <1>9, <2>1, <2>2 DEF HoldersInv
<1>13. OneHolder'
    BY <1>4, <1>8, <1>9 DEF Inv, OneHolder, r
<1>14. IntentsInv'
    BY <1>1, <1>2, <1>3, <1>7 DEF Inv, IntentsInv
<1>15. LinksInv'
  <2>1. ASSUME NEW p \in PaymentIds, payments[p] # None, payments[p].intent # None
        PROVE  /\ intents'[payments[p].intent] # None
               /\ intents'[payments[p].intent].cart = payments[p].cart
    <3>1. /\ intents[payments[p].intent] # None
          /\ intents[payments[p].intent].cart = payments[p].cart
        BY <2>1 DEF Inv, LinksInv
    <3>2. payments[p].intent \in Masters
        BY <2>1 DEF Inv, TypeInv, TypeOK, PaymentRows, OrNone
    <3>. QED
        BY <1>7, <3>1, <3>2
  <2>. QED
    BY <1>1, <2>1 DEF LinksInv
<1>. QED
    BY <1>10, <1>11, <1>12, <1>13, <1>14, <1>15 DEF Inv

\* The payment of the submission gets the PaymentIntent, which no other payment has.
LEMMA LinkInv ==
    ASSUME Inv, NEW c \in Clients, Link(c)
    PROVE  Inv'
<1>. DEFINE r == requests[c]
            row == payments[r.payment]
            newRow == [row EXCEPT !.intent = r.key]
            newRequest == [r EXCEPT !.step = "snapshot"]
<1>1. r.step = "link" /\ Held(c) /\ UNCHANGED <<keys, intents, answers, shown>>
    BY DEF Link, Held
<1>2. /\ r \in Requests /\ r.key \in Keys /\ r.cart \in Carts /\ r.payment \in PaymentIds
      /\ KnowsRows(c)
      /\ row # None /\ row \in PaymentRows /\ row.cart = r.cart
      /\ \A d \in Clients : d # c /\ Held(d) =>
            requests[d].key # r.key /\ requests[d].payment # r.payment
    BY <1>1, HolderFacts
<1>3. /\ keys[r.key] # None /\ keys[r.key].payment = r.payment /\ keys[r.key].snapshot = None
      /\ row.intent = None
      /\ r.intent = r.key /\ intents[r.key] # None /\ intents[r.key].cart = r.cart
    BY <1>1, <1>2 DEF KnowsRows
<1>4. /\ payments \in [PaymentIds -> OrNone(PaymentRows)]
      /\ requests \in [Clients -> Requests]
    BY DEF Inv, TypeInv, TypeOK
<1>5. /\ payments' = [payments EXCEPT ![r.payment] = newRow]
      /\ requests' = [requests EXCEPT ![c] = newRequest]
      /\ LinkedTo(r.key) \subseteq {r.payment}
    BY <1>2, <1>3, <1>4 DEF Link, GoesTo
<1>6. /\ newRow \in PaymentRows /\ newRow # None
      /\ newRow.cart = r.cart /\ newRow.intent = r.key
    BY <1>2, NullAssumption DEF PaymentRows, OrNone, Masters
<1>7. /\ newRequest \in Requests /\ newRequest.step = "snapshot" /\ newRequest.key = r.key
      /\ newRequest.cart = r.cart /\ newRequest.payment = r.payment /\ newRequest.intent = r.intent
    BY <1>2 DEF Requests
<1>8. None # r.key
    BY <1>2, ConstantsAssumption
<1>. HIDE DEF r, row, newRow, newRequest
<1>9. /\ payments' \in [PaymentIds -> OrNone(PaymentRows)]
      /\ payments'[r.payment] = newRow
      /\ \A q \in PaymentIds : q # r.payment => payments'[q] = payments[q]
    BY <1>2, <1>4, <1>5, <1>6 DEF OrNone
<1>10. /\ requests' \in [Clients -> Requests]
       /\ requests'[c] = newRequest
       /\ \A d \in Clients : d # c => requests'[d] = requests[d]
    BY <1>4, <1>5, <1>7
<1>11. \A d \in Clients : Held(d)' <=> Held(d)
    BY <1>1, <1>7, <1>10 DEF Held
<1>12. TypeInv'
    BY <1>1, <1>2, <1>7, <1>9, <1>10, <1>11 DEF Inv, TypeInv, TypeOK, RequestsInv
<1>13. KeysInv' /\ KeysDistinct'
  <2>1. ASSUME NEW k \in Keys, keys[k] # None
        PROVE  \/ k = r.key
               \/ keys[k].payment # r.payment /\ keys[k].payment \in PaymentIds
    BY <1>2, <1>3, <2>1 DEF Inv, TypeInv, TypeOK, OrNone, KeyRows, KeysDistinct
  <2>. QED
    BY <1>1, <1>2, <1>3, <1>6, <1>9, <2>1 DEF Inv, KeysInv, KeysDistinct, row
<1>14. HoldersInv'
  <2>1. ASSUME NEW d \in Clients, d # c, Held(d)
        PROVE  KnowsRows(d)'
    <3>1. requests[d].payment \in PaymentIds /\ requests[d].payment # r.payment /\ KnowsRows(d)
        BY <1>2, <2>1, HolderFacts DEF r
    <3>2. payments'[requests[d].payment] = payments[requests[d].payment] /\ requests'[d] = requests[d]
        BY <1>9, <1>10, <2>1, <3>1
    <3>. QED
        BY <1>1, <3>1, <3>2 DEF KnowsRows
  <2>2. KnowsRows(c)'
    BY <1>1, <1>2, <1>3, <1>6, <1>7, <1>9, <1>10 DEF KnowsRows, r
  <2>. QED
    BY <1>11, <2>1, <2>2 DEF HoldersInv
<1>15. OneHolder'
    BY <1>7, <1>10, <1>11 DEF Inv, OneHolder, r
<1>16. IntentsInv' /\ ShownInv'
    BY <1>1 DEF Inv, IntentsInv, ShownInv
<1>17. LinksInv'
    BY <1>1, <1>3, <1>6, <1>9 DEF Inv, LinksInv
<1>18. LinksUnique'
    BY <1>5, <1>6, <1>9 DEF Inv, LinksUnique, LinkedTo
<1>19. AnswersInv'
  <2>1. ASSUME NEW a \in answers
        PROVE  a.payment \in PaymentIds /\ a.payment # r.payment
    <3>1. a.key \in Keys /\ a.payment \in PaymentIds /\ payments[a.payment].intent = a.key
        BY DEF Inv, TypeInv, TypeOK, Answers, AnswersInv
    <3>2. a.key # None
        BY <3>1, ConstantsAssumption
    <3>. QED
        BY <1>3, <3>1, <3>2 DEF row
  <2>. QED
    BY <1>1, <1>9, <2>1 DEF Inv, AnswersInv
<1>. QED
    BY <1>12, <1>13, <1>14, <1>15, <1>16, <1>17, <1>18, <1>19 DEF Inv

\* What the last step of a submission writes.
LEMMA SnapshotFacts ==
    ASSUME Inv, NEW c \in Clients, Snapshot(c)
    PROVE  LET r == requests[c]
               snapshot == [payment |-> r.payment, intent |-> r.key]
               a == [key |-> r.key, cart |-> r.cart, payment |-> r.payment]
           IN  /\ snapshot \in Snapshots
               /\ keys' = [keys EXCEPT ![r.key] = [@ EXCEPT !.snapshot = snapshot]]
               /\ a \in Answers
               /\ answers' = answers \cup {a}
               /\ payments[r.payment] # None
               /\ payments[r.payment].intent = r.key
               /\ payments[r.payment].cart = r.cart
<1>. DEFINE r == requests[c]
            row == keys[r.key]
            snapshot == [payment |-> r.payment, intent |-> r.key]
<1>1. r.step = "snapshot" /\ Held(c)
    BY DEF Snapshot, Held
<1>2. /\ r.key \in Keys /\ r.cart \in Carts /\ r.payment \in PaymentIds
      /\ KnowsRows(c)
      /\ payments[r.payment] # None /\ payments[r.payment].cart = r.cart
      /\ row \in KeyRows
    BY <1>1, HolderFacts
<1>3. /\ row # None /\ row.payment = r.payment /\ r.intent = r.key
      /\ payments[r.payment].intent = r.key
    BY <1>1, <1>2 DEF KnowsRows
<1>4. snapshot \in Snapshots
    BY <1>2 DEF Snapshots, Masters
<1>5. keys' = [keys EXCEPT ![r.key] =
                  [@ EXCEPT !.payment = r.payment, !.snapshot = snapshot]]
    BY <1>3 DEF Snapshot
<1>6. [row EXCEPT !.payment = r.payment, !.snapshot = snapshot] = [row EXCEPT !.snapshot = snapshot]
    BY <1>2, <1>3 DEF KeyRows
<1>7. keys' = [keys EXCEPT ![r.key] = [@ EXCEPT !.snapshot = snapshot]]
    BY <1>5, <1>6
<1>8. [key |-> r.key, cart |-> r.cart, payment |-> r.payment] \in Answers
    BY <1>2 DEF Answers
<1>. QED
    BY <1>2, <1>3, <1>4, <1>7, <1>8 DEF Snapshot, Answered

LEMMA SnapshotInv ==
    ASSUME Inv, NEW c \in Clients, Snapshot(c)
    PROVE  Inv'
<1>. DEFINE r == requests[c]
            row == keys[r.key]
            snapshot == [payment |-> r.payment, intent |-> r.key]
            a == [key |-> r.key, cart |-> r.cart, payment |-> r.payment]
            newRow == [row EXCEPT !.snapshot = snapshot]
<1>1. /\ r.step = "snapshot" /\ Held(c)
      /\ requests' = [requests EXCEPT ![c] = Idle]
      /\ UNCHANGED <<payments, intents, shown>>
    BY DEF Snapshot, Held, Finished
<1>2. /\ r.key \in Keys /\ r.payment \in PaymentIds /\ row \in KeyRows
      /\ KnowsRows(c)
      /\ \A d \in Clients : d # c /\ Held(d) => requests[d].key # r.key
    BY <1>1, HolderFacts
<1>3. row # None /\ row.payment = r.payment /\ row.cart = r.cart
    BY <1>2 DEF KnowsRows
<1>4. /\ snapshot \in Snapshots
      /\ keys' = [keys EXCEPT ![r.key] = newRow]
      /\ a \in Answers
      /\ answers' = answers \cup {a}
      /\ payments[r.payment] # None
      /\ payments[r.payment].intent = r.key
      /\ payments[r.payment].cart = r.cart
    BY SnapshotFacts
<1>5. /\ newRow \in KeyRows /\ newRow # None
      /\ newRow.payment = r.payment /\ newRow.cart = r.cart /\ newRow.snapshot = snapshot
    BY <1>2, <1>3, <1>4, NullAssumption DEF KeyRows, OrNone
<1>6. a.key = r.key /\ a.cart = r.cart /\ a.payment = r.payment
    OBVIOUS
<1>7. /\ keys \in [Keys -> OrNone(KeyRows)]
      /\ requests \in [Clients -> Requests]
      /\ answers \subseteq Answers
    BY DEF Inv, TypeInv, TypeOK
<1>. HIDE DEF r, row, newRow, a
<1>8. /\ keys' \in [Keys -> OrNone(KeyRows)]
      /\ keys'[r.key] = newRow
      /\ \A k \in Keys : k # r.key => keys'[k] = keys[k]
    BY <1>2, <1>4, <1>5, <1>7 DEF OrNone
<1>9. /\ requests' \in [Clients -> Requests]
      /\ requests'[c].step = "idle"
      /\ \A d \in Clients : d # c => requests'[d] = requests[d]
    BY <1>1, <1>7, IdleRequest
<1>10. \A d \in Clients : Held(d)' => d # c /\ Held(d)
    BY <1>9 DEF Held
<1>11. TypeInv'
    BY <1>1, <1>4, <1>7, <1>8, <1>9, <1>10 DEF Inv, TypeInv, TypeOK, RequestsInv
<1>12. KeysInv'
    BY <1>1, <1>4, <1>5, <1>6, <1>8 DEF Inv, KeysInv
<1>13. KeysDistinct'
    BY <1>2, <1>3, <1>5, <1>8 DEF Inv, KeysDistinct, row
<1>14. HoldersInv'
  <2>1. ASSUME NEW d \in Clients, d # c, Held(d)
        PROVE  KnowsRows(d)'
    <3>1. requests[d].key \in Keys /\ requests[d].key # r.key /\ KnowsRows(d)
        BY <1>2, <2>1, HolderFacts DEF r
    <3>2. keys'[requests[d].key] = keys[requests[d].key] /\ requests'[d] = requests[d]
        BY <1>8, <1>9, <2>1, <3>1
    <3>. QED
        BY <1>1, <3>1, <3>2 DEF KnowsRows
  <2>. QED
    BY <1>10, <2>1 DEF HoldersInv
<1>15. OneHolder'
    BY <1>9, <1>10 DEF Inv, OneHolder
<1>16. IntentsInv' /\ LinksInv' /\ LinksUnique'
    BY <1>1 DEF Inv, IntentsInv, LinksInv, LinksUnique
<1>17. AnswersInv' /\ ShownInv'
    BY <1>1, <1>4, <1>6 DEF Inv, AnswersInv, ShownInv
<1>. QED
    BY <1>11, <1>12, <1>13, <1>14, <1>15, <1>16, <1>17 DEF Inv

LEMMA DeleteExpiredKeyInv ==
    ASSUME Inv, NEW k \in Keys, DeleteExpiredKey(k)
    PROVE  Inv'
<1>1. /\ keys' = [keys EXCEPT ![k] = None]
      /\ UNCHANGED <<payments, intents, requests, answers, shown>>
      /\ \A c \in Clients : ~Holds(c, k)
    BY DEF DeleteExpiredKey
<1>2. /\ keys' \in [Keys -> OrNone(KeyRows)]
      /\ keys'[k] = None
      /\ \A l \in Keys : l # k => keys'[l] = keys[l]
    BY <1>1 DEF Inv, TypeInv, TypeOK, OrNone
<1>3. TypeInv'
    BY <1>1, <1>2 DEF Inv, TypeInv, TypeOK, RequestsInv, Held
<1>4. \A c \in Clients : Held(c) => requests[c].key \in Keys /\ requests[c].key # k
    BY <1>1 DEF Inv, TypeInv, RequestsInv, Held, Holds
<1>5. HoldersInv' /\ OneHolder'
    BY <1>1, <1>2, <1>4 DEF Inv, HoldersInv, OneHolder, KnowsRows, Held
<1>6. KeysInv' /\ KeysDistinct'
    BY <1>1, <1>2 DEF Inv, KeysInv, KeysDistinct
<1>7. IntentsInv' /\ LinksInv' /\ LinksUnique' /\ AnswersInv' /\ ShownInv'
    BY <1>1 DEF Inv, IntentsInv, LinksInv, LinksUnique, AnswersInv, ShownInv
<1>. QED
    BY <1>3, <1>5, <1>6, <1>7 DEF Inv

LEMMA ShowPaymentInv ==
    ASSUME Inv, NEW k \in Keys, NEW p \in PaymentIds, ShowPayment(k, p)
    PROVE  Inv'
<1>1. /\ keys[k] # None /\ keys[k].snapshot # None
      /\ shown' = shown \cup {keys[k].snapshot.intent}
      /\ UNCHANGED <<keys, payments, intents, requests, answers>>
    BY DEF ShowPayment
<1>2. keys[k].snapshot.intent = k /\ \E a \in answers : a.key = k
  <2>1. /\ keys[k].snapshot = [payment |-> keys[k].payment, intent |-> k]
        /\ \E a \in answers : a.key = k
    BY <1>1 DEF Inv, KeysInv
  <2>. QED
    BY <2>1
<1>3. TypeInv'
    BY <1>1, <1>2 DEF Inv, TypeInv, TypeOK, RequestsInv, Held, Masters
<1>4. HoldersInv' /\ OneHolder'
    BY <1>1 DEF Inv, HoldersInv, OneHolder, KnowsRows, Held
<1>5. KeysInv' /\ KeysDistinct' /\ LinksInv' /\ LinksUnique' /\ AnswersInv'
    BY <1>1 DEF Inv, KeysInv, KeysDistinct, LinksInv, LinksUnique, AnswersInv
<1>6. IntentsInv' /\ ShownInv'
    BY <1>1, <1>2 DEF Inv, IntentsInv, ShownInv
<1>. QED
    BY <1>3, <1>4, <1>5, <1>6 DEF Inv

LEMMA CustomerPaysInv ==
    ASSUME Inv, NEW m \in Masters, CustomerPays(m)
    PROVE  Inv'
<1>1. /\ m \in shown /\ intents[m] # None
      /\ intents' = [intents EXCEPT ![m].paid = TRUE]
      /\ UNCHANGED <<keys, payments, requests, answers, shown>>
    BY DEF CustomerPays
<1>2. intents \in [Masters -> OrNone(Intents)] /\ intents[m] \in Intents
    BY <1>1 DEF Inv, TypeInv, TypeOK, OrNone
<1>3. /\ [intents[m] EXCEPT !.paid = TRUE] \in Intents
      /\ [intents[m] EXCEPT !.paid = TRUE].key = intents[m].key
      /\ [intents[m] EXCEPT !.paid = TRUE].cart = intents[m].cart
    BY <1>2 DEF Intents
<1>4. [intents[m] EXCEPT !.paid = TRUE] # None
    BY <1>3, NullAssumption
<1>5. intents' \in [Masters -> OrNone(Intents)]
    BY <1>1, <1>2, <1>3 DEF OrNone
<1>6. /\ \A n \in Masters : n # m => intents'[n] = intents[n]
      /\ \A n \in Masters : intents[n] # None =>
            intents'[n] # None /\ intents'[n].cart = intents[n].cart /\ intents'[n].key = intents[n].key
    BY <1>1, <1>2, <1>3, <1>4
<1>7. TypeInv'
    BY <1>1, <1>5 DEF Inv, TypeInv, TypeOK, RequestsInv, Held
<1>8. OneHolder' /\ KeysInv' /\ KeysDistinct' /\ LinksUnique' /\ AnswersInv' /\ ShownInv'
    BY <1>1 DEF Inv, OneHolder, Held, KeysInv, KeysDistinct, LinksUnique, AnswersInv, ShownInv
<1>9. HoldersInv'
  <2>1. \A c \in Clients : Held(c) => requests[c].key \in Masters
    BY DEF Inv, TypeInv, RequestsInv, Held, Masters
  <2>. QED
    BY <1>1, <1>6, <2>1 DEF Inv, HoldersInv, KnowsRows, Held
<1>10. IntentsInv'
    BY <1>1, <1>6 DEF Inv, IntentsInv
<1>11. LinksInv'
  <2>1. ASSUME NEW p \in PaymentIds, payments[p] # None, payments[p].intent # None
        PROVE  payments[p].intent \in Masters
    BY <2>1 DEF Inv, TypeInv, TypeOK, PaymentRows, OrNone
  <2>. QED
    BY <1>1, <1>6, <2>1 DEF Inv, LinksInv
<1>. QED
    BY <1>7, <1>8, <1>9, <1>10, <1>11 DEF Inv

\* Every step preserves the invariant.
LEMMA NextInv == Inv /\ [Next]_vars => Inv'
<1>. SUFFICES ASSUME Inv, [Next]_vars PROVE Inv'
    OBVIOUS
<1>1. CASE UNCHANGED vars
    BY <1>1 DEF vars, Inv, TypeInv, TypeOK, RequestsInv, Held, KeysInv, KeysDistinct, HoldersInv,
                KnowsRows, OneHolder, IntentsInv, LinksInv, LinksUnique, AnswersInv, ShownInv
<1>2. ASSUME NEW c \in Clients, NEW key \in Keys, NEW cart \in Carts, Submit(c, key, cart)
      PROVE  Inv'
    BY <1>2, SubmitInv
<1>3. ASSUME NEW c \in Clients, Step(c)
      PROVE  Inv'
  <2>1. CASE LookupMiss(c)
    BY <2>1, LookupMissInv
  <2>2. CASE LookupReplay(c)
    BY <2>2, LookupReplayInv
  <2>3. CASE LookupRefused(c) \/ ReserveRefused(c) \/ CreateRefused(c) \/ LinkRefused(c)
    BY <2>3, FinishedInv DEF LookupRefused, ReserveRefused, CreateRefused, LinkRefused
  <2>4. CASE Reserve(c)
    BY <2>4, ReserveInv
  <2>5. CASE CreateAtStripe(c)
    BY <2>5, CreateAtStripeInv
  <2>6. CASE Link(c)
    BY <2>6, LinkInv
  <2>7. CASE Snapshot(c)
    BY <2>7, SnapshotInv
  <2>. QED
    BY <1>3, <2>1, <2>2, <2>3, <2>4, <2>5, <2>6, <2>7 DEF Step
<1>4. ASSUME NEW c \in Clients, Abandon(c)
      PROVE  Inv'
    BY <1>4, FinishedInv DEF Abandon
<1>5. ASSUME NEW k \in Keys, DeleteExpiredKey(k)
      PROVE  Inv'
    BY <1>5, DeleteExpiredKeyInv
<1>6. ASSUME NEW k \in Keys, NEW p \in PaymentIds, ShowPayment(k, p)
      PROVE  Inv'
    BY <1>6, ShowPaymentInv
<1>7. ASSUME NEW m \in Masters, CustomerPays(m)
      PROVE  Inv'
    BY <1>7, CustomerPaysInv
<1>. QED
    BY <1>1, <1>2, <1>3, <1>4, <1>5, <1>6, <1>7 DEF Next

(***************************************************************************)
(* The inductive invariant holds in every reachable state.                 *)
(***************************************************************************)
THEOREM Invariance == Spec => []Inv
BY InitInv, NextInv, PTL DEF Spec

-----------------------------------------------------------------------------

(***************************************************************************)
(* Rows, PaymentIntents, submissions and answers keep their types.         *)
(***************************************************************************)
THEOREM TypeCorrect == Spec => []TypeOK
<1>1. Inv => TypeOK
    BY DEF Inv, TypeInv
<1>. QED
    BY <1>1, Invariance, PTL

(***************************************************************************)
(* However often a form is submitted, at most one of the PaymentIntents    *)
(* created for it is paid.                                                 *)
(***************************************************************************)
THEOREM ChargedOnceCorrect == Spec => []ChargedOnce
<1>1. Inv => ChargedOnce
    BY DEF Inv, IntentsInv, ChargedOnce, Paid
<1>. QED
    BY <1>1, Invariance, PTL

\* A PaymentIntent that was shown belongs to an answered payment.
LEMMA ShownIsAnswered ==
    ASSUME Inv, NEW m \in shown
    PROVE  \E a \in answers :
               /\ a.key = m
               /\ a.payment \in PaymentIds
               /\ payments[a.payment] # None
               /\ payments[a.payment].intent = m
               /\ m \in Keys
<1>1. PICK a \in answers : a.key = m
    BY DEF Inv, ShownInv
<1>2. a \in Answers
    BY DEF Inv, TypeInv, TypeOK
<1>3. a.payment \in PaymentIds /\ a.key \in Keys
    BY <1>2 DEF Answers
<1>. QED
    BY <1>1, <1>3 DEF Inv, AnswersInv

(***************************************************************************)
(* The webhook of every paid PaymentIntent finds exactly one payment, and  *)
(* it is for the cart the PaymentIntent was created for.                   *)
(***************************************************************************)
THEOREM PaidKnownCorrect == Spec => []PaidIsKnown
<1>1. ASSUME Inv, NEW m \in Paid
      PROVE  \E p \in PaymentIds : LinkedTo(m) = {p} /\ payments[p].cart = intents[m].cart
  <2>1. m \in Masters /\ intents[m] # None /\ m \in shown
    BY <1>1 DEF Inv, IntentsInv, Paid
  <2>2. PICK a \in answers : /\ a.payment \in PaymentIds
                             /\ payments[a.payment] # None
                             /\ payments[a.payment].intent = m
                             /\ m \in Keys
    BY <1>1, <2>1, ShownIsAnswered
  <2>3. m # None
    BY <2>2, ConstantsAssumption
  <2>4. payments[a.payment].cart = intents[m].cart
    BY <1>1, <2>2, <2>3 DEF Inv, LinksInv
  <2>5. \A q \in LinkedTo(m) : q = a.payment
    BY <1>1, <2>2, <2>3 DEF Inv, LinksUnique, LinkedTo
  <2>6. LinkedTo(m) = {a.payment}
    BY <2>2, <2>5 DEF LinkedTo
  <2>. QED
    BY <2>2, <2>4, <2>6
<1>2. Inv => PaidIsKnown
    BY <1>1 DEF PaidIsKnown
<1>. QED
    BY <1>2, Invariance, PTL

(***************************************************************************)
(* The page of a payment shows the secret of that payment's own            *)
(* PaymentIntent, whichever statements of other submissions ran between    *)
(* the link and the snapshot.                                              *)
(***************************************************************************)
THEOREM PageCorrect == Spec => []PageShowsOwnIntent
<1>1. ASSUME Inv, NEW k \in Keys, keys[k] # None, keys[k].snapshot # None
      PROVE  /\ keys[k].snapshot.payment = keys[k].payment
             /\ payments[keys[k].payment].intent = keys[k].snapshot.intent
             /\ payments[keys[k].payment].cart = keys[k].cart
  <2>1. /\ keys[k].snapshot = [payment |-> keys[k].payment, intent |-> k]
        /\ payments[keys[k].payment].intent = k
        /\ payments[keys[k].payment].cart = keys[k].cart
    BY <1>1 DEF Inv, KeysInv
  <2>. QED
    BY <2>1
<1>2. Inv => PageShowsOwnIntent
    BY <1>1 DEF PageShowsOwnIntent
<1>. QED
    BY <1>2, Invariance, PTL

-----------------------------------------------------------------------------
(* The refinement of CheckoutPromise.                                      *)

Charged == { intents[m].key : m \in Paid }

Kept == Orders' = Orders /\ Charged' = Charged

\* Answers and paid PaymentIntents are all that the promise sees.
LEMMA UnseenStep ==
    ASSUME UNCHANGED <<answers, intents>>
    PROVE  Kept
BY DEF Kept, Orders, Charged, Paid

\* An answer is the first one to its form, or repeats it.
LEMMA AnswerStep ==
    ASSUME Inv, NEW a \in Answers,
           answers' = answers \cup {a},
           UNCHANGED <<payments, intents>>,
           payments[a.payment] # None,
           payments[a.payment].intent = a.key,
           payments[a.payment].cart = a.cart
    PROVE  Kept \/ Promise!Answer(a.key, a.payment, a.cart)
<1>1. a.key \in Keys /\ a.cart \in Carts /\ a.payment \in PaymentIds
    BY DEF Answers
<1>2. \A b \in answers : b \in Answers /\ b.payment \in PaymentIds /\ b.key \in Keys
    BY DEF Inv, TypeInv, TypeOK, Answers
<1>3. Charged' = Charged
    BY DEF Charged, Paid
<1>4. a.key # None
    BY <1>1, ConstantsAssumption
<1>5. ASSUME NEW b \in answers, b.key = a.key
      PROVE  b.payment = a.payment /\ b.cart = a.cart
    BY <1>1, <1>2, <1>4, <1>5 DEF Inv, AnswersInv, LinksUnique
<1>6. ASSUME NEW b \in answers, b.payment = a.payment
      PROVE  b.key = a.key
    BY <1>6 DEF Inv, AnswersInv
<1>. DEFINE OrdersOf(A, k) ==
        { [payment |-> b.payment, cart |-> b.cart] : b \in { c \in A : c.key = k } }
<1>7. /\ Orders = [k \in Keys |-> OrdersOf(answers, k)]
      /\ Orders' = [k \in Keys |-> OrdersOf(answers', k)]
    BY DEF Orders
<1>8. \A k \in Keys : k # a.key => OrdersOf(answers', k) = OrdersOf(answers, k)
    OBVIOUS
<1>9. CASE \E b \in answers : b.key = a.key
  <2>1. OrdersOf(answers', a.key) = OrdersOf(answers, a.key)
    BY <1>5, <1>9
  <2>. HIDE DEF OrdersOf
  <2>2. Orders' = Orders
    BY <1>7, <1>8, <2>1
  <2>. QED
    BY <1>3, <2>2 DEF Kept
<1>10. CASE ~ \E b \in answers : b.key = a.key
  <2>1. /\ OrdersOf(answers, a.key) = {}
        /\ OrdersOf(answers', a.key) = {[payment |-> a.payment, cart |-> a.cart]}
    BY <1>10
  <2>2. \A k \in Keys : \A o \in OrdersOf(answers, k) : o.payment # a.payment
    BY <1>6, <1>10
  <2>. HIDE DEF OrdersOf
  <2>3. Orders[a.key] = {} /\ \A k \in Keys : \A o \in Orders[k] : o.payment # a.payment
    BY <1>1, <1>7, <2>1, <2>2
  <2>4. Orders' = [Orders EXCEPT ![a.key] = {[payment |-> a.payment, cart |-> a.cart]}]
    BY <1>1, <1>7, <1>8, <2>1
  <2>. QED
    BY <1>3, <2>3, <2>4 DEF Promise!Answer, Charged
<1>. QED
    BY <1>9, <1>10

\* A confirmation charges a form that was answered and not charged before.
LEMMA ChargeStep ==
    ASSUME Inv, NEW m \in Masters, CustomerPays(m)
    PROVE  m \in Keys /\ Promise!Charge(m)
<1>1. /\ m \in shown /\ intents[m] # None /\ ~intents[m].paid
      /\ intents' = [intents EXCEPT ![m].paid = TRUE]
      /\ UNCHANGED answers
    BY DEF CustomerPays
<1>2. intents \in [Masters -> OrNone(Intents)] /\ intents[m] \in Intents
    BY <1>1 DEF Inv, TypeInv, TypeOK, OrNone
<1>3. m \in Keys /\ \A n \in Masters : intents[n] # None => intents[n].key = n
    BY <1>1 DEF Inv, IntentsInv
<1>4. /\ intents'[m] \in Intents /\ intents'[m].key = m /\ intents'[m].paid
      /\ \A n \in Masters : n # m => intents'[n] = intents[n]
    BY <1>1, <1>2, <1>3 DEF Intents
<1>5. intents'[m] # None
    BY <1>4, NullAssumption
<1>6. m \notin Paid /\ Paid' = Paid \cup {m}
    BY <1>1, <1>4, <1>5 DEF Paid
<1>7. Charged = Paid /\ Charged' = Paid'
    BY <1>3, <1>4, <1>6 DEF Charged, Paid
<1>8. PICK a \in answers : a.key = m
    BY <1>1 DEF Inv, ShownInv
<1>9. Orders[m] # {} /\ Orders' = Orders
    BY <1>1, <1>3, <1>8 DEF Orders
<1>. QED
    BY <1>3, <1>6, <1>7, <1>9 DEF Promise!Charge, Charged

\* Stripe creates PaymentIntents that are not paid.
LEMMA CreateStep ==
    ASSUME Inv, NEW c \in Clients, CreateAtStripe(c)
    PROVE  Kept
<1>. DEFINE r == requests[c]
            intent == [cart |-> r.cart, key |-> r.key, paid |-> FALSE]
<1>1. /\ UNCHANGED answers
      /\ \/ UNCHANGED intents
         \/ intents[r.key] = None /\ intents' = [intents EXCEPT ![r.key] = intent]
    BY DEF CreateAtStripe, CreateMaster
<1>2. ~intent.paid
    OBVIOUS
<1>. HIDE DEF r, intent
<1>3. intents \in [Masters -> OrNone(Intents)]
    BY DEF Inv, TypeInv, TypeOK
<1>4. Paid' = Paid /\ \A m \in Paid : intents'[m] = intents[m]
    BY <1>1, <1>2, <1>3 DEF Paid
<1>5. Charged' = Charged
    BY <1>4 DEF Charged
<1>6. Orders' = Orders
    BY <1>1 DEF Orders
<1>. QED
    BY <1>5, <1>6 DEF Kept

(***************************************************************************)
(* Checkout implements CheckoutPromise: over all submissions of a form,    *)
(* with crashes, deleted key rows and answers repeated, the customer sees  *)
(* one payment, for the cart of the form, and one charge after the answer. *)
(***************************************************************************)
THEOREM PromiseCorrect == Spec => KeepsPromise
<1>1. Init => Promise!Init
  <2>. SUFFICES ASSUME Init PROVE Promise!Init
    OBVIOUS
  <2>1. Orders = [k \in Keys |-> {}]
    BY DEF Init, Orders
  <2>2. Paid = {}
    BY DEF Init, Paid
  <2>. QED
    BY <2>1, <2>2 DEF Promise!Init
<1>2. Inv /\ [Next]_vars => Kept \/ Promise!Next
  <2>. SUFFICES ASSUME Inv, [Next]_vars PROVE Kept \/ Promise!Next
    OBVIOUS
  <2>1. CASE UNCHANGED vars
    BY <2>1, UnseenStep DEF vars
  <2>2. ASSUME NEW c \in Clients,
               \/ \E key \in Keys, cart \in Carts : Submit(c, key, cart)
               \/ LookupMiss(c) \/ LookupRefused(c) \/ Reserve(c) \/ ReserveRefused(c)
               \/ CreateRefused(c) \/ Link(c) \/ LinkRefused(c) \/ Abandon(c)
        PROVE  Kept
    BY <2>2, UnseenStep DEF Submit, LookupMiss, LookupRefused, Reserve, ReserveRefused,
                            CreateRefused, Link, LinkRefused, Abandon
  <2>3. ASSUME NEW c \in Clients, LookupReplay(c)
        PROVE  Kept \/ Promise!Next
    <3>. DEFINE r == requests[c]
                row == keys[r.key]
                a == [key |-> r.key, cart |-> r.cart, payment |-> row.snapshot.payment]
    <3>1. /\ row # None /\ row.cart = r.cart /\ row.snapshot # None
          /\ answers' = answers \cup {a}
          /\ UNCHANGED <<payments, intents>>
        BY <2>3 DEF LookupReplay, SameHash, Answered
    <3>2. r.key \in Keys /\ r.cart \in Carts
        BY <2>3 DEF LookupReplay, Inv, TypeInv, RequestsInv
    <3>3. row \in KeyRows
        BY <3>1, <3>2 DEF Inv, TypeInv, TypeOK, OrNone
    <3>4. /\ payments[row.payment] # None
          /\ payments[row.payment].cart = r.cart
          /\ payments[row.payment].intent = r.key
          /\ row.snapshot = [payment |-> row.payment, intent |-> r.key]
        BY <3>1, <3>2 DEF Inv, KeysInv
    <3>5. row.snapshot.payment = row.payment /\ row.payment \in PaymentIds
        BY <3>3, <3>4 DEF KeyRows
    <3>6. a \in Answers
        BY <3>2, <3>5 DEF Answers
    <3>7. Kept \/ Promise!Answer(a.key, a.payment, a.cart)
        BY <3>1, <3>4, <3>5, <3>6, AnswerStep
    <3>. QED
        BY <3>2, <3>5, <3>7 DEF Promise!Next
  <2>4. ASSUME NEW c \in Clients, Snapshot(c)
        PROVE  Kept \/ Promise!Next
    <3>. DEFINE r == requests[c]
                a == [key |-> r.key, cart |-> r.cart, payment |-> r.payment]
    <3>1. /\ a \in Answers
          /\ answers' = answers \cup {a}
          /\ payments[r.payment] # None
          /\ payments[r.payment].intent = r.key
          /\ payments[r.payment].cart = r.cart
        BY <2>4, SnapshotFacts
    <3>2. UNCHANGED <<payments, intents>>
        BY <2>4 DEF Snapshot
    <3>3. Kept \/ Promise!Answer(a.key, a.payment, a.cart)
        BY <3>1, <3>2, AnswerStep
    <3>4. r.key \in Keys /\ r.cart \in Carts /\ r.payment \in PaymentIds
        BY <3>1 DEF Answers
    <3>. QED
        BY <3>3, <3>4 DEF Promise!Next
  <2>5. ASSUME NEW k \in Keys, DeleteExpiredKey(k) \/ \E p \in PaymentIds : ShowPayment(k, p)
        PROVE  Kept
    BY <2>5, UnseenStep DEF DeleteExpiredKey, ShowPayment
  <2>6. ASSUME NEW m \in Masters, CustomerPays(m)
        PROVE  Promise!Next
    BY <2>6, ChargeStep DEF Promise!Next
  <2>7. ASSUME NEW c \in Clients, CreateAtStripe(c)
        PROVE  Kept
    BY <2>7, CreateStep
  <2>. QED
    BY <2>1, <2>2, <2>3, <2>4, <2>5, <2>6, <2>7 DEF Next, Step
<1>3. Kept => UNCHANGED <<Orders, Charged>>
    BY DEF Kept
<1>. QED
    BY <1>1, <1>2, <1>3, Invariance, PTL DEF Spec, KeepsPromise, Promise!Spec, Charged

=============================================================================
