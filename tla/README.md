# kessai in TLA+

kessai is a payment service in Go: a shop page, Stripe as the payment provider, one
PostgreSQL database, an administration area. This directory specifies the parts of it
that are concurrent or must survive failures, checks small instances of them with TLC,
and proves the main safety properties for all instances with TLAPS.

Paths below are relative to the repository. `PROJECT.json` maps every definition to the
lines it models, and lists the runs, the theorems, the findings and the hazards.

1. [The system](#1-the-system)
2. [The modules](#2-the-modules)
3. [What TLC checks](#3-what-tlc-checks)
4. [Fairness](#4-fairness)
5. [What is proved](#5-what-is-proved)
6. [Where the code and its documents disagree](#6-where-the-code-and-its-documents-disagree)
7. [Assumptions and abstractions](#7-assumptions-and-abstractions)
8. [What is not modelled](#8-what-is-not-modelled)
9. [Plan](#9-plan)

## 1. The system

One process runs an HTTP server and two loops, the outbox relay (every 2 s) and
housekeeping (every minute). During a rolling deployment two processes overlap. All
durable state is in PostgreSQL; the circuit breaker, the login limiters and the SSE hub
live in the memory of a process.

    browser --form--> StartCheckout --create--> Stripe <--confirm-- browser
                          |                       |
                  payments, idempotency_keys      | webhook, at least once, any order
                          |                       v
    admin --capture/refund--> payments        Receiver --> webhook_events + outbox_events
             |      |         ledger                                  |
             v      |            ^                                    v
           Stripe   +------------+-------- handler <----------- Relay.Loop
                                 |                                    |
                           housekeeping                               v
                  (expiry, deletion of old keys)         SSEHub --stream--> browsers

| Component | State | Operations | What makes it correct, and what is hard |
|---|---|---|---|
| state machine (`internal/payment/statemachine`) | none, a table | `Next(state, event)` | every change of a payment follows the table |
| ledger (`internal/ledger`) | `ledger_entries` | `PostTransfer`, balances, `Invariant` | each capture and refund is booked once, debits equal credits; two writers race for one transfer, `ON CONFLICT DO NOTHING` decides |
| webhook receiver (`internal/webhook`) | `webhook_events`, `outbox_events` | `record` | an event is recorded once with its outbox row; Stripe repeats and reorders events |
| outbox relay (`internal/outbox`) | `outbox_events` | `RunOnce`, `handleOne`, `DefaultBackoff` | effects and `done` commit together, once; two workers, a batch per transaction, a SQL error aborts the whole batch, crashes before the commit |
| outbox handler (`internal/payment/outboxhandler`) | none | one case per kind of event | events in any order end in the same payment; the lookup sees the latest 1000 events only |
| use case, `StartCheckout` (`internal/payment/usecase.go`) | `payments`, `idempotency_keys`, PaymentIntents | look up, reserve, create, link, snapshot | one form, one payment, one charge; the form is submitted twice at once, after a crash between two statements, after its key row was deleted |
| use case, `ApplyEvent` | `payments`, `payment_transitions` | one transition under the row lock | state and history agree |
| administrators' operations (`internal/admin/handlers.go`) | `payments`, ledger, `audit_logs`, refunds at Stripe | `ExecuteCapture`, `ExecuteRefund` | database, ledger and Stripe agree; each is a read, a call to Stripe and a transaction that interleave with everything else |
| housekeeping (`internal/housekeeping`) | `payments`, `idempotency_keys` | expire by state, delete keys | an expiry never overwrites a newer state |
| circuit breaker (`internal/platform/breaker`) | state, window, probes | `Allow`, `State`, `Success`, `Failure` | a permit is reported in another state than the one that gave it |
| stripe client (`internal/payment/stripeclient`) | none | one method per call | a permit for every call, a stable idempotency key for every effect |
| login (`internal/admin/auth.go`, `ratelimit.go`) | `admin_users`, `admin_sessions`, two limiters | first administrator, login, session, logout | limits hold in every sliding window; sessions end; two processes start at once |
| SSE hub (`internal/httpx/sse.go`) | map of subscribers, a channel each | `Publish`, `Handler` | no send on a closed channel, no gap but a subscriber's own drops, nobody holds up the relay; subscribers leave while an event is published |
| reconciliation (`internal/reconciliation`) | none | `SumLedgerBalance`, `Reconcile` | its difference is what the books miss |
| server process (`cmd/server/main.go`) | the goroutines | start, signal, `Shutdown`, end | it ends although event streams stay open; a batch interrupted by `bgCancel` is repeated |
| http middleware, pages, configuration, logging, money, ids, tools, templates | none shared | | see section 8 |

## 2. The modules

| Module | What it is | Corresponds to |
|---|---|---|
| `StateMachine` | the table as a set of triples, `IsAllowed`, `Target` | `statemachine.go` |
| `Ledger` | transfers, `Insert` under `UNIQUE(transfer_id, side)`, `Balance`, `Balanced` | `ledger.go`, `db/queries/ledger.sql` |
| `Settlement` | **core**: webhook receiver, outbox handler, expiry, administrators and Stripe on the same payments | `webhook.go`, `handler.go`, `usecase.go` (`ApplyEvent`), `admin/handlers.go`, `jobs.go` |
| `Reconciliation` | the balance of an account and its comparison with a statement, as operators | `reconcile.go` |
| `Books` | abstract specification: how money moves at Stripe, is booked and is counted | sections 2.1 and 4.5 of `docs/03-basic-design.md`, the comment on `nextRefundSeq` |
| `MCSettlement` | a history variable, the reconciliation, and the properties that need them | |
| `SettlementProofs` | five theorems about `Settlement` | |
| `Sums` | what the proofs use of sums over finite sets | |
| `RefundProofs` | seven theorems about the ledger, refunds, the audit log and the reconciliation, among them that `Settlement` implements `Books` | |
| `CheckoutPromise` | abstract specification: one form, one payment, one charge | FR-A4 of `docs/02-requirements-specification.md` |
| `Checkout` | `StartCheckout` statement by statement, deletion of keys, payment page | `usecase.go`, `httpx/handlers.go`, `jobs.go` |
| `CheckoutProofs` | five theorems, among them that `Checkout` implements `CheckoutPromise` | |
| `BreakerTable` | abstract specification: the edges of the breaker's state diagram | section 2.2 of `docs/03-basic-design.md` |
| `Breaker` | the breaker and the permits that callers hold | `breaker.go` |
| `BreakerProofs` | five theorems about `Breaker` | |
| `Outbox` | abstract specification: what the outbox promises for one event | section 4.3 of `docs/03-basic-design.md` |
| `Relay` | batches, `SKIP LOCKED`, row locks and deadlocks, aborted transactions, backoff, crashes | `relay.go`, `db/queries/outbox.sql`, `jobs.go` |
| `MCRelay` | which event is about which payment | |
| `RelayProofs` | type correctness; `Relay` implements `Outbox` | |
| `SSEHub` | the hub, its subscribers and their channels | `httpx/sse.go` |
| `EventLog` | one process: `Relay` with one worker, announcing on `SSEHub`, and the graceful shutdown | `main.go` |
| `EventLogProofs` | five theorems about `EventLog` and `SSEHub`, among them that `EventLog` implements `Outbox` | |
| `RateLimiter` | `RateLimiter.Allow` for one key, as pure operators | `ratelimit.go` |
| `Login` | first administrator, limiters, login steps, sessions, the cookie the tabs share, logout | `auth.go`, `admin/handlers.go` |
| `MCLogin` | symmetry for TLC | |
| `LoginProofs` | five theorems about `Login` | |

How they fit together. `Settlement` EXTENDS `StateMachine` and `Ledger`, and handles an
outbox event in one step. That is what `Outbox` promises, and `Relay` is proved to keep
that promise although it works in batches and may roll back. `EventLog` takes `Relay` as
it is, with one worker, and adds where its goroutine announces an event on `SSEHub` and
when the process stops: a statement of the batch cannot happen while the goroutine is
inside `Publish`. `Checkout` ends where
`Settlement` begins: its property `PaidIsKnown` (a paid PaymentIntent belongs to exactly
one payment) is why a payment and its PaymentIntent are one thing in `Settlement`.
`Breaker` and `Login` share no state with the others: a call the breaker refuses is
`Abandon` in `Checkout` and in `Settlement`.

**Settlement.** `payments` holds the row and its `payment_transitions`; `webhooks` the
`webhook_events` in order of arrival; `outbox` one row per event; `stripe` what Stripe
knows of each PaymentIntent, including the refunds by their idempotency key; `requests`
one slot per administrator request under way. A database transaction is one action. An
administrator's request is three or four actions (`CaptureCheck`, `CaptureAtStripe`,
`CaptureTx`; `RefundCheck`, `RefundSeq`, `RefundAtStripe`, `RefundTx`) because the code
reads the row, calls Stripe, and only then opens its transaction. `Abandon` drops a
request between any two of them: a crash, a lost answer, a failed statement. The sum
that `ExecuteRefund` checks is `Wrapped`, that of a machine integer; the audit log is
`audit`, whose rows name a refund of Stripe's by the number in its key. `MCSettlement` adds the history variable `raced` (payments on which two refunds
were under way at once): some properties hold for the others only.

**Checkout.** `keys` and `payments` are rows, `intents` the PaymentIntents by the master
of their idempotency key, `requests` one slot per submission. `Reserve` is the one
transaction of `StartCheckout`; the other steps are single statements. `answers` and
`shown` are history: the redirects sent and the secrets shown.

**Breaker.** The fields are those of the struct. The code's permit does not know when it
was given; the model remembers it in `permits` (`current` or `stale`) so that properties
can speak of it, and no action reads it but to hand it on. `failed` is history too.

**Relay.** A worker's open transaction is its `batch`, the `verdicts` so far and whether
PostgreSQL has aborted it. `earlier` orders the pending rows by `next_attempt_at`, which is
what `FetchPendingOutbox` sorts by; `wait` is the minutes that remain until then. The
handler locks the row of the event's payment and waits if another transaction has it.
`sweep` is the `UPDATE` of housekeeping, which locks rows one by one in an order of its
own; `WaitsFor` is the graph PostgreSQL searches for circles, `Deadlock` its answer.

**SSEHub.** `streams` has the channel of each subscriber and how far its handler is,
`publisher` the subscribers that the loop of `Publish` has not come to. The read lock is
`publisher.sending`, the write lock is what `Subscribe` and `Unregister` need. `published`
is history, the sequence of what this hub has published; an event in a channel is its
number there. What the client got last and what was dropped for it is history too.

**EventLog.** `phase` is that of `main`: running, stopping after a signal, exited.
`announced` says that the event being handled was published but not marked yet; `fetched`
is history, the number of events that were published when the open batch was fetched. A
request that was accepted before the signal may still begin to watch while `main` stops.

**Login.** A login is four steps (address limiter, account limiter, password, session),
as in `Deps.Login`; a limiter keeps the times of all attempts, also of the refused ones.
The process that serves the logins keeps its limiters in memory and loses them when it
stops; users and sessions are in the database, the cookie is in the `jar` that the tabs
share. An answer that brings a cookie may get lost. `entry`, and `told` in a request, are
history: the login the browser was told of last, now and when the request was sent.

Operators whose comment begins with "Mutant:" are not used by any specification. They
are plausible bugs of the definition that follows them; replacing the definition by the
mutant makes TLC find a violation, which shows that the property says something about it.

## 3. What TLC checks

`tlc -config <cfg> <module>`. Times are of two workers.

### Runs that pass

| Run | Module, cfg | Shows | Size |
|---|---|---|---|
| settlement | `MCSettlement`, `Settlement.cfg` | payment, history, ledger, audit log and Stripe stay consistent with two administrators, lost requests, events in any order and refunds whose sum wraps; a refund that the database missed can be repeated and is found by the reconciliation; what Stripe collected is settled in the end; what is booked, counted and paid back follows `Books` | 116,978 states, 100 to 170 s |
| checkout | `Checkout`, `Checkout.cfg` | forms submitted twice at once, after crashes and after their key row was deleted: every answer names one payment, one PaymentIntent is charged and its payment is found, a key whose request died is freed | 111,435 states, 32 s |
| breaker | `Breaker`, `Breaker.cfg` | the breaker keeps to its table, opens for new failures only, counts its probes and ends its trials, however late permits are reported | 753 states, 1 s |
| relay | `MCRelay`, `Relay.cfg` | two workers, events of one payment in two batches, housekeeping that locks rows in its own order, deadlocks, rolled back batches and crashes: each event is done once or given up after its attempts, and none is left behind | 89,694 states, 130 s |
| event_log | `EventLog`, `EventLog.cfg` | two watchers of whom nothing is assumed, SQL errors, a crash or a shutdown at any step: no send on a closed channel, no gap but a watcher's own drops, no event done that its own batch did not announce, the promise of the outbox kept, and neither the relay nor the shutdown is held up | 242,743 states, 105 to 150 s |
| login | `MCLogin`, `Login.cfg` | the windows admit and refuse what they should, the first administrator keeps its password, two tabs with one cookie enter only under the login they were told of | 1,312,684 states, 60 to 90 s |

The properties, and what would break them:

- `HistoryIsPath`: relay, housekeeping and administrators all append to a history; an
  expiry without `WHERE state = from` breaks it.
- `RefundedMatchesState`: `refunded_jpy` and state are changed by two statements, from a
  request whose check is several steps old.
- `CapturedIsBooked`: relay and administrator race to book the same capture. Numbering
  captures like refunds would book it twice.
- `BookedIsReal`: the ledger never books what Stripe did not do, under the same number.
- `AtMostOneUnbookedRefund`: after any number of lost answers Stripe is one refund ahead
  of the ledger at most, because a retry derives the same key.
- `LedgerIsSound`: debits equal credits, and the ledger is never ahead of the payment row
  or of Stripe.
- `LoneRefundsAreBooked`: as long as no two refunds of a payment were under way at once,
  `refunded_jpy` is what the ledger says. Section 6 shows what happens otherwise.
- `LostRefundIsRepeatable`: a refund that Stripe made and the database did not record
  passes every check when it is asked for again, with the number it had.
- `RefundsAreAudited`: audit log and ledger name the same refunds, so that the log misses
  those of Stripe's refunds that the ledger misses and no others; its amounts add up to
  `refunded_jpy`; a refund is listed twice only where two were under way at once. A row
  written outside the transaction breaks it. It does not say that the log is complete:
  section 6.
- `DifferenceIsLostRefunds`: once every collected payment is booked, the difference that
  `Reconcile` reports is the sum of the refunds the ledger does not have, and nothing else.
- `KeepsBooks`: refinement of `Books`. Stripe pays back only what was collected, under a
  number that follows a booked refund and is used once; a capture or a refund enters the
  ledger in the step that counts it in the payment row, after Stripe moved the money; a
  capture that comes after an expiry is booked without reopening the payment; nothing that
  was collected, paid back or booked is taken back. A refund that goes on although Stripe
  refused it breaks it.
- `CollectedIsSettled`: no order of events leaves a collected payment unbooked or open.
- `PendingIsFinished`: no recorded event circulates for ever, nor is starved
  by others that are refused again and again, by deadlocks or by watchers that do not read.
- `KeepsPromise` (Checkout): refinement of `CheckoutPromise`; `ChargedOnce`,
  `PaidIsKnown`, `PageShowsOwnIntent` relate rows, PaymentIntents and what the page shows.
- `KeyIsReleased`: a key left in progress by a dead request does not stay so for ever.
- `FollowsTable`, `OpensForNewFailures`, `ClosedIsBelowThreshold`, `ProbesAreCounted`,
  `TrialEnds`: the breaker against late reports.
- `KeepsPromise` (Relay): refinement of `Outbox`; a missing row lock breaks it.
- `KeepsPromise` (EventLog): the same of the whole server process, which is stopped, killed
  and started while it handles a batch; an event marked outside the transaction breaks it.
- `NoSendOnClosed`: a subscriber that leaves while the loop of `Publish` is on its way to
  it. A `delete` without the lock breaks it; the panic would end the process.
- `GapsAreOwnDrops`: what is in a client's channel is, in order, what was published since
  the last event it got, without what was dropped because *its* channel was full.
- `DoneIsAnnounced`: the step that makes an event done comes after its announcement by the
  same process in the course of the same batch, and each client that watches at that moment
  was offered it or came later. After a rollback or a restart the event is announced again:
  handling it in silence because it was announced once breaks it.
- `ShutdownEnds`: `Shutdown` waits for handlers that its context does not end; without a
  deadline the process would never stop.
- `NoBurst`, `RefusedWhenBusy`: the limiter against the definition of a sliding window,
  counted over the attempts themselves rather than over what the limiter kept.
- `PasswordIsKept`: two processes that both found no administrator.
- `EntersAfterLogin`: a request was sent under a login the browser had not been told the
  end of. The row of the session may outlive the logout, since the error of
  `DestroySession` is ignored; that the cookie goes is what keeps other tabs out, of this
  browser: a cookie copied elsewhere before is not covered.

### Bounds

| Run | Bounds | Why they are enough |
|---|---|---|
| settlement | 1 payment, 2 administrators, price 2, refunds of 1, 2 or 7, `MaxInt` 7, 3 attempts, `ListLimit` 4 | actions touch one payment each, `Expire` many but each on its own; price 2 has partial, full, excessive and two equal refunds; 7 is the greatest integer, which added to an earlier refund wraps to a negative sum that passes the check; two administrators are what a race needs, a third is another request of one of them; 4 events of one payment fit the list |
| checkout | 2 submissions at a time, 2 forms, 2 products, 2 payment ids | two submissions of one form, of two forms, of one form with two products; after a deletion the second payment id is used by a resend |
| breaker | 3 callers, window 4, threshold 2, 2 probes | window longer than the threshold, so that outcomes are dropped; more callers than probes |
| relay | 3 events of 2 payments, 2 workers, batch 2, 2 attempts, 1 fault, 1 sweep | a full and a rest batch at once, two batches that want one payment, circles of two workers, of a worker and housekeeping, and of all three; a backoff that reorders the rows; `MaxFaults` bounds SQL errors and crashes, the deadlocks are not bounded |
| event_log | 2 watchers, channels of 1, 2 events, batch 2, 2 attempts, 1 fault | a channel that is full for one watcher and not for the other; both events in one batch or in two; a fault is a SQL error, a crash, a kill or a signal, at any step |
| login | 2 processes, 2 tabs, 1 account, 1 address, 2 passwords, 2 session ids, account limit 1, address limit 2, window 2, session 1, `MaxTime` 2, `MaxAttempts` 3 | a window can end inside the run, an account can be refused before and after its address is; a second login, a logout and a request of the other tab overlap |

`MaxFaults`, `MaxTime` and `MaxAttempts` are bounds written into guards, and the `UPDATE`
of housekeeping runs once in a behaviour of `Relay`. There is no state constraint.
Symmetry is used in `login` only (tabs, passwords, session ids), which has no liveness
property. Deadlock is checked except in `settlement`, `relay` and `event_log`: when each
event is done or given up, every payment is final and the bounded faults are used up,
nothing is left to do.

### Runs that show a violation

`settlement_late`, `settlement_refund_race`, `settlement_refund_state`,
`settlement_backlog`, `checkout_resend` and `breaker_stale` each check one property that
a document or a comment of the repository states, and TLC shows how the code breaks it:
section 6. `MayAbandon = FALSE` keeps three of the counterexamples free of crashes.

## 4. Fairness

- `Settlement!Fairness`: weak fairness of `Deliver(e)` and of the relay's step for each
  event. Stripe repeats a webhook until it is answered with 200, and `Relay.Loop` runs on
  a ticker for as long as the process lives. Nothing is assumed of the customer, of
  administrators (they may stop between any two steps) or of housekeeping.
- `Relay!Fairness`: weak fairness of the clock and of PostgreSQL's deadlock detection;
  strong fairness of each worker and of housekeeping, because a row lock is free and taken
  again while others work: PostgreSQL queues those who wait for a row. A worker that
  crashed is replaced by one that starts its loop again. Faults are bounded by
  `MaxFaults`: a database that fails for ever finishes nothing.
- `EventLog!Fairness`: weak fairness of the clock, of the relay's goroutine, of the end of
  `Shutdown` and of the next start of the process (the container is restarted). Nothing is
  assumed of the watchers: they may never read, nor ever leave.
- `Checkout!Fairness`: a request that was accepted goes on, and housekeeping runs.
  `KeyIsReleased` needs no more.
- `Breaker!Fairness`: each permit is reported. Every method of `stripeclient.go` that got
  one calls `Success` or `Failure` on each path that returns. A panic in between would
  leak the permit; no call in between is known to panic, and it is not modelled.
- `Login` has no liveness property.

## 5. What is proved

`tlapm` on `Sums` and on each module whose name ends in `Proofs`. All theorems are for
any value of the constants that satisfies the named assumptions of the module. Every
invariant and every action property that a passing run checks is proved.

| Theorem | Says |
|---|---|
| `SettlementProofs!TypeCorrect` | `Spec => []TypeOK` |
| `SettlementProofs!HistoryCorrect` | `Spec => []HistoryIsPath` |
| `SettlementProofs!RefundedCorrect` | `Spec => []RefundedMatchesState` |
| `SettlementProofs!BookedCorrect` | `Spec => []BookedIsReal` |
| `SettlementProofs!CapturedCorrect` | `Spec => []CapturedIsBooked` |
| `RefundProofs!RefundsNumbered` | `Spec => []AtMostOneUnbookedRefund` |
| `RefundProofs!LedgerCorrect` | `Spec => []LedgerIsSound` |
| `RefundProofs!LoneRefundsBooked` | `MCSpec => []LoneRefundsAreBooked` |
| `RefundProofs!LostRefundsRepeatable` | `MCSpec => []LostRefundIsRepeatable` |
| `RefundProofs!RefundsAudited` | `MCSpec => []RefundsAreAudited` |
| `RefundProofs!ReconciliationFindsLost` | `Spec => []DifferenceIsLostRefunds` |
| `RefundProofs!BooksKept` | `Spec => KeepsBooks`: `Settlement` implements `Books` |
| `Sums!SumRemove`, `Sums!SumPlus` | a sum over a finite set is one value and the sum of the rest; sums add |
| `CheckoutProofs!TypeCorrect` | `Spec => []TypeOK` |
| `CheckoutProofs!ChargedOnceCorrect` | `Spec => []ChargedOnce` |
| `CheckoutProofs!PaidKnownCorrect` | `Spec => []PaidIsKnown` |
| `CheckoutProofs!PageCorrect` | `Spec => []PageShowsOwnIntent` |
| `CheckoutProofs!PromiseCorrect` | `Spec => KeepsPromise`: `Checkout` implements `CheckoutPromise` |
| `BreakerProofs!TypeCorrect`, `ClosedCorrect`, `ProbesCorrect` | the breaker's three invariants |
| `BreakerProofs!OpensCorrect` | `Spec => OpensForNewFailures`, an action property |
| `BreakerProofs!TableCorrect` | `Spec => FollowsTable`: `Breaker` implements `BreakerTable` |
| `RelayProofs!TypeCorrect` | `Spec => []TypeOK`, the order of the pending rows included |
| `RelayProofs!PromiseCorrect` | `Spec => KeepsPromise`: `Relay` implements `Outbox` |
| `EventLogProofs!OpenChannelsOnly` | `Spec => []NoSendOnClosed` |
| `EventLogProofs!AnnouncedCorrect` | `Spec => DoneIsAnnounced`, an action property |
| `EventLogProofs!TypeCorrect` | `Spec => []TypeOK`, the types of the relay and of the hub |
| `EventLogProofs!GapsCorrect` | `Spec => []GapsAreOwnDrops` |
| `EventLogProofs!PromiseCorrect` | `Spec => KeepsPromise`: `EventLog` implements `Outbox` |
| `LoginProofs!EntersCorrect` | `Spec => EntersAfterLogin`, an action property |
| `LoginProofs!PasswordCorrect` | `Spec => PasswordIsKept`, an action property |
| `LoginProofs!LoginTypes` | `Spec => []TypeOK` |
| `LoginProofs!BurstsAreLimited` | `Spec => []NoBurst` |
| `LoginProofs!RefusalsAreEarned` | `Spec => []RefusedWhenBusy` |

**Settlement.** The invariants are proved in layers, each inductive relative to those
before it.

1. `TypeInv`: `TypeOK`, the payment of a request under way is a payment (`RequestsOK`), a
   pending event has attempts left (`RetriesLeft`, without which `retry_count` could
   leave its type), and the ledger is finite (`Cardinality` in the derived number).
2. The history: `RowStepLemma` reduces every step to "the row is unchanged, moves by a
   plain event, or gets a refund". `HistoryIsPath` then needs one lemma about appending.
3. `AmountsPositive`: a refund under way asks for more than 0. Without it a row could be
   `partially_refunded` with nothing refunded.
4. `Informed`: what the database side knows is true at Stripe. A recorded event was
   raised; a request that is past its call has its refund, or its collected payment.
5. `LedgerReal`: each row of the ledger belongs to the capture of a collected payment or
   to a refund at Stripe. It follows from 4 because steps of Stripe only add
   (`StripeGrows`).
6. `CapturedInLedger`: a captured payment has its capture booked. That it is booked
   *once* then follows from 5: any capture row of the payment is one of these two.

**Refunds and books** (`RefundProofs`, on top of the above). What is needed beyond types and
`LedgerInv` is one invariant, `BooksInv`:

- `OneRowPerKey` and `BothSides`: a row of the ledger is one of the two rows of a capture or
  of a refund, and the other one is there too. `Balanced` follows, since both have one
  amount. So does what an insertion does: all of its transfer if the number is new, and
  nothing otherwise (`RefundInsert`, `CaptureInsert`).
- `Numbered`: the numbers in the ledger are 1 to n, and neither Stripe nor a request under
  way is past n + 1. The part about requests is what makes it inductive: the number is read
  in one step, used at Stripe in the next, booked in a third, and others book in between.
- `StripeRefundsOK`, `PaidBackIsKnown`, `BookedIsCounted`: one refund per number; what
  Stripe paid back is booked or unbooked; what is booked is counted in `refunded_jpy`.

`LoneInv` adds, for payments that saw no race, that one refund at most is under way and that
it has the next number (`LoneNumbered`): the debit it inserts is new, so counting and booking
agree, and a refund that got lost is what a repeated request asks for. `BusyIsFinite` gives
"no more than one" its meaning as a cardinality: only finitely many requests are ever open.
`AuditInv` connects log and ledger: each row of the one has its refund in the other, and for
a payment without a race no two rows are about one refund. A refund that commits adds to both
what its key names (`AuditAdd`), or, in a race, a row only, about a refund the ledger has.
`ReceivableIsSum` says what the receivable account holds, as sums over all payments, from
which the difference of the reconciliation is arithmetic; this needs `FinitePayments`.

`BooksKept` maps each step: what Stripe and the customer do to `Collect` or nothing; the
relay's to `Move` or `BookCapture`; `CaptureTx` to `BookCapture`; `RefundAtStripe` to `Repay`,
where `Numbered` gives the guard on the number; `RefundTx` to `BookRefund`, which adds nothing
when another request has booked the same refund, because `BookedAtStripe` and
`StripeRefundsOK` make the two the same; all steps of requests that read, ask or give up to
nothing.

**Sums.** `SumFunction` is defined by recursion over a set. That it is determined by the
empty sum and by what one more element adds is proved by a smallest counterexample: a finite
set on which two such functions differ has a subset on which they differ and on none of whose
proper subsets they do (`LeastSubset`). `SumRemove`, `SumPlus` and what `RefundProofs` needs of
`Total` follow.

**Checkout.** One invariant `Inv` of ten parts. The heart is what a submission that
reserved its key knows (`HoldersInv`): its key row still names its payment, has no
snapshot, and the payment is not linked yet. This survives other submissions because at
most one submission holds a key (`OneHolder`) and a payment has at most one key row
(`KeysDistinct`), and it survives the UNIQUE constraint because of `LinksUnique`.
`IntentsInv` (a PaymentIntent is named by the key it was created for) gives
`ChargedOnce`; `LinksInv`, `AnswersInv` and `ShownInv` connect a paid PaymentIntent back
to the answer that led the customer to it, which gives `PaidIsKnown` and the guard of
`Charge` in the refinement. `PromiseCorrect` maps only `LookupReplay`, `Snapshot` and
`CustomerPays` to steps or stutters of the promise; every other action stutters.

**Breaker.** `ProbesInv` adds to `ProbesAreCounted` that the set of current permits is
finite and that `probesAllowed` is the configured number. `FailuresInv` bounds the
remembered failures by those reported since the breaker closed, which is what turns
`Trips` into `OpensForNewFailures`.

**Relay.** `BatchesInv`: a batch holds pending rows only, and no row is in two batches,
because a fetch skips what other workers hold. With it a commit makes of each pending row
of the batch exactly one step of the promise, and `RetriesLeft` (a row that may still be
handled has attempts left) bounds `retry_count` and gives `Backoff` an argument in its
domain. `ReorderedOrders` shows that `earlier` stays a strict linear order that agrees with
`wait`. Every action but `Enqueue` and `Commit` stutters in `Outbox`. Row locks and
deadlocks play no part in it: the proof covers any way of blocking and aborting.

**EventLog.** `HubInv`: the subscribers that the loop of `Publish` has still to come to are
registered, and who is registered has not closed its channel. The read lock is what makes
it inductive. `AnnouncedInv`: an event with the verdict `done` was published since its batch
was fetched (`Told`), and so was the current one if `announced` says so. Only a commit makes
an event done (`OnlyCommitDoes`), one whose verdict is `done` (`CommitTold`). `WatchersInv`: who streams is registered, and the channel of
a subscriber holds, in order, what was offered to it since its last event without what was
dropped for it; where the loop of `Publish` is in between two subscribers, the current event
was offered to the ones it has passed. `GapsAreOwnDrops` follows, and that whoever watches was offered what was published while he
did (`OfferedIs`), which is the other half of `DoneIsAnnounced`. The relay inside `EventLog`
is that of `Relay` with one worker, and `EventLogProofs` takes the theorems about it from
`RelayProofs` by INSTANCE: a step of `EventLog` is a step of `Relay` on its variables
(`RelaySteps`) or drops the open transaction, which a signal, a kill and a cancelled context
do (`DropSteps`). This gives `TypeCorrect` and `PromiseCorrect`.

**Login.** `CookiesInv`: the session in the jar is of the login the browser was told of
last, with that user and that end, and a request names the session of the login it was sent
under. Rows are made and deleted, and never given another user or end (`SessionsKept`), so
it survives whatever other tabs, lost answers and failed deletions do. `PasswordIsKept`
follows from `ON CONFLICT (email) DO NOTHING`. The limiters have an
invariant of their own, `LimitersInv`: the times a limiter keeps are those of its latest
attempts, every older attempt is outside the window of the latest, and an attempt was admitted
iff it and the attempts in the window before it were no more than the limit. The loop of
`Allow` that skips what is too old cuts off a beginning, because the times are in order
(`KeptIsSuffix`, by a smallest counterexample). `NoBurst` and `RefusedWhenBusy`, which count
attempts and do not mention what is kept, follow.

**Only model-checked.** Everything temporal beyond `[]` and refinement: `CollectedIsSettled`,
`PendingIsFinished`, `KeyIsReleased`, `TrialEnds`, `ShutdownEnds`.
Liveness under fairness is out of the prover's reach. The properties of section 6 fail, as
TLC shows, and have no theorems.

## 6. Where the code and its documents disagree

1. **A closed payment can still be paid** (`settlement_late`, `CollectedWhileOpen`).
   `docs/03-basic-design.md:48` and `:50` say that the PaymentIntent of an expired or
   failed payment is canceled. No call of the program cancels one, so the customer can
   still pay.
2. **Two equal refunds at once are one at Stripe and two in `refunded_jpy`**
   (`settlement_refund_race`, `RefundedIsBooked`). Both derive the same number; Stripe
   replays the first; the second transfer is dropped by `ON CONFLICT`, its addition is
   not. The comment at `internal/admin/handlers.go:452` considers different amounts only.
3. **Money is paid back for a payment that is not captured** (`settlement_refund_state`,
   `RefundedOnlyIfCaptured`). `docs/03-basic-design.md:126` says that the table is
   consulted before Stripe is called; `ExecuteRefund` checks the amount only.
4. **An old event is not found** (`settlement_backlog`, `CollectedIsSettled`). The handler
   looks in the latest 1000 events (`handler.go:47`); an older one is refused until it is
   given up, and the collected payment stays unbooked.
5. **A resent form may fail instead of landing on its payment** (`checkout_resend`,
   `ResendLands`). After its key row was deleted the form reserves a new payment, gets the
   old PaymentIntent from Stripe and fails on the UNIQUE constraint.
6. **A late report decides a trial** (`breaker_stale`, `OnlyProbesDecide`). A call
   admitted before the breaker opened closes or reopens it when it is half open.

Seen on the way and not given a run:

- `docs/03-basic-design.md:152` limits *failed* logins per window; `RateLimiter.Allow`
  counts every attempt, also successful and refused ones.
- `docs/03-basic-design.md:60` maps `charge.refunded` to transitions; the handler accepts
  the event without effect. A refund made at Stripe's own pages is never booked.
- `docs/03-basic-design.md:117` wants an event that a final state refuses to fail at once;
  `handleOne` repeats it `MaxRetries` times like any other.
- The comment at `internal/outbox/relay.go:92` says that a failed event is already
  rescheduled when the loop goes on. After a SQL error it is not: the transaction is
  aborted, and `retry_count` stays what it was. A statement that fails every time would
  be repeated without end, and the rest of its batch with it.
- `outbox.processed` is published before the batch is committed. What was announced may be
  rolled back, and is then announced once more.
- When the webhook wins the race against an administrator's capture, `ExecuteCapture` rolls
  back with the audit row of an action that Stripe carried out (`CaptureTxRollback`);
  FR-D5 (`docs/02-requirements-specification.md:89`) wants such actions recorded.
- `docs/03-basic-design.md:126` writes the audit row of a refund before Stripe is called.
  `ExecuteRefund` writes it in the transaction after the call: a refund that Stripe made and
  whose transaction rolled back, or whose request was lost, is neither in the audit log nor
  in the ledger until it is repeated. FR-D5 wants each refund restorable from both.
- Two equal refunds at once (see 2 above) leave two audit rows about one refund of Stripe's,
  and one transfer in the ledger: the log alone does not tell how much was paid back.
- The comment on `DifferenceJPY` in `reconcile.go` explains a positive difference by sales
  that the statement does not have yet. A refund that the database missed makes it
  positive as well (`DifferenceIsLostRefunds`).
- Any error of Stripe counts as a failure for the breaker, also a 4xx answer or a request
  whose client went away.
- A CSRF cookie is replaced only when it is absent: after a change of the signing key the
  forms of a browser that kept its cookie are refused until the cookie expires. The
  dashboard page carries no token, hence no logout form.
- `WriteTimeout` (30 s) ends every event stream, and each process announces on its own hub:
  a browser sees the events of the process it is connected to. No page opens a stream yet.
- After a second login the session of the first stays open until it expires.

## 7. Assumptions and abstractions

- A database transaction is one step. The code holds the row lock of the payment from its
  first statement on that row to the commit. `Relay` has the row locks and the deadlocks
  between its batches and housekeeping; that an administrator's transaction is the one
  that is aborted is `Abandon` in `Settlement`.
- Stripe keeps an idempotency key for ever. It guarantees 24 hours at least; key rows are
  kept for one hour. A form resent after Stripe forgot its key is not covered.
- Stripe raises each kind of event at most once per PaymentIntent, and delivers an event
  any number of times. A second `payment_failed` with an id of its own would be refused
  by the table like the first one that came late.
- `amount_capturable_updated`, `succeeded`, `payment_failed`, `canceled` are the kinds the
  handler acts on; it accepts others, `charge.refunded` among them, without effect, and
  they are left out.
- A key row outlives the request that reserved it (one hour against the 30 s write
  timeout), see the guard of `DeleteExpiredKey`.
- The SHA-256 of a request is the cart it covers, the derived key is its master, payloads
  are well formed.
- The clock is abstracted to what is compared with it: `elapsed` in `Breaker`, `wait` in
  `Relay`, any moment in `Expire` and `DeleteExpiredKey`. `Login` has a clock, one for
  processes and database. An attempt is counted at `Allow`; its password is compared later.
- Amounts are natural numbers. The one sum of an unchecked number, that of a refund, wraps
  like the `int64` of the code, with a smaller `MaxInt`.
- `None`, SQL `NULL`, is not a row; in `Login` it is no cookie and no login either
  (`NullAssumption`).
- The statement that `Reconcile` is given is complete: `StripeNet` is all that Stripe
  collected less all that it paid back.
- Two calls of `Publish` never overlap: the relay's goroutine is the only caller.

## 8. What is not modelled

- **CSRF**: the middleware keeps no state; the token is in the browser's cookie jar and in
  the pages of its tabs. Tokens in the tabs would multiply the states of `Login` by some
  hundred, for properties of a single browser.
- **Recovery, security headers, access log, client address**: per request, no shared state.
- **Read-only admin pages, rendering, templates, static files**: no state changes.
- **Password hashing, signature verification, JSON**: libraries.
- **money, idgen, configuration, logging, problem responses**: value types, read once, or
  formatting. `money.New`, which refuses a negative amount, is the only operation of
  `money` that the program calls.
- **A Stripe that forgets idempotency keys**: it keeps them for a day. After that a form
  from the history is a new purchase, which the customer confirms again, and a refund that
  the database missed and that is repeated is paid twice: `LostRefundIsRepeatable` holds
  for that day.
- **Migrations, product lookup, wiring of `main`**: run once, or read-only.
- **`cmd/crapcheck`, `cmd/doclint`, test support, e2e tests, deployment**: not part of the
  running service.
- **Audit rows of logins**: written and never read.

## 9. Plan

Modelled first, because money depends on it: `Settlement` with its proofs, then
`Checkout`, `Breaker`, `Relay`, `Login`; then `SSEHub` and `EventLog`, the row locks of
`Relay`, the refunds whose sum wraps, the audit log and the reconciliation; proofs about
`Relay`, `EventLog` and `Login`; then the books, with numbers, sums, audit log and
reconciliation proved and `Books` stated and implemented; the limiters of `Login` and the
relay inside `EventLog` proved. Every safety property, action property and refinement that a
passing run checks is a theorem. What would come next:

1. The promise of `RateLimiter` as an abstract specification of its own, for several keys at
   once and with the process stopped between two attempts.
2. `Checkout` and `Settlement` composed, so that `Collect` of `Books` is `Charge` of
   `CheckoutPromise`; today `PaidIsKnown` is the link, argued in section 2.

Runs are kept few: new questions join an existing run where its instance answers them.
