------------------------------ MODULE EventLog ------------------------------
(***************************************************************************)
(* One server process: the outbox relay, the hub it announces handled      *)
(* events on, and the graceful shutdown of main.  The wrapper around the   *)
(* outbox handler in main publishes outbox.processed as soon as the        *)
(* handler accepted an event, before the event is marked and long before   *)
(* the batch is committed.                                                 *)
(*                                                                         *)
(* The relay is module Relay with one worker and no housekeeping, the hub  *)
(* is module SSEHub; this module says when their steps happen.             *)
(***************************************************************************)
EXTENDS Naturals, Sequences, SSEHub

CONSTANTS
    Batch, MaxRetries, Backoff,  \* see Relay
    MaxFaults                    \* bound: SQL errors, crashes and signals in one behaviour

ASSUME ConfigAssumption ==
    /\ Events = 1 .. Cardinality(Events)
    /\ Batch \in 1 .. 1000
    /\ MaxRetries \in Nat \ {0}
    /\ Backoff \in [1 .. MaxRetries -> Nat]
    /\ MaxFaults \in Nat

VARIABLES
    rows, earlier, effects, workers, faults,  \* see Relay
    announced,  \* the event being handled has been published
    fetched,    \* history: how many events were published before the open batch was fetched
    phase       \* of main

Worker == "relay"

Relay == INSTANCE Relay
    WITH Workers <- {Worker},
         Payments <- {"payment"},
         PaymentOf <- [e \in Events |-> "payment"],
         None <- "none",
         sweep <- [locked |-> {}, wanted |-> "none", over |-> FALSE]

relayVars == <<rows, earlier, effects, workers, faults>>

vars == <<relayVars, hubVars, announced, fetched, phase>>

\* What New configures.
DefaultBackoff == [retryCount \in 1 .. MaxRetries |-> 2 ^ (retryCount - 1)]

TypeOK ==
    /\ Relay!TypeOK
    /\ HubTypeOK
    /\ announced \in BOOLEAN
    /\ fetched \in Nat
    /\ phase \in {"running", "stopping", "exited"}

Init ==
    /\ Relay!Init
    /\ HubInit
    /\ announced = FALSE
    /\ fetched = 0
    /\ phase = "running"

-----------------------------------------------------------------------------
(* The relay's goroutine.                                                  *)

Transaction == workers[Worker]

\* The database alone takes part in the step.
InDatabase(step) == step /\ UNCHANGED <<hubVars, announced, fetched, phase>>

\* A statement of the batch: the goroutine is not inside Publish.
Statement(step) ==
    /\ ~publisher.sending
    /\ step
    /\ announced' = FALSE
    /\ UNCHANGED <<hubVars, fetched, phase>>

Fetch ==
    /\ phase = "running"
    /\ Relay!Fetch(Worker)
    /\ fetched' = count
    /\ UNCHANGED <<hubVars, announced, phase>>

\* The handler returned nil.
Announce ==
    /\ phase # "exited"
    /\ Relay!Handling(Worker)
    /\ ~Transaction.aborted
    /\ ~announced
    /\ Publish(Transaction.batch[Len(Transaction.verdicts) + 1])
    /\ UNCHANGED <<relayVars, announced, fetched, phase>>

AnnounceTo(s) == Offer(s) /\ UNCHANGED <<relayVars, announced, fetched, phase>>

Announced ==
    /\ PublishEnd
    /\ announced' = TRUE
    /\ UNCHANGED <<relayVars, fetched, phase>>

\* Mutant: an event that was announced once is handled again in silence.
MarkDoneToldOnce ==
    /\ phase = "running"
    /\ Relay!Handling(Worker)
    /\ announced \/ Relay!Current(Worker) \in ToSet(published)
    /\ Statement(Relay!Handle(Worker, "done"))

\* Mutant: MarkOutboxDone runs outside the transaction.
MarkDoneAtOnce ==
    /\ phase = "running"
    /\ announced
    /\ Statement(/\ Relay!Handling(Worker)
                 /\ ~Transaction.aborted
                 /\ rows' = [rows EXCEPT ![Relay!Current(Worker)].status = "done"]
                 /\ workers' = [workers EXCEPT ![Worker].verdicts = Append(@, "done")]
                 /\ UNCHANGED <<earlier, effects, faults>>)

MarkDone == phase = "running" /\ announced /\ Statement(Relay!Handle(Worker, "done"))

Refuse == phase = "running" /\ ~announced /\ Statement(Relay!Handle(Worker, "refused"))

SqlError == Statement(Relay!HandleSqlError(Worker))

ConnectionLost == Statement(Relay!Crash(Worker))

\* bgCancel: the next statement fails with context.Canceled and RunOnce rolls back.
\* A commit that was under way may have been done.
Canceled ==
    /\ phase = "stopping"
    /\ Transaction.batch # <<>>
    /\ Statement(/\ workers' = [workers EXCEPT ![Worker] = Relay!NoTransaction]
                 /\ UNCHANGED <<rows, earlier, effects, faults>>)

Commit == Statement(Relay!Commit(Worker))

Rollback == Statement(Relay!Rollback(Worker))

RelayStep ==
    \/ Fetch \/ Announce \/ Announced \/ (\E s \in Subscribers : AnnounceTo(s))
    \/ MarkDone \/ Refuse \/ Canceled \/ Commit \/ Rollback

-----------------------------------------------------------------------------
(* main.                                                                   *)

Stop ==
    /\ phase = "running"
    /\ faults < MaxFaults
    /\ faults' = faults + 1
    /\ phase' = "stopping"
    /\ UNCHANGED <<rows, earlier, effects, workers, hubVars, announced, fetched>>

\* srv.Shutdown waits for the handlers, which its context does not end.
Drained == \A s \in Subscribers : streams[s].step \in {"absent", "closed"}

Ends ==
    /\ HubDies
    /\ phase' = "exited"
    /\ fetched' = 0
    /\ UNCHANGED <<rows, earlier, effects>>

\* Mutant: Shutdown with a context that has no deadline.
ExitDrained ==
    /\ phase = "stopping"
    /\ Drained
    /\ Transaction.batch = <<>>
    /\ Ends
    /\ UNCHANGED <<workers, faults, announced>>

\* Drained, or ten seconds later; pool.Close waits for the relay's connection.
Exit ==
    /\ phase = "stopping"
    /\ Transaction.batch = <<>>
    /\ Ends
    /\ UNCHANGED <<workers, faults, announced>>

Killed ==
    /\ phase # "exited"
    /\ faults < MaxFaults
    /\ faults' = faults + 1
    /\ workers' = [workers EXCEPT ![Worker] = Relay!NoTransaction]
    /\ announced' = FALSE
    /\ Ends

Start ==
    /\ phase = "exited"
    /\ phase' = "running"
    /\ UNCHANGED <<relayVars, hubVars, announced, fetched>>

\* A request that was accepted earlier may get here while the process stops.
Watch(s) ==
    /\ phase # "exited"
    /\ Subscribe(s)
    /\ UNCHANGED <<relayVars, announced, fetched, phase>>

Stream(s) ==
    /\ phase # "exited"
    /\ Handle(s)
    /\ UNCHANGED <<relayVars, announced, fetched, phase>>

Next ==
    \/ \E e \in Events : phase = "running" /\ InDatabase(Relay!Enqueue(e))
    \/ InDatabase(Relay!Tick)
    \/ RelayStep \/ SqlError \/ ConnectionLost
    \/ \E s \in Subscribers : Watch(s) \/ Stream(s)
    \/ Stop \/ Exit \/ Killed \/ Start

Spec == Init /\ [][Next]_vars

(***************************************************************************)
(* The goroutine of the relay runs, time passes, Shutdown and pool.Close   *)
(* return once they can, and a process that ended is started again.        *)
(* Nothing is assumed of the subscribers: they may never read.             *)
(***************************************************************************)
Fairness ==
    /\ WF_vars(InDatabase(Relay!Tick))
    /\ WF_vars(RelayStep)
    /\ WF_vars(Exit)
    /\ WF_vars(Start)

FairSpec == Spec /\ Fairness

-----------------------------------------------------------------------------
(* Properties.                                                             *)

\* Whoever watches is past event number n of this process (he was sent it or a later one, or
\* came after it), has it waiting in his channel, or had it dropped as that channel was full.
OfferedToAll(n) ==
    \A s \in Subscribers :
        streams[s].step = "streaming" =>
            n <= streams[s].last \/ n \in ToSet(streams[s].buffer) \cup streams[s].missed

(***************************************************************************)
(* An event becomes done only after the process that did it has announced  *)
(* it, in the course of the very batch that is committed and to everyone   *)
(* who was watching then (FR-C3 in docs/02: the event log follows the      *)
(* processing): what an earlier process or a batch that was rolled back    *)
(* had announced does not count.                                           *)
(***************************************************************************)
DoneIsAnnounced ==
    [][\A e \in Events :
          rows[e].status # "done" /\ rows'[e].status = "done" =>
              \E n \in fetched + 1 .. count : published[n] = e /\ OfferedToAll(n)]_vars

(***************************************************************************)
(* The server process keeps the promise of the outbox: however it is       *)
(* stopped, killed and started while it handles and announces events, each *)
(* is done once, together with its effects, or refused MaxRetries times    *)
(* and given up.                                                           *)
(***************************************************************************)
KeepsPromise == Relay!KeepsPromise

(***************************************************************************)
(* Watchers never hold up the relay: with any number of them slow, gone or *)
(* stuck, and with the process stopped and started in between, a pending   *)
(* event is done or given up in the end.                                   *)
(***************************************************************************)
PendingIsFinished == Relay!PendingIsFinished

(***************************************************************************)
(* A process that is told to stop ends, although event streams stay open   *)
(* for as long as their clients like.                                      *)
(***************************************************************************)
ShutdownEnds == phase = "stopping" ~> phase = "exited"

=============================================================================
