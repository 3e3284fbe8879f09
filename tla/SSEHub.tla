------------------------------- MODULE SSEHub -------------------------------
(***************************************************************************)
(* The hub of internal/httpx/sse.go, which passes the events of one        *)
(* process on to the browsers that watch them.  Publish holds the read     *)
(* lock while it offers an event to one subscriber after the other and     *)
(* never waits for any of them; subscribers come and go under the write    *)
(* lock, and their channels are closed after it was given back.            *)
(*                                                                         *)
(* One goroutine publishes, that of the outbox relay.                      *)
(***************************************************************************)
EXTENDS Naturals, Sequences, SequencesExt

CONSTANTS
    Subscribers,    \* connections to the event stream
    BufSize,        \* SSEHub.bufSize
    Events          \* what may be published

ASSUME HubAssumption == BufSize \in Nat \ {0}

VARIABLES
    subs,       \* the domain of SSEHub.subs
    streams,    \* per connection: its handler, its channel and what it missed
    publisher,  \* the Publish call under way
    published   \* history: the events that this hub has published, oldest first

hubVars == <<subs, streams, publisher, published>>

\* How many those are, which is the number of the latest.
count == Len(published)

-----------------------------------------------------------------------------

\* An event in a channel is its number; last and missed are history.
Streams == [step : {"absent", "streaming", "leaving", "unregistered", "closed"},
            buffer : Seq(Nat),      \* the channel
            last : Nat,             \* the event the client got last
            missed : SUBSET Nat]    \* the events after it that were dropped

NoStream == [step |-> "absent", buffer |-> <<>>, last |-> 0, missed |-> {}]

\* left are the subscribers the loop has not come to.
Publishers == [sending : BOOLEAN, left : SUBSET Subscribers]

NoPublisher == [sending |-> FALSE, left |-> {}]

HubTypeOK ==
    /\ subs \subseteq Subscribers
    /\ streams \in [Subscribers -> Streams]
    /\ \A s \in Subscribers : Len(streams[s].buffer) <= BufSize
    /\ publisher \in Publishers
    /\ ~publisher.sending => publisher.left = {}
    /\ published \in Seq(Events)

HubInit ==
    /\ subs = {}
    /\ streams = [s \in Subscribers |-> NoStream]
    /\ publisher = NoPublisher
    /\ published = <<>>

-----------------------------------------------------------------------------
(* Publish.                                                                *)

Publish(event) ==
    /\ ~publisher.sending
    /\ published' = Append(published, event)
    /\ publisher' = [sending |-> TRUE, left |-> subs]
    /\ UNCHANGED <<subs, streams>>

\* Mutant: a plain send, which waits for room in the channel.
OfferBlocking(s) ==
    /\ s \in publisher.left
    /\ Len(streams[s].buffer) < BufSize
    /\ streams' = [streams EXCEPT ![s].buffer = Append(@, count)]
    /\ publisher' = [publisher EXCEPT !.left = @ \ {s}]
    /\ UNCHANGED <<subs, published>>

\* Mutant: the first full channel ends the loop.
OfferOrStop(s) ==
    /\ s \in publisher.left
    /\ IF Len(streams[s].buffer) < BufSize
       THEN /\ streams' = [streams EXCEPT ![s].buffer = Append(@, count)]
            /\ publisher' = [publisher EXCEPT !.left = @ \ {s}]
       ELSE /\ streams' = [streams EXCEPT ![s].missed = @ \cup {count}]
            /\ publisher' = [publisher EXCEPT !.left = {}]
    /\ UNCHANGED <<subs, published>>

\* One round of the loop, in the order of a Go map: any.
Offer(s) ==
    /\ s \in publisher.left
    /\ IF Len(streams[s].buffer) < BufSize
       THEN streams' = [streams EXCEPT ![s].buffer = Append(@, count)]
       ELSE streams' = [streams EXCEPT ![s].missed = @ \cup {count}]
    /\ publisher' = [publisher EXCEPT !.left = @ \ {s}]
    /\ UNCHANGED <<subs, published>>

\* The read lock is given back.
PublishEnd ==
    /\ publisher.sending
    /\ publisher.left = {}
    /\ publisher' = NoPublisher
    /\ UNCHANGED <<subs, streams, published>>

-----------------------------------------------------------------------------
(* Handler.                                                                *)

\* A new channel, entered under the write lock, and the ready message.
Subscribe(s) ==
    /\ streams[s].step = "absent"
    /\ ~publisher.sending
    /\ subs' = subs \cup {s}
    /\ streams' = [streams EXCEPT ![s] =
           [NoStream EXCEPT !.step = "streaming", !.last = count]]
    /\ UNCHANGED <<publisher, published>>

Receive(s) ==
    LET event == Head(streams[s].buffer)
    IN  /\ streams[s].step = "streaming"
        /\ streams[s].buffer # <<>>
        /\ streams' = [streams EXCEPT ![s].buffer = Tail(@),
                                      ![s].last = event,
                                      ![s].missed = { i \in @ : i > event }]
        /\ UNCHANGED <<subs, publisher, published>>

\* The client is gone, or WriteTimeout has passed: the event taken is lost.
ReceiveFails(s) ==
    /\ streams[s].step = "streaming"
    /\ streams[s].buffer # <<>>
    /\ streams' = [streams EXCEPT ![s] =
           [NoStream EXCEPT !.step = "leaving", !.buffer = Tail(streams[s].buffer)]]
    /\ UNCHANGED <<subs, publisher, published>>

\* The request's context is done, or the ready message cannot be written.
Disconnect(s) ==
    /\ streams[s].step = "streaming"
    /\ streams' = [streams EXCEPT ![s] =
           [NoStream EXCEPT !.step = "leaving", !.buffer = streams[s].buffer]]
    /\ UNCHANGED <<subs, publisher, published>>

\* Mutant: the entry is deleted without the lock.
UnregisterUnlocked(s) ==
    /\ streams[s].step = "leaving"
    /\ streams' = [streams EXCEPT ![s].step = "unregistered"]
    /\ subs' = subs \ {s}
    /\ UNCHANGED <<publisher, published>>

Unregister(s) ==
    /\ streams[s].step = "leaving"
    /\ ~publisher.sending
    /\ streams' = [streams EXCEPT ![s].step = "unregistered"]
    /\ subs' = subs \ {s}
    /\ UNCHANGED <<publisher, published>>

Close(s) ==
    /\ streams[s].step = "unregistered"
    /\ streams' = [streams EXCEPT ![s] = [NoStream EXCEPT !.step = "closed"]]
    /\ UNCHANGED <<subs, publisher, published>>

Handle(s) ==
    \/ Receive(s) \/ ReceiveFails(s)
    \/ Disconnect(s) \/ Unregister(s) \/ Close(s)

\* The process ends, and its connections with it.
HubDies ==
    /\ subs' = {}
    /\ streams' = [s \in Subscribers |-> NoStream]
    /\ publisher' = NoPublisher
    /\ published' = <<>>

-----------------------------------------------------------------------------
(* Properties.                                                             *)

\* The events since the last one s got except those dropped for it.
Expected(s) ==
    { i \in 1 .. count : /\ i > streams[s].last
                         /\ i \notin streams[s].missed
                         /\ i = count => s \notin publisher.left }

(***************************************************************************)
(* No event is sent on a closed channel, which would be a panic in the     *)
(* relay's goroutine and end the process: a channel that the loop of       *)
(* Publish has still to come to is open, whenever its connection ends.     *)
(***************************************************************************)
NoSendOnClosed == \A s \in publisher.left : streams[s].step # "closed"

(***************************************************************************)
(* An event is dropped only for the subscriber whose channel is full:      *)
(* every client gets the events published since it subscribed in order,   *)
(* once each and with no gap but its own drops, whatever the others do.    *)
(***************************************************************************)
GapsAreOwnDrops ==
    \A s \in Subscribers :
        streams[s].step = "streaming" =>
            LET buffer == streams[s].buffer
            IN  /\ ToSet(buffer) = Expected(s)
                /\ \A i, j \in 1 .. Len(buffer) : i < j => buffer[i] < buffer[j]

=============================================================================
