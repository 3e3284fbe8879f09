--------------------------- MODULE EventLogProofs ---------------------------
(***************************************************************************)
(* Theorems about EventLog, for any number of events and watchers, any     *)
(* buffer and any batch: nothing is sent on a closed channel, no event is  *)
(* done unannounced, and the relay of the process keeps its promise.       *)
(***************************************************************************)
EXTENDS EventLog, SequenceTheorems, TLAPS

(***************************************************************************)
(* Publish holds the read lock while it is sending, so nobody leaves subs  *)
(* before the loop has come to him, and only a connection that has left    *)
(* closes its channel.                                                     *)
(***************************************************************************)
HubInv ==
    /\ HubTypeOK
    /\ publisher.left \subseteq subs
    /\ \A s \in subs : streams[s].step \in {"streaming", "leaving"}

LEMMA CountType ==
    ASSUME HubTypeOK
    PROVE  count \in Nat
BY DEF HubTypeOK, count

LEMMA CountKept ==
    ASSUME UNCHANGED published
    PROVE  count' = count
BY DEF count

\* One more event, which has the next number.
LEMMA PublishCounts ==
    ASSUME HubTypeOK, NEW e \in Events, Publish(e)
    PROVE  /\ count' = count + 1
           /\ published' \in Seq(Events)
           /\ published'[count + 1] = e
           /\ \A n \in 1 .. count : published'[n] = published[n]
BY DEF HubTypeOK, Publish, count

\* A step of another goroutine.
LEMMA HubStutters ==
    ASSUME HubInv, UNCHANGED hubVars
    PROVE  HubInv'
BY DEF HubInv, HubTypeOK, hubVars

LEMMA NoStreamType ==
    /\ NoStream \in Streams
    /\ Len(NoStream.buffer) <= BufSize
    /\ BufSize \in Nat
<1>1. <<>> \in Seq(Nat) /\ Len(<<>>) = 0
    OBVIOUS
<1>. QED
    BY <1>1, HubAssumption DEF NoStream, Streams

LEMMA HubInitInv == HubInit => HubInv
<1>. SUFFICES ASSUME HubInit PROVE HubInv
    OBVIOUS
<1>1. \A s \in Subscribers : streams[s] \in Streams /\ Len(streams[s].buffer) <= BufSize
    BY NoStreamType DEF HubInit
<1>2. streams \in [Subscribers -> Streams]
    BY NoStreamType DEF HubInit
<1>3. publisher \in Publishers /\ publisher.left = {}
    BY DEF HubInit, NoPublisher, Publishers
<1>. QED
    BY <1>1, <1>2, <1>3 DEF HubInit, HubInv, HubTypeOK

LEMMA PublishInv ==
    ASSUME HubInv, NEW e \in Events, Publish(e)
    PROVE  HubInv'
BY PublishCounts DEF HubInv, HubTypeOK, Publish, Publishers

LEMMA PublishEndInv ==
    ASSUME HubInv, PublishEnd
    PROVE  HubInv'
BY DEF HubInv, HubTypeOK, PublishEnd, NoPublisher, Publishers

\* One connection changes, and its channel stays within its size.
LEMMA StreamInv ==
    ASSUME HubInv, NEW s \in Subscribers, NEW new \in Streams,
           Len(new.buffer) <= BufSize,
           streams' = [streams EXCEPT ![s] = new],
           subs' \subseteq Subscribers,
           publisher' \in Publishers,
           ~publisher'.sending => publisher'.left = {},
           publisher'.left \subseteq subs',
           subs' \subseteq subs \cup {s},
           s \in subs' => new.step \in {"streaming", "leaving"},
           UNCHANGED published
    PROVE  HubInv'
<1>1. \A r \in Subscribers : streams'[r] = IF r = s THEN new ELSE streams[r]
    BY DEF HubInv, HubTypeOK
<1>. QED
    BY <1>1 DEF HubInv, HubTypeOK

LEMMA OfferInv ==
    ASSUME HubInv, NEW s \in Subscribers, Offer(s)
    PROVE  HubInv'
<1>. DEFINE old == streams[s]
            new == IF Len(old.buffer) < BufSize
                   THEN [old EXCEPT !.buffer = Append(old.buffer, count)]
                   ELSE [old EXCEPT !.missed = old.missed \cup {count}]
<1>1. /\ old \in Streams
      /\ Len(old.buffer) <= BufSize
      /\ count \in Nat
      /\ BufSize \in Nat
    BY HubAssumption, CountType DEF HubInv, HubTypeOK
<1>2. new \in Streams /\ Len(new.buffer) <= BufSize /\ new.step = old.step
    <2>1. CASE Len(old.buffer) < BufSize
        <3>1. /\ Append(old.buffer, count) \in Seq(Nat)
              /\ Len(Append(old.buffer, count)) <= BufSize
            BY <1>1, <2>1 DEF Streams
        <3>2. new = [old EXCEPT !.buffer = Append(old.buffer, count)]
            BY <2>1
        <3>. QED
            BY <1>1, <3>1, <3>2 DEF Streams
    <2>2. CASE ~(Len(old.buffer) < BufSize)
        <3>1. old.missed \cup {count} \in SUBSET Nat
            BY <1>1 DEF Streams
        <3>2. new = [old EXCEPT !.missed = old.missed \cup {count}]
            BY <2>2
        <3>. QED
            BY <1>1, <3>1, <3>2 DEF Streams
    <2>. QED
        BY <2>1, <2>2
<1>3. streams' = [streams EXCEPT ![s] = new]
    BY DEF Offer
<1>4. /\ s \in publisher.left
      /\ publisher' = [publisher EXCEPT !.left = @ \ {s}]
      /\ UNCHANGED <<subs, published>>
    BY DEF Offer
<1>5. /\ publisher' \in Publishers
      /\ publisher'.left \subseteq publisher.left
      /\ publisher'.sending = publisher.sending
    BY <1>4 DEF HubInv, HubTypeOK, Publishers
<1>. HIDE DEF new
<1>. QED
    BY <1>2, <1>3, <1>4, <1>5, StreamInv DEF HubInv, HubTypeOK

LEMMA SubscribeInv ==
    ASSUME HubInv, NEW s \in Subscribers, Subscribe(s)
    PROVE  HubInv'
<1>. DEFINE new == [NoStream EXCEPT !.step = "streaming", !.last = count]
<1>1. new \in Streams /\ Len(new.buffer) <= BufSize /\ new.step = "streaming"
    <2>1. count \in Nat
        BY CountType DEF HubInv
    <2>. QED
        BY <2>1, NoStreamType DEF Streams
<1>2. streams' = [streams EXCEPT ![s] = new]
    BY DEF Subscribe
<1>. HIDE DEF new
<1>. QED
    BY <1>1, <1>2, StreamInv DEF Subscribe, HubInv, HubTypeOK

\* Receive, ReceiveFails and Disconnect: the connection is still registered.
LEMMA ServedInv ==
    ASSUME HubInv, NEW s \in Subscribers, Receive(s) \/ ReceiveFails(s) \/ Disconnect(s)
    PROVE  HubInv'
<1>1. /\ streams[s] \in Streams
      /\ Len(streams[s].buffer) <= BufSize
      /\ BufSize \in Nat
    BY HubAssumption DEF HubInv, HubTypeOK
<1>2. PICK new \in Streams : /\ Len(new.buffer) <= BufSize
                             /\ new.step \in {"streaming", "leaving"}
                             /\ streams' = [streams EXCEPT ![s] = new]
    <2>1. CASE Receive(s)
        <3>. DEFINE event == Head(streams[s].buffer)
                    new == [streams[s] EXCEPT !.buffer = Tail(streams[s].buffer),
                                              !.last = event,
                                              !.missed = { i \in streams[s].missed : i > event }]
        <3>1. streams[s].buffer # <<>> /\ streams[s].step = "streaming"
            BY <2>1 DEF Receive
        <3>2. /\ event \in Nat
              /\ Tail(streams[s].buffer) \in Seq(Nat)
              /\ Len(Tail(streams[s].buffer)) <= BufSize
            BY <1>1, <3>1 DEF Streams
        <3>3. streams' = [streams EXCEPT ![s] = new]
            BY <2>1 DEF Receive
        <3>. HIDE DEF event
        <3>4. new \in Streams /\ Len(new.buffer) <= BufSize /\ new.step = "streaming"
            BY <1>1, <3>1, <3>2 DEF Streams
        <3>. QED
            BY <3>3, <3>4
    <2>2. CASE ReceiveFails(s)
        <3>. DEFINE new == [NoStream EXCEPT !.step = "leaving", !.buffer = Tail(streams[s].buffer)]
        <3>1. streams' = [streams EXCEPT ![s] = new] /\ streams[s].buffer # <<>>
            BY <2>2 DEF ReceiveFails
        <3>2. /\ Tail(streams[s].buffer) \in Seq(Nat)
              /\ Len(Tail(streams[s].buffer)) <= BufSize
            BY <1>1, <3>1 DEF Streams
        <3>3. new \in Streams /\ Len(new.buffer) <= BufSize /\ new.step = "leaving"
            BY <3>2 DEF NoStream, Streams
        <3>. QED
            BY <3>1, <3>3
    <2>3. CASE Disconnect(s)
        <3>. DEFINE new == [NoStream EXCEPT !.step = "leaving", !.buffer = streams[s].buffer]
        <3>1. streams' = [streams EXCEPT ![s] = new]
            BY <2>3 DEF Disconnect
        <3>2. new \in Streams /\ Len(new.buffer) <= BufSize /\ new.step = "leaving"
            BY <1>1 DEF NoStream, Streams
        <3>. QED
            BY <3>1, <3>2
    <2>. QED
        BY <2>1, <2>2, <2>3
<1>3. UNCHANGED <<subs, publisher, published>>
    BY DEF Receive, ReceiveFails, Disconnect
<1>. QED
    BY <1>2, <1>3, StreamInv DEF HubInv, HubTypeOK

LEMMA UnregisterInv ==
    ASSUME HubInv, NEW s \in Subscribers, Unregister(s)
    PROVE  HubInv'
<1>. DEFINE new == [streams[s] EXCEPT !.step = "unregistered"]
<1>1. new \in Streams /\ Len(new.buffer) <= BufSize
    BY DEF HubInv, HubTypeOK, Streams
<1>2. /\ streams' = [streams EXCEPT ![s] = new]
      /\ subs' = subs \ {s}
      /\ publisher.left = {}
      /\ UNCHANGED <<publisher, published>>
    BY DEF Unregister, HubInv, HubTypeOK
<1>. HIDE DEF new
<1>. QED
    BY <1>1, <1>2, StreamInv DEF HubInv, HubTypeOK

LEMMA CloseInv ==
    ASSUME HubInv, NEW s \in Subscribers, Close(s)
    PROVE  HubInv'
<1>. DEFINE new == [NoStream EXCEPT !.step = "closed"]
<1>1. new \in Streams /\ Len(new.buffer) <= BufSize
    BY NoStreamType DEF Streams
<1>2. /\ streams' = [streams EXCEPT ![s] = new]
      /\ s \notin subs
      /\ UNCHANGED <<subs, publisher, published>>
    BY DEF Close, HubInv
<1>. HIDE DEF new
<1>. QED
    BY <1>1, <1>2, StreamInv DEF HubInv, HubTypeOK

LEMMA HubDiesInv ==
    ASSUME HubInv, HubDies
    PROVE  HubInv'
BY HubAssumption DEF HubInv, HubTypeOK, HubDies, NoPublisher, Publishers, NoStream, Streams

LEMMA HandlesInv ==
    ASSUME HubInv, NEW s \in Subscribers, Handle(s)
    PROVE  HubInv'
BY ServedInv, UnregisterInv, CloseInv DEF Handle

-----------------------------------------------------------------------------
(* What is on its way to a watcher.                                        *)

\* How many of the events this hub has published were offered to s, or were
\* published before it came.
Offered(s) == IF s \in publisher.left THEN count - 1 ELSE count

\* Of the first n events, those after the last one received that were not dropped.
Waits(stream, n) == { i \in 1 .. n : i > stream.last /\ i \notin stream.missed }

Increasing(buffer) == \A i, j \in 1 .. Len(buffer) : i < j => buffer[i] < buffer[j]

WatcherOK(stream, n) ==
    /\ n \in Nat
    /\ stream.last <= n
    /\ \A i \in stream.missed : i <= n
    /\ ToSet(stream.buffer) = Waits(stream, n)
    /\ Increasing(stream.buffer)

(***************************************************************************)
(* Whoever is streaming is registered, so that no Publish passes him over; *)
(* and his channel holds what he was offered, less what he has received    *)
(* and what was dropped for him.                                           *)
(***************************************************************************)
WatchersInv ==
    /\ publisher.left # {} => count > 0
    /\ \A s \in Subscribers :
          streams[s].step = "streaming" => s \in subs /\ WatcherOK(streams[s], Offered(s))

LEMMA InChannel ==
    ASSUME NEW buffer \in Seq(Nat)
    PROVE  \A n : n \in ToSet(buffer) <=> \E i \in 1 .. Len(buffer) : buffer[i] = n
BY DEF ToSet

LEMMA NewWatcherOK ==
    ASSUME NEW n \in Nat, NEW stream \in Streams,
           stream.buffer = <<>>, stream.last = n, stream.missed = {}
    PROVE  WatcherOK(stream, n)
<1>1. ToSet(stream.buffer) = {} /\ Len(stream.buffer) = 0
    BY DEF ToSet
<1>2. Waits(stream, n) = {}
    BY DEF Waits
<1>. QED
    BY <1>1, <1>2 DEF WatcherOK, Increasing

\* There is room in the channel.
LEMMA OfferedOK ==
    ASSUME NEW n \in Nat, NEW old \in Streams, WatcherOK(old, n), NEW stream \in Streams,
           stream.buffer = Append(old.buffer, n + 1),
           stream.last = old.last, stream.missed = old.missed
    PROVE  WatcherOK(stream, n + 1)
<1>. DEFINE size == Len(old.buffer)
<1>1. /\ old.buffer \in Seq(Nat) /\ size \in Nat
      /\ stream.buffer \in Seq(Nat)
      /\ Len(stream.buffer) = size + 1
      /\ stream.buffer[size + 1] = n + 1
      /\ \A i \in 1 .. size : stream.buffer[i] = old.buffer[i]
    BY DEF Streams
<1>2. ToSet(stream.buffer) = ToSet(old.buffer) \cup {n + 1}
  <2>. HIDE DEF size
  <2>1. \A x : x \in ToSet(stream.buffer) <=> \E i \in 1 .. size + 1 : stream.buffer[i] = x
    <3>1. \A x : x \in ToSet(stream.buffer) <=> \E i \in 1 .. Len(stream.buffer) : stream.buffer[i] = x
        BY <1>1, InChannel
    <3>. QED
        BY <1>1, <3>1
  <2>2. \A x : x \in ToSet(old.buffer) <=> \E i \in 1 .. size : old.buffer[i] = x
    BY <1>1, InChannel DEF size
  <2>3. ASSUME NEW x \in ToSet(stream.buffer)
        PROVE  x \in ToSet(old.buffer) \cup {n + 1}
    <3>1. PICK i \in 1 .. size + 1 : stream.buffer[i] = x
        BY <2>1
    <3>2. i \in 1 .. size \/ i = size + 1
        BY <1>1
    <3>. QED
        BY <1>1, <2>2, <3>1, <3>2
  <2>4. ASSUME NEW x \in ToSet(old.buffer) \cup {n + 1}
        PROVE  x \in ToSet(stream.buffer)
    <3>1. 1 .. size \subseteq 1 .. size + 1 /\ size + 1 \in 1 .. size + 1
        BY <1>1
    <3>2. CASE x = n + 1
        BY <1>1, <2>1, <3>1, <3>2
    <3>3. CASE x \in ToSet(old.buffer)
      <4>1. PICK i \in 1 .. size : old.buffer[i] = x
        BY <2>2, <3>3
      <4>. QED
        BY <1>1, <2>1, <3>1, <4>1
    <3>. QED
        BY <3>2, <3>3
  <2>. QED
    BY <2>3, <2>4
<1>3. Waits(stream, n + 1) = Waits(old, n) \cup {n + 1}
    BY DEF Waits, WatcherOK, Streams
<1>4. \A i \in 1 .. size : old.buffer[i] \in Nat /\ old.buffer[i] < n + 1
  <2>1. \A i \in 1 .. size : old.buffer[i] \in ToSet(old.buffer)
    BY <1>1, InChannel
  <2>2. \A x \in ToSet(old.buffer) : x \in 1 .. n
    BY DEF WatcherOK, Waits
  <2>3. \A x \in 1 .. n : x \in Nat /\ x < n + 1
    OBVIOUS
  <2>. QED
    BY <2>1, <2>2, <2>3
<1>5. Increasing(stream.buffer)
  <2>. SUFFICES ASSUME NEW i \in 1 .. size + 1, NEW j \in 1 .. size + 1, i < j
                PROVE  stream.buffer[i] < stream.buffer[j]
    BY <1>1 DEF Increasing
  <2>1. i \in 1 .. size
    BY <1>1
  <2>2. CASE j = size + 1
    BY <1>1, <1>4, <2>1, <2>2
  <2>3. CASE j \in 1 .. size
    BY <1>1, <2>1, <2>3 DEF WatcherOK, Increasing
  <2>. QED
    BY <1>1, <2>2, <2>3
<1>6. n + 1 \in Nat /\ stream.last <= n + 1 /\ \A i \in stream.missed : i <= n + 1
    BY DEF WatcherOK, Streams
<1>7. ToSet(stream.buffer) = Waits(stream, n + 1)
    BY <1>2, <1>3 DEF WatcherOK
<1>. QED
    BY <1>5, <1>6, <1>7 DEF WatcherOK

\* The channel is full.
LEMMA DroppedOK ==
    ASSUME NEW n \in Nat, NEW old \in Streams, WatcherOK(old, n), NEW stream,
           stream.missed = old.missed \cup {n + 1},
           stream.last = old.last, stream.buffer = old.buffer
    PROVE  WatcherOK(stream, n + 1)
<1>1. Waits(stream, n + 1) = Waits(old, n)
    BY DEF Waits, WatcherOK, Streams
<1>2. stream.last <= n + 1 /\ \A i \in stream.missed : i <= n + 1
    BY DEF WatcherOK, Streams
<1>. QED
    BY <1>1, <1>2 DEF WatcherOK

LEMMA ReceivedOK ==
    ASSUME NEW n \in Nat, NEW old \in Streams, WatcherOK(old, n), old.buffer # <<>>,
           NEW stream, NEW event, event = Head(old.buffer),
           stream.buffer = Tail(old.buffer), stream.last = event,
           stream.missed = { i \in old.missed : i > event }
    PROVE  WatcherOK(stream, n)
<1>. DEFINE size == Len(old.buffer)
<1>1. /\ old.buffer \in Seq(Nat) /\ size \in Nat \ {0}
      /\ stream.buffer \in Seq(Nat)
      /\ Len(stream.buffer) = size - 1
      /\ old.buffer[1] = event
      /\ \A i \in 1 .. size - 1 : stream.buffer[i] = old.buffer[i + 1]
    BY DEF Streams
<1>. HIDE DEF size
<1>2. event \in Waits(old, n)
  <2>1. \E i \in 1 .. size : old.buffer[i] = event
    BY <1>1
  <2>. QED
    BY <1>1, <2>1, InChannel DEF WatcherOK, size
<1>3. /\ event \in Nat /\ event <= n /\ event > old.last /\ event \notin old.missed
      /\ old.last \in Nat /\ old.missed \subseteq Nat
    BY <1>2 DEF Waits, Streams
<1>4. Waits(stream, n) = { i \in Waits(old, n) : i > event }
  <2>. SUFFICES ASSUME NEW i \in 1 .. n
                PROVE  /\ i > event => (i \notin stream.missed <=> i \notin old.missed)
                       /\ i > event => i > old.last
    BY DEF Waits
  <2>. QED
    BY <1>3
<1>5. \A i \in 2 .. size : old.buffer[i] \in Nat /\ old.buffer[i] > event
    BY <1>1, <1>3 DEF WatcherOK, Increasing, size
<1>6. ToSet(stream.buffer) = { i \in ToSet(old.buffer) : i > event }
  <2>1. \A x : x \in ToSet(stream.buffer) <=> \E i \in 1 .. size - 1 : stream.buffer[i] = x
    BY <1>1, InChannel
  <2>2. \A x : x \in ToSet(old.buffer) <=> \E i \in 1 .. size : old.buffer[i] = x
    BY <1>1, InChannel DEF size
  <2>3. ASSUME NEW x \in ToSet(stream.buffer)
        PROVE  x \in ToSet(old.buffer) /\ x > event
    <3>1. PICK i \in 1 .. size - 1 : stream.buffer[i] = x
        BY <2>1
    <3>2. i + 1 \in 2 .. size /\ i + 1 \in 1 .. size /\ old.buffer[i + 1] = x
        BY <1>1, <3>1
    <3>. QED
        BY <1>5, <2>2, <3>2
  <2>4. ASSUME NEW x \in ToSet(old.buffer), x > event
        PROVE  x \in ToSet(stream.buffer)
    <3>1. PICK i \in 1 .. size : old.buffer[i] = x
        BY <2>2
    <3>2. i # 1
        BY <1>1, <1>3, <2>4, <3>1
    <3>3. i - 1 \in 1 .. size - 1 /\ (i - 1) + 1 = i
        BY <1>1, <3>2
    <3>4. stream.buffer[i - 1] = old.buffer[i]
        BY <1>1, <3>3
    <3>. QED
        BY <2>1, <3>1, <3>3, <3>4
  <2>. QED
    BY <2>3, <2>4
<1>7. Increasing(stream.buffer)
  <2>. SUFFICES ASSUME NEW i \in 1 .. size - 1, NEW j \in 1 .. size - 1, i < j
                PROVE  stream.buffer[i] < stream.buffer[j]
    BY <1>1 DEF Increasing
  <2>1. i + 1 \in 1 .. size /\ j + 1 \in 1 .. size /\ i + 1 < j + 1
    BY <1>1
  <2>2. old.buffer[i + 1] < old.buffer[j + 1]
    BY <2>1 DEF WatcherOK, Increasing, size
  <2>. QED
    BY <1>1, <2>2
<1>8. \A i \in stream.missed : i <= n
    BY DEF WatcherOK
<1>. QED
    BY <1>3, <1>4, <1>6, <1>7, <1>8 DEF WatcherOK

LEMMA WatchersInit == HubInit => WatchersInv
BY DEF HubInit, NoPublisher, NoStream, WatchersInv

\* A step that leaves the hub alone.
LEMMA WatchersStutter ==
    ASSUME WatchersInv, UNCHANGED hubVars
    PROVE  WatchersInv'
BY CountKept DEF WatchersInv, Offered, hubVars

LEMMA PublishWatchers ==
    ASSUME HubInv, WatchersInv, NEW e \in Events, Publish(e)
    PROVE  WatchersInv'
<1>1. /\ count \in Nat /\ count' = count + 1
      /\ publisher.left = {} /\ publisher'.left = subs
      /\ UNCHANGED <<subs, streams>>
    BY CountType, PublishCounts DEF HubInv, HubTypeOK, Publish
<1>2. \A s \in Subscribers : Offered(s) = count
    BY <1>1 DEF Offered
<1>3. \A s \in subs : Offered(s)' = count
    BY <1>1 DEF Offered
<1>4. count' > 0
    BY <1>1
<1>5. ASSUME NEW s \in Subscribers, streams[s].step = "streaming"
      PROVE  s \in subs /\ WatcherOK(streams[s], count)
    BY <1>2, <1>5 DEF WatchersInv
<1>. QED
    BY <1>1, <1>3, <1>4, <1>5 DEF WatchersInv

LEMMA PublishEndWatchers ==
    ASSUME HubInv, WatchersInv, PublishEnd
    PROVE  WatchersInv'
<1>1. /\ publisher.left = {} /\ publisher'.left = {}
      /\ UNCHANGED <<subs, streams, count>>
    BY CountKept DEF PublishEnd, NoPublisher
<1>2. \A s \in Subscribers : Offered(s)' = Offered(s)
    BY <1>1 DEF Offered
<1>. QED
    BY <1>1, <1>2 DEF WatchersInv

LEMMA HubDiesWatchers ==
    ASSUME HubDies
    PROVE  WatchersInv'
BY DEF HubDies, NoPublisher, NoStream, WatchersInv

\* One connection changes, the others keep their places.
LEMMA OneWatcher ==
    ASSUME HubInv, WatchersInv, NEW s \in Subscribers, NEW new,
           streams' = [streams EXCEPT ![s] = new],
           count' = count,
           publisher'.left \subseteq publisher.left,
           publisher.left \ {s} \subseteq publisher'.left,
           subs \ {s} \subseteq subs',
           new.step = "streaming" => s \in subs' /\ WatcherOK(new, Offered(s)')
    PROVE  WatchersInv'
<1>1. \A r \in Subscribers : streams'[r] = IF r = s THEN new ELSE streams[r]
    BY DEF HubInv, HubTypeOK
<1>2. \A r \in Subscribers \ {s} : Offered(r)' = Offered(r)
    BY DEF Offered
<1>3. ASSUME NEW r \in Subscribers, streams'[r].step = "streaming"
      PROVE  r \in subs' /\ WatcherOK(streams'[r], Offered(r)')
  <2>1. CASE r = s
    BY <1>1, <1>3, <2>1
  <2>2. CASE r # s
    <3>1. r \in subs /\ WatcherOK(streams[r], Offered(r))
        BY <1>1, <1>3, <2>2 DEF WatchersInv
    <3>2. streams'[r] = streams[r] /\ Offered(r)' = Offered(r)
        BY <1>1, <1>2, <2>2
    <3>. QED
        BY <2>2, <3>1, <3>2
  <2>. QED
    BY <2>1, <2>2
<1>4. publisher'.left # {} => count' > 0
    BY DEF WatchersInv
<1>. QED
    BY <1>3, <1>4 DEF WatchersInv

LEMMA OfferWatchers ==
    ASSUME HubInv, WatchersInv, NEW s \in Subscribers, Offer(s)
    PROVE  WatchersInv'
<1>. DEFINE old == streams[s]
            room == Len(old.buffer) < BufSize
            appended == [old EXCEPT !.buffer = Append(old.buffer, count)]
            dropped == [old EXCEPT !.missed = old.missed \cup {count}]
            new == IF room THEN appended ELSE dropped
            n == count - 1
<1>1. /\ streams' = [streams EXCEPT ![s] = new]
      /\ s \in publisher.left
      /\ publisher' = [publisher EXCEPT !.left = publisher.left \ {s}]
      /\ UNCHANGED <<subs, count>>
    BY CountKept DEF Offer
<1>2. publisher'.left = publisher.left \ {s}
    BY <1>1 DEF HubInv, HubTypeOK, Publishers
<1>3. old \in Streams /\ count \in Nat
    BY CountType DEF HubInv, HubTypeOK
<1>4. count > 0
    BY <1>1 DEF WatchersInv
<1>5. n \in Nat /\ n + 1 = count
    BY <1>3, <1>4
<1>6. Offered(s) = n /\ Offered(s)' = n + 1
    BY <1>1, <1>2, <1>5 DEF Offered
<1>7. /\ appended \in Streams
      /\ appended.step = old.step /\ appended.last = old.last /\ appended.missed = old.missed
      /\ appended.buffer = Append(old.buffer, n + 1)
  <2>1. old.buffer \in Seq(Nat)
    BY <1>3 DEF Streams
  <2>2. Append(old.buffer, count) \in Seq(Nat)
    BY <1>3, <2>1, AppendProperties
  <2>. HIDE DEF n, old
  <2>. QED
    BY <1>3, <1>5, <2>2 DEF Streams
<1>8. /\ dropped.step = old.step /\ dropped.last = old.last /\ dropped.buffer = old.buffer
      /\ dropped.missed = old.missed \cup {n + 1}
    BY <1>3, <1>5 DEF Streams
<1>9. old.step = "streaming" => s \in subs /\ WatcherOK(old, n)
    BY <1>6 DEF WatchersInv
<1>. HIDE DEF appended, dropped, n, old, room
<1>10. new.step = "streaming" => s \in subs /\ WatcherOK(new, n + 1)
  <2>1. CASE room
    BY <1>3, <1>5, <1>7, <1>9, <2>1, OfferedOK
  <2>2. CASE ~room
    BY <1>3, <1>5, <1>8, <1>9, <2>2, DroppedOK
  <2>. QED
    BY <2>1, <2>2
<1>. HIDE DEF new
<1>. QED
    BY <1>1, <1>2, <1>6, <1>10, OneWatcher

LEMMA SubscribeWatchers ==
    ASSUME HubInv, WatchersInv, NEW s \in Subscribers, Subscribe(s)
    PROVE  WatchersInv'
<1>. DEFINE new == [NoStream EXCEPT !.step = "streaming", !.last = count]
<1>1. /\ streams' = [streams EXCEPT ![s] = new]
      /\ subs' = subs \cup {s}
      /\ UNCHANGED <<publisher, count>>
      /\ publisher.left = {}
    BY CountKept DEF Subscribe, HubInv, HubTypeOK
<1>2. count \in Nat
    BY CountType DEF HubInv
<1>3. new \in Streams /\ new.buffer = <<>> /\ new.last = count /\ new.missed = {}
    BY <1>2, NoStreamType DEF NoStream, Streams
<1>4. Offered(s)' = count
    BY <1>1 DEF Offered
<1>. HIDE DEF new
<1>5. WatcherOK(new, count)
    BY <1>2, <1>3, NewWatcherOK
<1>. QED
    BY <1>1, <1>4, <1>5, OneWatcher

LEMMA ReceiveWatchers ==
    ASSUME HubInv, WatchersInv, NEW s \in Subscribers, Receive(s)
    PROVE  WatchersInv'
<1>. DEFINE old == streams[s]
            event == Head(old.buffer)
            new == [old EXCEPT !.buffer = Tail(old.buffer), !.last = event,
                               !.missed = { i \in old.missed : i > event }]
<1>1. /\ streams' = [streams EXCEPT ![s] = new]
      /\ old.step = "streaming" /\ old.buffer # <<>>
      /\ UNCHANGED <<subs, publisher, count>>
    BY CountKept DEF Receive
<1>2. old \in Streams
    BY DEF HubInv, HubTypeOK
<1>. HIDE DEF event, old
<1>3. /\ new.buffer = Tail(old.buffer) /\ new.last = event
      /\ new.missed = { i \in old.missed : i > event }
    BY <1>2 DEF Streams
<1>. HIDE DEF new
<1>4. s \in subs /\ WatcherOK(old, Offered(s)) /\ Offered(s)' = Offered(s)
    BY <1>1 DEF WatchersInv, Offered, old
<1>5. Offered(s) \in Nat
    BY <1>4 DEF WatcherOK
<1>6. WatcherOK(new, Offered(s))
    BY <1>1, <1>2, <1>3, <1>4, <1>5, ReceivedOK DEF event
<1>. QED
    BY <1>1, <1>4, <1>6, OneWatcher

\* A connection that no longer streams.
LEMMA LeaveWatchers ==
    ASSUME HubInv, WatchersInv, NEW s \in Subscribers,
           ReceiveFails(s) \/ Disconnect(s) \/ Unregister(s) \/ Close(s)
    PROVE  WatchersInv'
<1>1. PICK new : streams' = [streams EXCEPT ![s] = new] /\ new.step # "streaming"
  <2>1. CASE ReceiveFails(s)
    <3>1. streams' = [streams EXCEPT ![s] =
              [NoStream EXCEPT !.step = "leaving", !.buffer = Tail(streams[s].buffer)]]
        BY <2>1 DEF ReceiveFails
    <3>2. [NoStream EXCEPT !.step = "leaving", !.buffer = Tail(streams[s].buffer)].step # "streaming"
        BY DEF NoStream
    <3>. QED
        BY <3>1, <3>2
  <2>2. CASE Disconnect(s)
    <3>1. streams' = [streams EXCEPT ![s] =
              [NoStream EXCEPT !.step = "leaving", !.buffer = streams[s].buffer]]
        BY <2>2 DEF Disconnect
    <3>2. [NoStream EXCEPT !.step = "leaving", !.buffer = streams[s].buffer].step # "streaming"
        BY DEF NoStream
    <3>. QED
        BY <3>1, <3>2
  <2>3. CASE Unregister(s)
    <3>1. streams' = [streams EXCEPT ![s] = [streams[s] EXCEPT !.step = "unregistered"]]
        BY <2>3 DEF Unregister
    <3>2. [streams[s] EXCEPT !.step = "unregistered"].step = "unregistered"
        BY DEF HubInv, HubTypeOK, Streams
    <3>. QED
        BY <3>1, <3>2
  <2>4. CASE Close(s)
    <3>1. streams' = [streams EXCEPT ![s] = [NoStream EXCEPT !.step = "closed"]]
        BY <2>4 DEF Close
    <3>2. [NoStream EXCEPT !.step = "closed"].step # "streaming"
        BY DEF NoStream
    <3>. QED
        BY <3>1, <3>2
  <2>. QED
    BY <2>1, <2>2, <2>3, <2>4
<1>2. UNCHANGED <<publisher, count>> /\ subs \ {s} \subseteq subs'
    BY CountKept DEF ReceiveFails, Disconnect, Unregister, Close
<1>. QED
    BY <1>1, <1>2, OneWatcher

\* A step of a connection.
LEMMA HandleWatchers ==
    ASSUME HubInv, WatchersInv, NEW s \in Subscribers, Handle(s)
    PROVE  WatchersInv'
BY ReceiveWatchers, LeaveWatchers DEF Handle

LEMMA WatchersAreServed == HubInv /\ WatchersInv => GapsAreOwnDrops
<1>. SUFFICES ASSUME HubInv, WatchersInv, NEW s \in Subscribers, streams[s].step = "streaming"
              PROVE  /\ ToSet(streams[s].buffer) = Expected(s)
                     /\ Increasing(streams[s].buffer)
    BY DEF GapsAreOwnDrops, Increasing
<1>1. WatcherOK(streams[s], Offered(s)) /\ count \in Nat
    BY CountType DEF HubInv, WatchersInv
<1>2. Waits(streams[s], Offered(s)) = Expected(s)
    BY <1>1 DEF Waits, Offered, Expected
<1>. QED
    BY <1>1, <1>2 DEF WatcherOK

\* When the loop of Publish is over, no watcher lacks an event.
LEMMA OfferedIs ==
    ASSUME HubInv, WatchersInv, publisher.left = {}, NEW n \in 1 .. count
    PROVE  OfferedToAll(n)
<1>. SUFFICES ASSUME NEW s \in Subscribers, streams[s].step = "streaming",
                     ~(n <= streams[s].last), n \notin streams[s].missed
              PROVE  n \in ToSet(streams[s].buffer)
    BY DEF OfferedToAll
<1>1. WatcherOK(streams[s], count) /\ count \in Nat /\ streams[s].last \in Nat
    BY CountType DEF WatchersInv, Offered, HubInv, HubTypeOK, Streams
<1>2. n \in Waits(streams[s], count)
    BY <1>1 DEF Waits
<1>. QED
    BY <1>1, <1>2 DEF WatcherOK

-----------------------------------------------------------------------------
(* What the relay has announced.                                           *)

TransactionInv ==
    /\ workers \in [{Worker} -> Relay!Transactions]
    /\ Len(Transaction.verdicts) <= Len(Transaction.batch)

\* The event was published since the open batch was fetched.
Told(event) == \E n \in fetched + 1 .. count : published[n] = event

(***************************************************************************)
(* The events marked done in the open transaction were published in its    *)
(* course, and so was the event at hand if the handler has accepted it.    *)
(***************************************************************************)
AnnouncedInv ==
    /\ fetched \in 0 .. count
    /\ \A i \in 1 .. Len(Transaction.verdicts) :
          Transaction.verdicts[i] = "done" => Told(Transaction.batch[i])
    /\ announced \/ publisher.sending =>
          /\ Transaction.batch # <<>>
          /\ Told(Transaction.batch[Len(Transaction.verdicts) + 1])

\* Just as much of the rows' type as the status needs.
RowsInv ==
    /\ rows = [e \in Events |-> rows[e]]
    /\ \A e \in Events : "status" \in DOMAIN rows[e]

Inv == HubInv /\ TransactionInv /\ AnnouncedInv /\ RowsInv

LEMMA ToldKept ==
    ASSUME UNCHANGED <<fetched, published>>, NEW event
    PROVE  Told(event)' <=> Told(event)
BY CountKept DEF Told

LEMMA InitInv == Init => Inv
<1>. SUFFICES ASSUME Init PROVE Inv
    OBVIOUS
<1>1. HubInv
    BY HubInitInv DEF Init
<1>2. Transaction = Relay!NoTransaction
    BY DEF Init, Relay!Init, Transaction, Worker
<1>3. TransactionInv
    BY <1>2 DEF Init, Relay!Init, TransactionInv, Relay!NoTransaction, Relay!Transactions
<1>4. AnnouncedInv
  <2>1. count = 0 /\ fetched = 0 /\ ~announced /\ ~publisher.sending
    BY DEF Init, HubInit, NoPublisher, count
  <2>. QED
    BY <1>2, <2>1 DEF AnnouncedInv, Relay!NoTransaction
<1>5. RowsInv
    BY DEF Init, Relay!Init, RowsInv
<1>. QED
    BY <1>1, <1>3, <1>4, <1>5 DEF Inv

\* A step that leaves the rows alone.
LEMMA RowsKept ==
    ASSUME Inv, UNCHANGED rows
    PROVE  RowsInv'
BY DEF Inv, RowsInv

LEMMA TransactionEnds ==
    ASSUME workers' = [workers EXCEPT ![Worker] = Relay!NoTransaction],
           workers \in [{Worker} -> Relay!Transactions],
           announced' = FALSE,
           publisher'.sending = FALSE,
           fetched' \in 0 .. count'
    PROVE  TransactionInv' /\ AnnouncedInv'
<1>1. Transaction' = Relay!NoTransaction
    BY DEF Transaction, Worker
<1>2. /\ Relay!NoTransaction \in Relay!Transactions
      /\ Len(Relay!NoTransaction.verdicts) = 0
      /\ Len(Relay!NoTransaction.batch) = 0
    BY DEF Relay!NoTransaction, Relay!Transactions
<1>3. TransactionInv'
    BY <1>1, <1>2 DEF TransactionInv
<1>4. AnnouncedInv'
    BY <1>1, <1>2 DEF AnnouncedInv
<1>. QED
    BY <1>3, <1>4

LEMMA FetchInv ==
    ASSUME Inv, Fetch
    PROVE  Inv'
<1>. USE DEF Inv
<1>1. /\ UNCHANGED <<rows, hubVars, announced>>
      /\ fetched' = count
      /\ Transaction.batch = <<>>
    BY DEF Fetch, Relay!Fetch, Relay!FetchFrom, Transaction
<1>2. PICK n \in 1 .. Batch :
          \E batch \in [1 .. n -> Events] : workers' = [workers EXCEPT ![Worker].batch = batch]
    BY DEF Fetch, Relay!Fetch, Relay!FetchFrom, Relay!Due, Relay!Pending, Relay!PendingIn
<1>3. PICK batch \in [1 .. n -> Events] : workers' = [workers EXCEPT ![Worker].batch = batch]
    BY <1>2
<1>4. n \in Nat /\ batch \in Seq(Events) /\ Len(batch) = n
    BY ConfigAssumption
<1>5. /\ Transaction \in Relay!Transactions
      /\ Transaction.verdicts = <<>>
    BY <1>1 DEF TransactionInv, Transaction, Relay!Transactions
<1>6. Transaction' = [Transaction EXCEPT !.batch = batch]
    BY <1>3 DEF TransactionInv, Transaction
<1>7. TransactionInv'
    <2>1. Transaction' \in Relay!Transactions /\ Len(Transaction'.verdicts) <= Len(Transaction'.batch)
        BY <1>4, <1>5, <1>6 DEF Relay!Transactions
    <2>. QED
        BY <1>3, <2>1 DEF TransactionInv, Transaction
<1>8. AnnouncedInv'
    <2>1. Len(Transaction'.verdicts) = 0
        BY <1>5, <1>6 DEF Relay!Transactions
    <2>2. count \in Nat /\ count' = count
        BY <1>1, CountType, CountKept DEF HubInv, hubVars
    <2>3. fetched' \in 0 .. count'
        BY <1>1, <2>2
    <2>4. ~(announced' \/ publisher'.sending)
        BY <1>1 DEF AnnouncedInv, hubVars
    <2>. QED
        BY <2>1, <2>3, <2>4 DEF AnnouncedInv
<1>. QED
    BY <1>1, <1>7, <1>8, HubStutters, RowsKept DEF hubVars

LEMMA AnnounceInv ==
    ASSUME Inv, Announce
    PROVE  Inv'
<1>. USE DEF Inv
<1>. DEFINE event == Transaction.batch[Len(Transaction.verdicts) + 1]
<1>1. /\ Publish(event)
      /\ UNCHANGED <<rows, workers, announced>>
      /\ Len(Transaction.verdicts) < Len(Transaction.batch)
    BY DEF Announce, relayVars, Relay!Handling, Transaction
<1>2. Transaction \in Relay!Transactions
    BY DEF TransactionInv, Transaction
<1>3. event \in Events /\ Transaction.batch # <<>>
    BY <1>1, <1>2 DEF Relay!Transactions
<1>4. HubInv'
    BY <1>1, <1>3, PublishInv
<1>5. UNCHANGED <<Transaction, fetched>>
    BY <1>1 DEF Transaction, Announce
<1>6. count \in Nat /\ fetched \in 0 .. count
    BY CountType DEF AnnouncedInv, HubInv
<1>7. /\ count' = count + 1
      /\ published'[count + 1] = event
      /\ \A n \in 1 .. count : published'[n] = published[n]
    BY <1>1, <1>3, PublishCounts DEF HubInv
<1>. HIDE DEF event
<1>8. Told(event)' /\ fetched' \in 0 .. count'
  <2>1. count + 1 \in fetched + 1 .. count + 1 /\ fetched \in 0 .. count + 1
    BY <1>6
  <2>2. event' = event
    BY <1>5 DEF event
  <2>3. count + 1 \in fetched' + 1 .. count' /\ fetched' \in 0 .. count'
    BY <1>5, <1>7, <2>1
  <2>. QED
    BY <1>7, <2>2, <2>3 DEF Told
<1>9. ASSUME NEW e, Told(e) PROVE Told(e)'
  <2>1. PICK n \in fetched + 1 .. count : published[n] = e
    BY <1>9 DEF Told
  <2>2. n \in fetched + 1 .. count + 1 /\ n \in 1 .. count
    BY <1>6, <2>1
  <2>. QED
    BY <1>5, <1>7, <2>1, <2>2 DEF Told
<1>10. AnnouncedInv'
    BY <1>3, <1>5, <1>8, <1>9 DEF AnnouncedInv, event
<1>11. TransactionInv'
    BY <1>1, <1>5 DEF TransactionInv
<1>. QED
    BY <1>1, <1>4, <1>10, <1>11, RowsKept

\* The other steps of the hub publish nothing new.
LEMMA OtherHubSteps ==
    ASSUME Inv, HubInv',
           UNCHANGED <<rows, workers, announced, fetched, published>>,
           publisher'.sending => publisher.sending
    PROVE  Inv'
<1>1. UNCHANGED Transaction
    BY DEF Transaction
<1>2. TransactionInv' /\ AnnouncedInv'
    BY <1>1, ToldKept, CountKept DEF Inv, TransactionInv, AnnouncedInv
<1>. QED
    BY <1>2, RowsKept DEF Inv

LEMMA AnnouncedStepInv ==
    ASSUME Inv, Announced
    PROVE  Inv'
<1>1. HubInv'
    BY PublishEndInv DEF Inv, Announced
<1>2. UNCHANGED <<rows, workers, fetched, published>> /\ publisher.sending /\ ~publisher'.sending
    BY DEF Announced, PublishEnd, relayVars, NoPublisher
<1>3. UNCHANGED Transaction
    BY <1>2 DEF Transaction
<1>4. TransactionInv' /\ AnnouncedInv'
    BY <1>2, <1>3, ToldKept, CountKept DEF Inv, TransactionInv, AnnouncedInv
<1>. QED
    BY <1>1, <1>2, <1>4, RowsKept DEF Inv

\* Handle of Relay: one more verdict.
LEMMA VerdictInv ==
    ASSUME Inv, NEW verdict \in {"done", "refused"},
           Statement(Relay!Handle(Worker, verdict)),
           verdict = "done" => announced
    PROVE  Inv'
<1>. USE DEF Inv
<1>. DEFINE n == Len(Transaction.verdicts) + 1
<1>1. /\ workers' = [workers EXCEPT ![Worker].verdicts = Append(@, verdict)]
      /\ Len(Transaction.verdicts) < Len(Transaction.batch)
      /\ UNCHANGED <<rows, hubVars, fetched>>
      /\ ~publisher.sending
      /\ announced' = FALSE
    BY DEF Statement, Relay!Handle, Relay!Handling, Transaction
<1>2. /\ Transaction \in Relay!Transactions
      /\ Transaction' = [Transaction EXCEPT !.verdicts = Append(Transaction.verdicts, verdict)]
    BY <1>1 DEF TransactionInv, Transaction
<1>3. /\ Transaction'.verdicts = Append(Transaction.verdicts, verdict)
      /\ Transaction'.batch = Transaction.batch
      /\ Transaction' \in Relay!Transactions
      /\ Transaction.verdicts \in Seq({"done", "refused"})
      /\ Transaction.batch \in Seq(Events)
    <2>1. Transaction.verdicts \in Seq({"done", "refused"}) /\ Transaction.batch \in Seq(Events)
        BY <1>2 DEF Relay!Transactions
    <2>2. Append(Transaction.verdicts, verdict) \in Seq({"done", "refused"})
        BY <2>1
    <2>. QED
        BY <1>2, <2>1, <2>2 DEF Relay!Transactions
<1>4. TransactionInv'
    BY <1>1, <1>3 DEF TransactionInv, Transaction
<1>5. AnnouncedInv'
    <2>1. /\ Len(Transaction'.verdicts) = n
          /\ n \in Nat
          /\ Transaction'.verdicts[n] = verdict
          /\ \A i \in 1 .. n : i = n \/ /\ i \in 1 .. Len(Transaction.verdicts)
                                        /\ Transaction'.verdicts[i] = Transaction.verdicts[i]
        BY <1>3
    <2>2. verdict = "done" => Told(Transaction.batch[n])
        BY DEF AnnouncedInv
    <2>3. \A i \in 1 .. Len(Transaction.verdicts) :
              Transaction.verdicts[i] = "done" => Told(Transaction.batch[i])
        BY DEF AnnouncedInv
    <2>4. fetched' \in 0 .. count' /\ \A e : Told(e)' <=> Told(e)
        BY <1>1, ToldKept, CountKept DEF AnnouncedInv, hubVars
    <2>. HIDE DEF n
    <2>. QED
        BY <1>1, <1>3, <2>1, <2>2, <2>3, <2>4 DEF AnnouncedInv, hubVars
<1>. QED
    BY <1>1, <1>4, <1>5, HubStutters, RowsKept DEF hubVars

LEMMA SqlErrorInv ==
    ASSUME Inv, SqlError
    PROVE  Inv'
<1>. USE DEF Inv
<1>1. /\ workers' = [workers EXCEPT ![Worker].aborted = TRUE]
      /\ UNCHANGED <<rows, hubVars, fetched>>
      /\ ~publisher.sending
      /\ announced' = FALSE
    BY DEF SqlError, Statement, Relay!HandleSqlError
<1>2. /\ Transaction \in Relay!Transactions
      /\ Transaction' = [Transaction EXCEPT !.aborted = TRUE]
    BY <1>1 DEF TransactionInv, Transaction
<1>3. /\ Transaction' \in Relay!Transactions
      /\ Transaction'.batch = Transaction.batch
      /\ Transaction'.verdicts = Transaction.verdicts
    BY <1>2 DEF Relay!Transactions
<1>4. TransactionInv'
    BY <1>1, <1>3 DEF TransactionInv, Transaction
<1>5. AnnouncedInv'
    BY <1>1, <1>3, ToldKept, CountKept DEF AnnouncedInv, hubVars
<1>. QED
    BY <1>1, <1>4, <1>5, HubStutters, RowsKept DEF hubVars

\* The transaction ends with its rows as they were.
LEMMA UndoneInv ==
    ASSUME Inv, ConnectionLost \/ Canceled \/ Rollback
    PROVE  Inv'
<1>. USE DEF Inv
<1>1. /\ workers' = [workers EXCEPT ![Worker] = Relay!NoTransaction]
      /\ UNCHANGED <<rows, hubVars, fetched>>
      /\ ~publisher.sending
      /\ announced' = FALSE
    BY DEF ConnectionLost, Canceled, Rollback, Statement, Relay!Crash, Relay!Rollback
<1>2. publisher'.sending = FALSE
    BY <1>1 DEF hubVars, HubInv, HubTypeOK, Publishers
<1>3. TransactionInv' /\ AnnouncedInv'
    BY <1>1, <1>2, TransactionEnds, CountKept DEF TransactionInv, AnnouncedInv, hubVars
<1>. QED
    BY <1>1, <1>3, HubStutters, RowsKept DEF hubVars

LEMMA RefusedRowIs ==
    ASSUME NEW row, "status" \in DOMAIN row
    PROVE  /\ "status" \in DOMAIN Relay!RefusedRow(row)
           /\ Relay!RefusedRow(row).status = "done" => row.status = "done"
BY DEF Relay!RefusedRow

LEMMA CommitInv ==
    ASSUME Inv, Commit
    PROVE  Inv'
<1>. USE DEF Inv
<1>1. /\ rows' = Relay!CommittedRows(Worker)
      /\ workers' = [workers EXCEPT ![Worker] = Relay!NoTransaction]
      /\ Len(Transaction.verdicts) = Len(Transaction.batch)
      /\ UNCHANGED <<hubVars, fetched>>
      /\ ~publisher.sending
      /\ announced' = FALSE
    <2>1. /\ Len(Transaction.verdicts) \in Nat
          /\ Len(Transaction.batch) \in Nat
          /\ Len(Transaction.verdicts) <= Len(Transaction.batch)
        BY DEF TransactionInv, Transaction, Relay!Transactions
    <2>. QED
        BY <2>1 DEF Commit, Statement, Relay!Commit, Relay!Handling, Transaction
<1>2. publisher'.sending = FALSE
    BY <1>1 DEF hubVars, HubInv, HubTypeOK, Publishers
<1>3. TransactionInv' /\ AnnouncedInv'
    BY <1>1, <1>2, TransactionEnds, CountKept DEF TransactionInv, AnnouncedInv, hubVars
<1>4. RowsInv'
    BY <1>1, RefusedRowIs DEF RowsInv, Relay!CommittedRows
<1>. QED
    BY <1>1, <1>3, <1>4, HubStutters

\* What a commit makes done was announced in the course of its batch.
LEMMA CommitTold ==
    ASSUME Inv, Commit, NEW e \in Events, rows[e].status # "done", rows'[e].status = "done"
    PROVE  Told(e)
<1>. USE DEF Inv
<1>1. /\ rows' = Relay!CommittedRows(Worker)
      /\ ~(Len(Transaction.verdicts) < Len(Transaction.batch))
    BY DEF Commit, Statement, Relay!Commit, Relay!Handling, Transaction
<1>2. Len(Transaction.verdicts) = Len(Transaction.batch)
    <2>1. /\ Len(Transaction.verdicts) \in Nat
          /\ Len(Transaction.batch) \in Nat
          /\ Len(Transaction.verdicts) <= Len(Transaction.batch)
        BY DEF TransactionInv, Transaction, Relay!Transactions
    <2>. QED
        BY <1>1, <2>1
<1>3. "status" \in DOMAIN rows[e]
    BY DEF RowsInv
<1>4. e \in Relay!ToSet(Transaction.batch)
    BY <1>1 DEF Relay!CommittedRows, Transaction
<1>5. Relay!Verdict(Worker, e) = "done"
    <2>1. ASSUME Relay!Verdict(Worker, e) # "done"
          PROVE  rows'[e] = Relay!RefusedRow(rows[e])
        BY <1>1, <1>4, <2>1 DEF Relay!CommittedRows, Transaction
    <2>. QED
        BY <1>3, <2>1, RefusedRowIs
<1>6. PICK i \in 1 .. Len(Transaction.batch) :
          Transaction.batch[i] = e /\ Transaction.verdicts[i] = "done"
    <2>1. \E i \in 1 .. Len(Transaction.batch) : Transaction.batch[i] = e
        BY <1>4 DEF TransactionInv, Transaction, Relay!Transactions, Relay!ToSet
    <2>. QED
        BY <1>5, <2>1 DEF Relay!Verdict, Transaction
<1>. QED
    BY <1>2, <1>6 DEF AnnouncedInv

\* New events and the passing of time leave each event as done as it was.
LEMMA DatabaseInv ==
    ASSUME Inv, InDatabase(Relay!Tick) \/ \E e \in Events : InDatabase(Relay!Enqueue(e))
    PROVE  Inv'
<1>. USE DEF Inv
<1>1. UNCHANGED <<workers, hubVars, announced, fetched>>
    BY DEF InDatabase, Relay!Tick, Relay!Enqueue
<1>2. UNCHANGED Transaction
    BY <1>1 DEF Transaction
<1>3. TransactionInv' /\ AnnouncedInv'
    BY <1>1, <1>2, ToldKept, CountKept DEF TransactionInv, AnnouncedInv, hubVars
<1>4. RowsInv'
    <2>1. CASE InDatabase(Relay!Tick)
        BY <2>1 DEF InDatabase, Relay!Tick, RowsInv
    <2>2. ASSUME NEW d \in Events, InDatabase(Relay!Enqueue(d))
          PROVE  RowsInv'
        <3>1. rows' = [rows EXCEPT ![d].status = "pending"]
            BY <2>2 DEF InDatabase, Relay!Enqueue
        <3>. QED
            BY <3>1 DEF RowsInv
    <2>. QED
        BY <2>1, <2>2
<1>. QED
    BY <1>1, <1>3, <1>4, HubStutters

\* The process ends, with no transaction open or with the one it had lost.
LEMMA EndsInv ==
    ASSUME Inv, Exit \/ Killed
    PROVE  Inv'
<1>. USE DEF Inv
<1>1. HubDies /\ UNCHANGED rows
    BY DEF Exit, Killed, Ends
<1>2. /\ publisher'.sending = FALSE
      /\ fetched' \in 0 .. count'
      /\ fetched' = 0
    BY <1>1 DEF HubDies, NoPublisher, count, Exit, Killed, Ends
<1>3. TransactionInv' /\ AnnouncedInv'
    <2>1. CASE Exit
        <3>1. UNCHANGED <<workers, announced>> /\ Transaction.batch = <<>>
            BY <2>1 DEF Exit
        <3>2. UNCHANGED Transaction /\ ~announced
            BY <3>1 DEF Transaction, AnnouncedInv
        <3>3. 1 .. Len(Transaction.verdicts) = {}
            BY <3>1 DEF TransactionInv, Transaction, Relay!Transactions
        <3>4. TransactionInv'
            BY <3>1, <3>2 DEF TransactionInv
        <3>5. AnnouncedInv'
            BY <1>2, <3>1, <3>2, <3>3 DEF AnnouncedInv
        <3>. QED
            BY <3>4, <3>5
    <2>2. CASE Killed
        BY <1>2, <2>2, TransactionEnds DEF Killed, TransactionInv
    <2>. QED
        BY <2>1, <2>2
<1>. QED
    BY <1>1, <1>2, <1>3, HubDiesInv, RowsKept

\* No other step makes an event done.
LEMMA OnlyCommitDoes ==
    ASSUME Inv, Next, NEW e \in Events, rows[e].status # "done", rows'[e].status = "done"
    PROVE  Commit
<1>1. ASSUME InDatabase(Relay!Tick)
      PROVE  FALSE
    BY <1>1 DEF InDatabase, Relay!Tick, Inv, RowsInv
<1>2. ASSUME NEW d \in Events, InDatabase(Relay!Enqueue(d))
      PROVE  FALSE
  <2>1. rows' = [rows EXCEPT ![d].status = "pending"]
    BY <1>2 DEF InDatabase, Relay!Enqueue
  <2>. QED
    BY <2>1 DEF Inv, RowsInv
<1>3. UNCHANGED rows \/ InDatabase(Relay!Tick) \/ Commit
          \/ \E d \in Events : InDatabase(Relay!Enqueue(d))
    BY DEF Next, RelayStep, Fetch, Relay!Fetch, Relay!FetchFrom, Announce, AnnounceTo, Announced,
           relayVars, MarkDone, Refuse, Statement, Relay!Handle, SqlError, Relay!HandleSqlError,
           ConnectionLost, Relay!Crash, Canceled, Rollback, Relay!Rollback, Watch, Stream,
           Stop, Exit, Killed, Ends, Start
<1>. QED
    BY <1>1, <1>2, <1>3

LEMMA StepInv == Inv /\ [Next]_vars => Inv'
<1>. SUFFICES ASSUME Inv, [Next]_vars PROVE Inv'
    OBVIOUS
<1>1. CASE UNCHANGED vars \/ Stop \/ Start
    <2>1. UNCHANGED <<rows, workers, hubVars, announced, fetched>>
        BY <1>1 DEF vars, relayVars, Stop, Start
    <2>. QED
        BY <2>1, HubStutters, OtherHubSteps DEF Inv, hubVars
<1>2. CASE InDatabase(Relay!Tick) \/ \E e \in Events : InDatabase(Relay!Enqueue(e))
    BY <1>2, DatabaseInv
<1>3. CASE Fetch
    BY <1>3, FetchInv
<1>4. CASE Announce
    BY <1>4, AnnounceInv
<1>5. CASE Announced
    BY <1>5, AnnouncedStepInv
<1>6. CASE \E s \in Subscribers : AnnounceTo(s) \/ Watch(s) \/ Stream(s)
    <2>1. PICK s \in Subscribers : AnnounceTo(s) \/ Watch(s) \/ Stream(s)
        BY <1>6
    <2>2. HubInv'
        BY <2>1, OfferInv, SubscribeInv, HandlesInv DEF Inv, AnnounceTo, Watch, Stream
    <2>3. UNCHANGED <<rows, workers, announced, fetched, published>> /\ publisher'.sending = publisher.sending
        BY <2>1 DEF AnnounceTo, Watch, Stream, relayVars, Offer, Subscribe, Handle, Receive,
                    ReceiveFails, Disconnect, Unregister, Close, Inv, HubInv, HubTypeOK, Publishers
    <2>. QED
        BY <2>2, <2>3, OtherHubSteps
<1>7. CASE MarkDone \/ Refuse
    BY <1>7, VerdictInv DEF MarkDone, Refuse
<1>8. CASE SqlError
    BY <1>8, SqlErrorInv
<1>9. CASE ConnectionLost \/ Canceled \/ Rollback
    BY <1>9, UndoneInv
<1>10. CASE Commit
    BY <1>10, CommitInv
<1>11. CASE Exit \/ Killed
    BY <1>11, EndsInv
<1>. QED
    BY <1>1, <1>2, <1>3, <1>4, <1>5, <1>6, <1>7, <1>8, <1>9, <1>10, <1>11 DEF Next, RelayStep

LEMMA SpecInv == Spec => []Inv
<1>. QED
    BY InitInv, StepInv, PTL DEF Spec

-----------------------------------------------------------------------------
(* The relay of the process is a Relay.                                    *)

R == INSTANCE RelayProofs
    WITH Workers <- {Worker},
         Payments <- {"payment"},
         PaymentOf <- [e \in Events |-> "payment"],
         None <- "none",
         sweep <- [locked |-> {}, wanted |-> "none", over |-> FALSE]

LEMMA SameCardinality == R!Cardinality(Events) = Cardinality(Events)
BY DEF Cardinality, R!Cardinality

LEMMA RelayConstants ==
    /\ Events = 1 .. R!Cardinality(Events)
    /\ Batch \in 1 .. 1000
    /\ MaxRetries \in Nat \ {0}
    /\ Backoff \in [1 .. MaxRetries -> Nat]
    /\ MaxFaults \in Nat
    /\ [e \in Events |-> "payment"] \in [Events -> {"payment"}]
    /\ "none" \notin {"payment"}
BY ConfigAssumption, SameCardinality

LEMMA RelayStepInv == R!Inv /\ [R!Next]_R!vars => R!Inv'
BY RelayConstants, R!StepInv, Zenon

LEMMA RelayInitInv == R!Init => R!Inv
BY RelayConstants, R!InitInv, Zenon

LEMMA RelayKeepsPromise == R!Inv /\ [R!Next]_R!vars => [R!Promise!Next]_R!promised
BY RelayConstants, R!StepKeepsPromise, Zenon

\* The definitions behind the two names of the relay are the same.
LEMMA SameTypes == R!TypeOK <=> Relay!TypeOK
BY DEF R!TypeOK, R!Rows, R!Orders, R!PendingIn, R!Transactions, R!Sweeps,
       Relay!TypeOK, Relay!Rows, Relay!Orders, Relay!PendingIn, Relay!Transactions, Relay!Sweeps

LEMMA SameInit == Relay!Init <=> R!Init
BY DEF R!Init, Relay!Init, R!NoTransaction, Relay!NoTransaction, R!NoSweep, Relay!NoSweep

LEMMA SameRows ==
    /\ \A e \in Events : Relay!Enqueue(e) <=> R!Enqueue(e)
    /\ Relay!Tick <=> R!Tick
BY DEF Relay!Enqueue, R!Enqueue, Relay!Tick, R!Tick, Relay!Reordered, R!Reordered,
       Relay!Before, R!Before, Relay!PendingIn, R!PendingIn

LEMMA SameFetch == Relay!Fetch(Worker) <=> R!Fetch(Worker)
BY DEF Relay!Fetch, R!Fetch, Relay!FetchFrom, R!FetchFrom, Relay!Due, R!Due, Relay!Pending, R!Pending,
       Relay!PendingIn, R!PendingIn, Relay!Locked, R!Locked, Relay!ToSet, R!ToSet

LEMMA SameHandle ==
    ASSUME NEW verdict
    PROVE  Relay!Handle(Worker, verdict) <=> R!Handle(Worker, verdict)
BY DEF Relay!Handle, R!Handle, Relay!Handling, R!Handling, Relay!Free, R!Free, Relay!Current, R!Current,
       Relay!HeldBy, R!HeldBy

LEMMA SameFaults ==
    /\ Relay!HandleSqlError(Worker) <=> R!HandleSqlError(Worker)
    /\ Relay!Crash(Worker) <=> R!Crash(Worker)
    /\ Relay!Rollback(Worker) <=> R!Rollback(Worker)
BY DEF Relay!HandleSqlError, R!HandleSqlError, Relay!Crash, R!Crash, Relay!Rollback, R!Rollback,
       Relay!Handling, R!Handling, Relay!NoTransaction, R!NoTransaction

LEMMA SameCommit == Relay!Commit(Worker) <=> R!Commit(Worker)
BY DEF Relay!Commit, R!Commit, Relay!Handling, R!Handling, Relay!NoTransaction, R!NoTransaction,
       Relay!CommittedRows, R!CommittedRows, Relay!RefusedRow, R!RefusedRow, Relay!Verdict, R!Verdict,
       Relay!ToSet, R!ToSet, Relay!Reordered, R!Reordered,
       Relay!Before, R!Before, Relay!PendingIn, R!PendingIn

LEMMA SamePromise ==
    /\ Relay!Promise!Init <=> R!Promise!Init
    /\ Relay!Promise!Next <=> R!Promise!Next
BY DEF Relay!Promise!Init, R!Promise!Init, Relay!Promise!Next, R!Promise!Next,
       Relay!Promise!Kept, R!Promise!Kept, Relay!Promise!Recorded, R!Promise!Recorded,
       Relay!Promise!Done, R!Promise!Done, Relay!Promise!Refused, R!Promise!Refused

\* A step that the relay of the process takes as one of Relay's.
RelaySteps ==
    \/ \E e \in Events : InDatabase(Relay!Enqueue(e))
    \/ InDatabase(Relay!Tick)
    \/ Fetch \/ MarkDone \/ Refuse \/ SqlError \/ ConnectionLost \/ Commit \/ Rollback

LEMMA RelayStepsAre == RelaySteps => R!Next
<1>1. (\E e \in Events : Relay!Enqueue(e)) \/ Relay!Tick => R!Next
    BY SameRows, Zenon DEF R!Next
<1>2. Relay!Fetch(Worker) => R!Next
    BY SameFetch, Zenon DEF R!Next, R!Work
<1>3. ASSUME NEW verdict \in {"done", "refused"}
      PROVE  Relay!Handle(Worker, verdict) => R!Next
    BY SameHandle, Zenon DEF R!Next, R!Work
<1>4. Relay!HandleSqlError(Worker) \/ Relay!Crash(Worker) \/ Relay!Rollback(Worker) => R!Next
    BY SameFaults, Zenon DEF R!Next, R!Work
<1>5. Relay!Commit(Worker) => R!Next
    BY SameCommit, Zenon DEF R!Next, R!Work
<1>6. "done" \in {"done", "refused"} /\ "refused" \in {"done", "refused"}
    OBVIOUS
<1>. QED
    BY <1>1, <1>2, <1>3, <1>4, <1>5, <1>6, Zenon
        DEF RelaySteps, InDatabase, Statement, Fetch, MarkDone, Refuse, SqlError, ConnectionLost,
            Commit, Rollback

(***************************************************************************)
(* What the process does to the relay besides its own steps: a transaction *)
(* is dropped with the process or when the context is canceled, and the    *)
(* signals count as faults.                                                *)
(***************************************************************************)
DropSteps ==
    /\ UNCHANGED <<rows, earlier, effects>>
    /\ faults' \in 0 .. MaxFaults
    /\ workers' = workers \/ workers' = [workers EXCEPT ![Worker] = Relay!NoTransaction]

LEMMA StepIsRelayOrDrop == Relay!TypeOK /\ [Next]_vars => RelaySteps \/ DropSteps
<1>. SUFFICES ASSUME Relay!TypeOK, [Next]_vars, ~RelaySteps PROVE DropSteps
    OBVIOUS
<1>1. faults \in 0 .. MaxFaults /\ MaxFaults \in Nat
    BY ConfigAssumption DEF Relay!TypeOK
<1>2. CASE UNCHANGED relayVars
    BY <1>1, <1>2 DEF relayVars, DropSteps
<1>3. CASE Canceled
    BY <1>1, <1>3 DEF Canceled, Statement, DropSteps
<1>4. CASE Stop
    BY <1>1, <1>4 DEF Stop, DropSteps
<1>5. CASE Killed
    BY <1>1, <1>5 DEF Killed, Ends, DropSteps
<1>6. CASE Exit
    BY <1>1, <1>6 DEF Exit, Ends, DropSteps
<1>. QED
    BY <1>2, <1>3, <1>4, <1>5, <1>6
        DEF Next, vars, RelayStep, RelaySteps, Announce, AnnounceTo, Announced, Watch, Stream, Start

LEMMA DropInv ==
    ASSUME R!Inv, DropSteps
    PROVE  R!Inv'
<1>1. /\ Relay!NoTransaction \in R!Transactions
      /\ Len(Relay!NoTransaction.verdicts) = 0 /\ Len(Relay!NoTransaction.batch) = 0
      /\ Relay!NoTransaction.batch = <<>>
    BY DEF Relay!NoTransaction, R!Transactions
<1>2. /\ workers \in [{Worker} -> R!Transactions]
      /\ Len(workers[Worker].verdicts) <= Len(workers[Worker].batch)
      /\ workers' = workers \/ workers' = [workers EXCEPT ![Worker] = Relay!NoTransaction]
    BY DEF R!Inv, R!TypeOK, DropSteps
<1>3. /\ workers' \in [{Worker} -> R!Transactions]
      /\ Len(workers'[Worker].verdicts) <= Len(workers'[Worker].batch)
      /\ workers'[Worker] = workers[Worker] \/ workers'[Worker].batch = <<>>
    BY <1>1, <1>2
<1>4. R!InBatch(Worker)' \subseteq R!InBatch(Worker)
    BY <1>3 DEF R!InBatch, R!ToSet
<1>5. R!TypeOK'
    BY <1>3 DEF DropSteps, R!Inv, R!TypeOK, R!Orders, R!PendingIn
<1>6. R!RetriesLeft'
    BY DEF DropSteps, R!Inv, R!RetriesLeft
<1>7. R!BatchesInv'
    BY <1>4 DEF DropSteps, R!Inv, R!BatchesInv, R!Pending, R!PendingIn
<1>. QED
    BY <1>5, <1>6, <1>7 DEF R!Inv

-----------------------------------------------------------------------------
(* The whole process.                                                      *)

WholeInv ==
    /\ Inv /\ WatchersInv /\ R!Inv
    /\ announced \in BOOLEAN
    /\ phase \in {"running", "stopping", "exited"}

LEMMA WholeInit == Init => WholeInv
<1>1. Init => R!Inv
    BY SameInit, RelayInitInv DEF Init
<1>. QED
    BY <1>1, InitInv, WatchersInit DEF Init, WholeInv

LEMMA WatchersStep ==
    ASSUME Inv, WatchersInv, [Next]_vars
    PROVE  WatchersInv'
<1>. USE DEF Inv
<1>1. CASE UNCHANGED hubVars
    BY <1>1, WatchersStutter
<1>2. CASE Announce
  <2>1. Transaction \in Relay!Transactions /\ Len(Transaction.verdicts) < Len(Transaction.batch)
    BY <1>2 DEF Announce, Relay!Handling, Transaction, TransactionInv
  <2>2. Transaction.batch[Len(Transaction.verdicts) + 1] \in Events
    BY <2>1 DEF Relay!Transactions
  <2>. QED
    BY <1>2, <2>2, PublishWatchers DEF Announce
<1>3. CASE Announced
    BY <1>3, PublishEndWatchers DEF Announced
<1>4. ASSUME NEW s \in Subscribers, AnnounceTo(s) \/ Watch(s) \/ Stream(s)
      PROVE  WatchersInv'
    BY <1>4, OfferWatchers, SubscribeWatchers, HandleWatchers DEF AnnounceTo, Watch, Stream
<1>5. CASE Exit \/ Killed
    BY <1>5, HubDiesWatchers DEF Exit, Killed, Ends
<1>. QED
    BY <1>1, <1>2, <1>3, <1>4, <1>5
        DEF Next, vars, RelayStep, InDatabase, Statement, Fetch, MarkDone, Refuse, SqlError,
            ConnectionLost, Canceled, Commit, Rollback, Stop, Start

LEMMA RelayInvStep ==
    ASSUME R!Inv, [Next]_vars
    PROVE  R!Inv' /\ [R!Promise!Next]_R!promised
<1>1. RelaySteps \/ DropSteps
    BY SameTypes, StepIsRelayOrDrop DEF R!Inv
<1>2. CASE RelaySteps
    BY <1>2, RelayStepsAre, RelayStepInv, RelayKeepsPromise
<1>3. CASE DropSteps
  <2>1. UNCHANGED R!promised
    BY <1>3 DEF DropSteps, R!promised
  <2>. QED
    BY <1>3, <2>1, DropInv
<1>. QED
    BY <1>1, <1>2, <1>3

LEMMA WholeStep == WholeInv /\ [Next]_vars => WholeInv'
<1>. SUFFICES ASSUME WholeInv, [Next]_vars PROVE WholeInv'
    OBVIOUS
<1>1. Inv' /\ WatchersInv' /\ R!Inv'
    BY StepInv, WatchersStep, RelayInvStep DEF WholeInv, Inv
<1>2. announced' \in BOOLEAN /\ phase' \in {"running", "stopping", "exited"}
    BY DEF WholeInv, Next, vars, RelayStep, InDatabase, Statement, Fetch, Announce, AnnounceTo, Announced,
           MarkDone, Refuse, SqlError, ConnectionLost, Canceled, Commit, Rollback, Watch, Stream,
           Stop, Exit, Killed, Start, Ends
<1>. QED
    BY <1>1, <1>2 DEF WholeInv

LEMMA SpecWhole == Spec => []WholeInv
<1>. QED
    BY WholeInit, WholeStep, PTL DEF Spec

-----------------------------------------------------------------------------
(* The theorems.                                                           *)

(***************************************************************************)
(* The relay's goroutine never sends on a closed channel, however many     *)
(* connections come and go while it publishes.                             *)
(***************************************************************************)
THEOREM OpenChannelsOnly == Spec => []NoSendOnClosed
<1>1. Inv => NoSendOnClosed
    BY DEF Inv, HubInv, NoSendOnClosed
<1>. QED
    BY <1>1, SpecInv, PTL

(***************************************************************************)
(* When an event becomes done, the process that did it has announced it    *)
(* since it fetched the batch, and whoever watches then was sent it, has   *)
(* it in his channel or had it dropped because that channel was full,      *)
(* whatever was published, rolled back or restarted before.                *)
(***************************************************************************)
THEOREM AnnouncedCorrect == Spec => DoneIsAnnounced
<1>. DEFINE Announces ==
            \A e \in Events :
                rows[e].status # "done" /\ rows'[e].status = "done" =>
                    \E n \in fetched + 1 .. count : published[n] = e /\ OfferedToAll(n)
<1>1. WholeInv /\ [Next]_vars => [Announces]_vars
  <2>. SUFFICES ASSUME WholeInv, Next, NEW e \in Events,
                       rows[e].status # "done", rows'[e].status = "done"
                PROVE  \E n \in fetched + 1 .. count : published[n] = e /\ OfferedToAll(n)
    OBVIOUS
  <2>1. Commit
    BY OnlyCommitDoes DEF WholeInv
  <2>2. PICK n \in fetched + 1 .. count : published[n] = e
    BY <2>1, CommitTold DEF WholeInv, Told
  <2>3. n \in 1 .. count
    BY <2>2, CountType DEF WholeInv, Inv, HubInv, AnnouncedInv
  <2>4. publisher.left = {}
    BY <2>1 DEF Commit, Statement, WholeInv, Inv, HubInv, HubTypeOK
  <2>. QED
    BY <2>2, <2>3, <2>4, OfferedIs DEF WholeInv, Inv
<1>. QED
    BY <1>1, SpecWhole, PTL DEF Spec, DoneIsAnnounced

(***************************************************************************)
(* Rows, batches, channels and connections are well typed, the pending     *)
(* rows are ordered by next_attempt_at, and no channel is over its size.   *)
(***************************************************************************)
THEOREM TypeCorrect == Spec => []TypeOK
<1>1. WholeInv => TypeOK
    BY SameTypes, CountType DEF WholeInv, Inv, HubInv, AnnouncedInv, TypeOK, R!Inv
<1>. QED
    BY <1>1, SpecWhole, PTL

(***************************************************************************)
(* Every watcher gets the events of the process in order, once each, and   *)
(* misses none but those dropped while his own channel was full, whatever  *)
(* the others do and whenever they come and go (Publish, sse.go).          *)
(***************************************************************************)
THEOREM GapsCorrect == Spec => []GapsAreOwnDrops
<1>1. WholeInv => GapsAreOwnDrops
    BY WatchersAreServed DEF WholeInv, Inv
<1>. QED
    BY <1>1, SpecWhole, PTL

(***************************************************************************)
(* The server process implements Outbox: neither the announcements nor a   *)
(* shutdown, a kill or a restart in the middle of a batch show.            *)
(***************************************************************************)
THEOREM PromiseCorrect == Spec => KeepsPromise
<1>1. Init => Relay!Promise!Init
    BY SameInit, SamePromise DEF Init, Relay!Init, Relay!Promise!Init
<1>2. WholeInv /\ [Next]_vars => [Relay!Promise!Next]_R!promised
    BY RelayInvStep, SamePromise DEF WholeInv
<1>. QED
    BY <1>1, <1>2, SpecWhole, PTL
        DEF Spec, KeepsPromise, Relay!KeepsPromise, Relay!Promise!Spec, R!promised

=============================================================================
