----------------------------- MODULE ExecStream -----------------------------
(***************************************************************************)
(* One process followed end to end: the tasks of LocalProcess on the       *)
(* server, the connection, the client that restores the order of its       *)
(* notifications (exec-server/src/client.rs), the bounded event log        *)
(* (exec-server/src/process.rs), and the MCP stdio transport that consumes *)
(* it (rmcp-client/src/executor_process_transport.rs) and, when it lags,   *)
(* catches up with process/read.                                           *)
(*                                                                         *)
(* The server's steps are those of LocalProcess; its outgoing queue is the *)
(* connection.  The server's notifications are well formed.               *)
(***************************************************************************)
EXTENDS LocalProcess, OrderedEvents

CONSTANTS
  LogCapacity      \* PROCESS_EVENT_CHANNEL_CAPACITY, in events

ASSUME LogCapacityAssumption == LogCapacity \in Nat \ {0}
ASSUME OneProcessAssumption == Pids # {} /\ Gens # {}

VARIABLES
  link,        \* up, down (events still queued) or drained
  last,        \* last_published_seq
  pending,     \* early events
  ready,       \* events released and still to be published
  published,   \* the numbers of the events published on the event log
  wake,        \* wake_tx: the highest number noted, one more for a failure
  failure,     \* SessionState.failure is Some
  subscribed,  \* the consumer has called subscribe_events
  replay,      \* the history before subscription, the replay after it
  evicted,     \* the history dropped an event before subscription
  live,        \* the broadcast channel, as this consumer sees it
  lagged,      \* the channel has overwritten events the consumer missed
  consumer     \* the transport

log == <<published, replay, evicted, live, lagged>>
client == <<link, last, pending, ready, wake, failure, subscribed, log>>
svars == <<vars, client, consumer>>

P == CHOOSE p \in Pids : TRUE
G == CHOOSE g \in Gens : TRUE

\* Events travel by their number; Failed is the one that has none.
Failed == 0

NoAnswer == [chunks |-> <<>>, next |-> 0, closed |-> FALSE]

SInit ==
  /\ Init
  /\ link = "up" /\ last = 0 /\ pending = {} /\ ready = <<>> /\ published = <<>>
  /\ wake = 0 /\ failure = FALSE /\ subscribed = FALSE
  /\ replay = <<>> /\ evicted = FALSE /\ live = <<>> /\ lagged = FALSE
  /\ consumer = [at |-> "recv", last_seq |-> 0, got |-> <<>>, closed |-> FALSE,
                 failed |-> FALSE, answer |-> NoAnswer]

ServerStep ==
  /\ \/ StartProcess(P) \/ SpawnSucceeds(P, G) \/ TerminateProcess(P)
     \/ WatchExit(G) \/ RetentionElapses(G)
     \/ \E t \in Tasks : TaskStep(G, t)
  /\ UNCHANGED <<client, consumer>>

\* The connection is lost: what was not read from it is gone, and the server
\* detaches the session.
Disconnect ==
  /\ link = "up"
  /\ link' = "down"
  /\ \E n \in 0 .. Len(out) : out' = SubSeq(out, 1, n)
  /\ sender' = FALSE
  /\ UNCHANGED <<entry, spawning, of, run, events, task, note, left, timers, killed, shut, reader,
                 last, pending, ready, wake, failure, subscribed, log, consumer>>

(***************************************************************************)
(* The event log: a bounded history that a new subscriber replays, and a   *)
(* bounded channel that overwrites what a slow subscriber has not read.    *)
(* The history is bounded in bytes too, so that it may drop its oldest     *)
(* events, though never the one it adds, before it holds LogCapacity.      *)
(***************************************************************************)
Bounded(s) == IF Len(s) > LogCapacity THEN Tail(s) ELSE s

Log(event) ==
  /\ published' = IF event = Failed THEN published ELSE Append(published, event)
  /\ \/ /\ subscribed
        /\ live' = Bounded(Append(live, event))
        /\ lagged' = (lagged \/ Len(live) = LogCapacity)
        /\ UNCHANGED <<replay, evicted>>
     \/ /\ ~subscribed /\ Len(replay) < LogCapacity
        /\ replay' = Append(replay, event)
        /\ UNCHANGED <<live, lagged, evicted>>
     \/ /\ ~subscribed
        /\ \E n \in 1 .. Len(replay) :
             replay' = SubSeq(Append(replay, event), n + 1, Len(replay) + 1)
        /\ evicted' = TRUE
        /\ UNCHANGED <<live, lagged>>

Subscribe ==
  /\ ~subscribed
  /\ subscribed' = TRUE
  /\ UNCHANGED <<vars, link, last, pending, ready, wake, failure, log, consumer>>

(***************************************************************************)
(* The client's reader task: handle_server_notification, one at a time.    *)
(***************************************************************************)
MaxOf(a, b) == IF a > b THEN a ELSE b

HandleNotification ==
  /\ link # "drained" /\ out # <<>> /\ ready = <<>>
  /\ LET seq == Head(out).seq
         end == Releases(last, pending, seq)
     IN /\ ready' = [i \in 1 .. (IF end > last THEN end - last ELSE 0) |-> last + i]
        /\ last' = end
        /\ pending' = StillPending(last, pending, seq)
        /\ wake' = MaxOf(wake, seq)
  /\ out' = Tail(out)
  /\ UNCHANGED <<entry, spawning, of, run, events, task, note, left, timers, killed, sender, shut, reader,
                 link, failure, subscribed, log, consumer>>

PublishReady ==
  /\ ready # <<>>
  /\ Log(Head(ready))
  /\ ready' = Tail(ready)
  /\ UNCHANGED <<vars, link, last, pending, wake, failure, subscribed, consumer>>

Kind(seq) == events[G][seq].kind

PublishedClosed == \E i \in DOMAIN published : Kind(published[i]) = "closed"

\* set_failure publishes Failed once per session and wakes the pollers each
\* time.
SetFailure ==
  /\ failure' = TRUE
  /\ wake' = wake + 1
  /\ IF failure THEN UNCHANGED log ELSE Log(Failed)

\* Mutant: only the connection is marked; its sessions are not failed.
ReaderDrainsQuietly ==
  /\ link = "down" /\ out = <<>> /\ ready = <<>>
  /\ link' = "drained"
  /\ UNCHANGED <<vars, last, pending, ready, wake, failure, subscribed, log, consumer>>

\* Disconnected is the last event of the queue: the sessions still routed
\* fail; a session whose Closed was published is routed no more.
ReaderDrains ==
  /\ link = "down" /\ out = <<>> /\ ready = <<>>
  /\ link' = "drained"
  /\ IF PublishedClosed THEN UNCHANGED <<wake, failure, log>> ELSE SetFailure
  /\ UNCHANGED <<vars, last, pending, ready, subscribed, consumer>>

(***************************************************************************)
(* The consumer: receive_message, should_accept_seq, note_seq and          *)
(* recover_lagged_events.                                                  *)
(***************************************************************************)
\* Mutant: the stream ends with the exit of the process.
ReceiveEndsOnExit(c, event) ==
  IF event = Failed THEN [c EXCEPT !.closed = TRUE, !.failed = TRUE]
  ELSE [c EXCEPT
          !.got = IF Kind(event) = "output" /\ event > c.last_seq THEN Append(@, event) ELSE @,
          !.last_seq = MaxOf(@, event),
          !.closed = Kind(event) # "output"]

Receive(c, event) ==
  IF event = Failed THEN [c EXCEPT !.closed = TRUE, !.failed = TRUE]
  ELSE [c EXCEPT
          !.got = IF Kind(event) = "output" /\ event > c.last_seq THEN Append(@, event) ELSE @,
          !.last_seq = MaxOf(@, event),
          !.closed = Kind(event) = "closed"]

Recv ==
  /\ subscribed /\ consumer.at = "recv" /\ ~consumer.closed
  /\ \/ /\ replay # <<>>
        /\ consumer' = Receive(consumer, Head(replay))
        /\ replay' = Tail(replay)
        /\ UNCHANGED <<live, lagged>>
     \/ /\ replay = <<>> /\ lagged
        /\ consumer' = [consumer EXCEPT !.at = "lagged"]
        /\ lagged' = FALSE
        /\ UNCHANGED <<replay, live>>
     \/ /\ replay = <<>> /\ ~lagged /\ live # <<>>
        /\ consumer' = Receive(consumer, Head(live))
        /\ live' = Tail(live)
        /\ UNCHANGED <<replay, lagged>>
  /\ UNCHANGED <<vars, link, last, pending, ready, wake, published, failure, subscribed, evicted>>

\* The server answers the recovery read from its table.
RecoverRead ==
  /\ consumer.at = "lagged" /\ link = "up"
  /\ consumer' =
       IF entry[P] = G
       THEN LET chunks == Newer(G, consumer.last_seq)
            IN [consumer EXCEPT !.at = "answer",
                  !.answer = [chunks |-> chunks, next |-> NextSeq(G, chunks), closed |-> run[G].closed]]
       ELSE [consumer EXCEPT !.at = "recv", !.closed = TRUE, !.failed = TRUE]
  /\ UNCHANGED <<vars, client>>

\* Session::read on a closed transport fails the session by itself, unless it
\* finds it failed before it asks; the answer it makes up carries the wake
\* number, to which the cursor goes, chunks the consumer lacks or not.
RecoverFails ==
  /\ consumer.at \in {"lagged", "answer"} /\ link # "up"
  /\ IF consumer.at = "lagged" /\ failure THEN UNCHANGED <<wake, failure, log>> ELSE SetFailure
  /\ consumer' = [consumer EXCEPT !.at = "recv", !.closed = TRUE, !.failed = TRUE, !.answer = NoAnswer,
                                  !.last_seq = MaxOf(@, wake')]
  /\ UNCHANGED <<vars, link, last, pending, ready, subscribed>>

\* Mutant: the cursor is not advanced past what the answer covered.
RecoverApplyKeepsCursor ==
  /\ consumer.at = "answer"
  /\ LET a == consumer.answer
     IN consumer' = [consumer EXCEPT !.at = "recv", !.answer = NoAnswer,
                       !.got = @ \o a.chunks,
                       !.closed = a.closed]
  /\ UNCHANGED <<vars, client>>

RecoverApply ==
  /\ consumer.at = "answer"
  /\ LET a == consumer.answer
     IN consumer' = [consumer EXCEPT !.at = "recv", !.answer = NoAnswer,
                       !.got = @ \o After(a.chunks, consumer.last_seq),
                       !.last_seq = MaxOf(@, a.next - 1),
                       !.closed = a.closed]
  /\ UNCHANGED <<vars, client>>

SNext ==
  \/ ServerStep
  \/ Disconnect
  \/ Subscribe
  \/ HandleNotification
  \/ PublishReady
  \/ ReaderDrains
  \/ Recv
  \/ RecoverRead
  \/ RecoverFails
  \/ RecoverApply

SSpec == SInit /\ [][SNext]_svars

SFairness ==
  /\ WF_svars(Subscribe)
  /\ WF_svars(HandleNotification)
  /\ WF_svars(PublishReady)
  /\ WF_svars(ReaderDrains)
  /\ WF_svars(Recv)
  /\ WF_svars(RecoverRead \/ RecoverFails \/ RecoverApply)
  /\ WF_svars(G \in killed /\ WatchExit(G) /\ UNCHANGED <<client, consumer>>)
  /\ \A t \in Tasks :
       /\ WF_svars(G \in killed /\ StreamEof(G, t) /\ UNCHANGED <<client, consumer>>)
       /\ SF_svars(Notify(G, t) /\ UNCHANGED <<client, consumer>>)
       /\ WF_svars((FinishOutputStream(G, t) \/ MaybeEmitClosed(G, t)) /\ UNCHANGED <<client, consumer>>)

SFairSpec == SSpec /\ SFairness

(***************************************************************************)
(* Properties.                                                             *)
(***************************************************************************)
Delivered == INSTANCE EventFeed WITH feed <- [i \in DOMAIN published |-> Kind(published[i])]

\* What the client publishes implements the abstract feed: Closed comes last
\* although it is sent by whichever server task ends last, unordered with the
\* tail of the output (publish_ordered_event).
DeliveredFeed == Delivered!Spec

\* The client publishes the server's events in order, without a gap and
\* without a repetition, although stdout, stderr and exit notifications race.
PublishedInOrder == \A i \in DOMAIN published : published[i] = i

\* The consumer has, in order and once, every chunk up to its cursor that the
\* server still retains, unless its stream failed: the answer made up for a lost
\* connection moves the cursor past what it has.
NoGap ==
  /\ Increasing(consumer.got)
  /\ ~consumer.failed =>
       \A seq \in Retained(G) :
         seq <= consumer.last_seq => \E i \in DOMAIN consumer.got : consumer.got[i] = seq

\* No gap goes unnoticed across lag, recovery reads that overtake notifications,
\* and late replays (recover_lagged_events).  A consumer that subscribed after
\* the history had dropped events is excepted: nothing tells it of them.
NoSilentGap == ~evicted => NoGap

\* End of stream means end of output: a consumer told that the process closed,
\* with no failure, has all of it, through reordering and recovery.  It is about
\* a process that writes no more than the server retains (MaxChunks is at most
\* RetainedChunks) and a consumer that subscribed before the history dropped
\* an event.
ClosedMeansComplete ==
  consumer.closed /\ ~consumer.failed /\ ~evicted =>
    /\ run[G].closed
    /\ Len(consumer.got) = Cardinality({i \in DOMAIN events[G] : events[G][i].kind = "output"})

\* A consumer is never left hanging: once the process is terminated or the
\* connection is lost, its stream ends.
StreamEnds == (G \in killed \/ link # "up") ~> consumer.closed

(***************************************************************************)
(* The inductive invariant behind them.                                    *)
(***************************************************************************)
\* The one process is G, and only numbers of its events travel.
NumberInv ==
  LET Note == [gen : Gens \union {None}, seq : 0 .. Len(events[G])]
  IN /\ \A h \in Gens : h # G => of[h] = None
     /\ DOMAIN note = Gens /\ note[G] \in [Tasks -> Note]
     /\ out \in Seq(Note)

\* What was released is published, or ready to be, in the order of the numbers.
OrderInv ==
  /\ last \in 0 .. Len(events[G]) /\ wake \in Nat
  /\ pending \subseteq (last + 1) .. Len(events[G])
  /\ ready \in Seq(Nat) /\ published \in Seq(Nat) /\ last = Len(published) + Len(ready)
  /\ \A i \in DOMAIN ready : ready[i] = Len(published) + i
  /\ PublishedInOrder

\* The position of an event in a log of n numbered events, which Failed ends.
Position(event, n) == IF event = Failed THEN n + 1 ELSE event

Top == IF failure THEN Len(published) + 1 ELSE Len(published)

\* The events logged so far.
Items == (IF failure THEN Failed ELSE 1) .. Len(published)

\* How much of the log the consumer can no longer receive.
Gone == Top - Len(live) - Len(replay)

ChannelInv ==
  /\ failure \in BOOLEAN /\ subscribed \in BOOLEAN /\ lagged \in BOOLEAN
  /\ live \in Seq(Items) /\ replay \in Seq(Items)
  /\ Len(live) <= LogCapacity /\ (lagged => live # <<>>)
  /\ ~subscribed => live = <<>> /\ ~consumer.closed

\* The channel holds the newest events of the log, and a replay continues at
\* the cursor.
PositionInv ==
  /\ failure => link = "drained" /\ ready = <<>> /\ (live # <<>> \/ replay # <<>>)
  /\ \A i \in DOMAIN live : Position(live[i], Len(published)) = Top - Len(live) + i
  /\ replay # <<>> \/ ~subscribed =>
       /\ consumer.at = "recv"
       /\ \A i \in DOMAIN replay : Position(replay[i], Len(published)) = consumer.last_seq + i
       /\ ~lagged => Gone = consumer.last_seq

Answer == [chunks : Seq(Nat), next : Nat, closed : BOOLEAN]

\* s is a sequence of outputs of the process, in order.
Outputs(s) == Increasing(s) /\ \A i \in DOMAIN s : s[i] \in DOMAIN events[G] /\ Kind(s[i]) = "output"

\* What the consumer has, and that what it lacks is still to come or known to
\* be lost.
CursorInv ==
  /\ consumer \in [at : {"recv", "lagged", "answer"}, last_seq : Nat, got : Seq(Nat),
                   closed : BOOLEAN, failed : BOOLEAN, answer : Answer]
  /\ ~consumer.failed => consumer.last_seq <= Len(events[G])
  /\ consumer.failed => consumer.closed
  /\ Outputs(consumer.got) /\ \A i \in DOMAIN consumer.got : consumer.got[i] <= consumer.last_seq
  /\ NoGap
  /\ consumer.closed => consumer.at = "recv"
  /\ consumer.closed /\ ~consumer.failed =>
       run[G].closed /\ \A seq \in Retained(G) : seq <= consumer.last_seq
  /\ ~consumer.closed /\ consumer.at = "recv" /\ ~lagged =>
       \A seq \in Retained(G) : seq <= consumer.last_seq \/ seq > Gone

\* An answer to a recovery read closes the gap up to its next number, whatever
\* happens before it is applied.
AnswerInv ==
  consumer.at = "answer" =>
    LET a == consumer.answer
    IN /\ Outputs(a.chunks) /\ a.next \in 1 .. run[G].next_seq
       /\ \A i \in DOMAIN a.chunks : a.chunks[i] > consumer.last_seq /\ a.chunks[i] < a.next
       /\ a.closed => run[G].closed
       /\ \A seq \in Retained(G) :
            /\ seq <= consumer.last_seq \/ seq >= a.next \/ \E i \in DOMAIN a.chunks : a.chunks[i] = seq
            /\ seq < a.next \/ ~a.closed
            /\ seq < a.next \/ lagged \/ seq > Gone

StreamInv ==
  /\ ProcInv /\ OutputInv /\ ShapeInv /\ NumberInv /\ OrderInv
  /\ ~evicted => ChannelInv /\ (~consumer.closed => PositionInv) /\ CursorInv /\ AnswerInv

\* While nothing is evicted, everything written is retained.
CompleteInv ==
  /\ left \in [Gens -> Nat] /\ Len(run[G].output) + left[G] <= MaxChunks
  /\ \A i \in DOMAIN events[G] : Kind(i) = "output" => i \in Retained(G)
=============================================================================
