---------------------------- MODULE LocalProcess ----------------------------
(***************************************************************************)
(* The process table of one exec-server session                            *)
(* (exec-server/src/local_process.rs).  Each started process has three     *)
(* tasks: two that pump an output stream and one that waits for the exit.  *)
(* They share the table through process ids only, so a task of a process   *)
(* that is gone acts on whatever runs under its id by then.  Events are    *)
(* numbered and logged under the table lock; the notification for an event *)
(* is sent after the lock is released.                                     *)
(*                                                                         *)
(* A chunk counts as one unit: reads of a pipe are far smaller than the    *)
(* retention limit.  The process group is external.  The long poll of      *)
(* exec_read is abstracted to its outcome: a read answers from one look at *)
(* the table, since its deadline may pass at any time.                     *)
(***************************************************************************)
EXTENDS Integers, Sequences, FiniteSets

CONSTANTS
  Pids,             \* process ids chosen by the client
  Gens,             \* RunningProcess objects: one per successful start
  MaxChunks,        \* bound: chunks a process writes to its two streams
  RetainedChunks,   \* RETAINED_OUTPUT_BYTES_PER_PROCESS, in chunks
  MaxBytes,         \* the max_bytes parameters a reader uses, in chunks
  OutCapacity,      \* CHANNEL_CAPACITY of the connection's outgoing queue
  None

ASSUME BoundsAssumption ==
  /\ MaxChunks \in Nat
  /\ RetainedChunks \in Nat \ {0}
  /\ OutCapacity \in Nat \ {0}
  /\ MaxBytes \subseteq Nat
ASSUME NoneAssumption == None \notin Pids \union Gens
ASSUME EntryAssumption == "absent" \notin Gens /\ "starting" \notin Gens

VARIABLES
  entry,      \* Inner.processes: absent, starting or the process object
  spawning,   \* ids whose start_process awaits the spawn
  of,         \* the id each process object was started under
  run,        \* the RunningProcess fields the table lock protects
  events,     \* the events published for it, and the process they are about
  task,       \* where each task of each process stands
  note,       \* the notification a task holds while it awaits the send
  left,       \* chunks each process may still write
  timers,     \* retention timers: the processes that spawned them
  killed,     \* processes whose session was terminated
  sender,     \* Inner.notifications is Some
  out,        \* notifications queued for the connection
  shut,       \* shutdown has drained the table
  reader      \* a client that follows one process with exec_read

vars == <<entry, spawning, of, run, events, task, note, left, timers, killed,
          sender, out, shut, reader>>

Streams == {"stdout", "stderr"}
Tasks   == Streams \union {"exit"}
Labels  == {"none", "run", "notify", "finish", "close", "notify_closed", "done"}

Fresh == [next_seq |-> 1, output |-> <<>>, exited |-> FALSE, open |-> 2, closed |-> FALSE]

NoNote == [gen |-> None, seq |-> 0]

NoReader == [gen |-> None, after |-> 0, got |-> <<>>, closed |-> FALSE]

Init ==
  /\ entry = [p \in Pids |-> "absent"]
  /\ spawning = {}
  /\ of = [g \in Gens |-> None]
  /\ run = [g \in Gens |-> Fresh]
  /\ events = [g \in Gens |-> <<>>]
  /\ task = [g \in Gens |-> [t \in Tasks |-> "none"]]
  /\ note = [g \in Gens |-> [t \in Tasks |-> NoNote]]
  /\ left = [g \in Gens |-> MaxChunks]
  /\ timers = {}
  /\ killed = {}
  /\ sender = TRUE
  /\ out = <<>>
  /\ shut = FALSE
  /\ reader = NoReader

Goto(g, t, label) == task' = [task EXCEPT ![g][t] = label]

\* The RunningProcess a task of g finds when it looks its id up.
Lookup(g) == entry[of[g]]

(***************************************************************************)
(* start_process: reserve the id, spawn without the lock, then install the *)
(* process.  The caller may drop the future while it awaits (run_connection*)
(* does when the transport goes down): the reservation then stays behind.  *)
(***************************************************************************)
StartProcess(p) ==
  /\ ~shut
  /\ entry[p] = "absent"
  /\ entry' = [entry EXCEPT ![p] = "starting"]
  /\ spawning' = spawning \union {p}
  /\ UNCHANGED <<of, run, events, task, note, left, timers, killed, sender, out, shut, reader>>

SpawnFails(p) ==
  /\ p \in spawning
  /\ spawning' = spawning \ {p}
  /\ entry' = IF entry[p] = "starting" THEN [entry EXCEPT ![p] = "absent"] ELSE entry
  /\ UNCHANGED <<of, run, events, task, note, left, timers, killed, sender, out, shut, reader>>

SpawnSucceeds(p, g) ==
  /\ p \in spawning
  /\ of[g] = None
  /\ spawning' = spawning \ {p}
  /\ of' = [of EXCEPT ![g] = p]
  /\ entry' = [entry EXCEPT ![p] = g]
  /\ task' = [task EXCEPT ![g] = [t \in Tasks |-> "run"]]
  /\ UNCHANGED <<run, events, note, left, timers, killed, sender, out, shut, reader>>

CancelStart(p) ==
  /\ p \in spawning
  /\ spawning' = spawning \ {p}
  /\ UNCHANGED <<entry, of, run, events, task, note, left, timers, killed, sender, out, shut, reader>>

(***************************************************************************)
(* Publishing an event about process g on the object the table holds.      *)
(***************************************************************************)
Publish(g, e, kind, fields) ==
  /\ run' = [run EXCEPT ![e] = [fields EXCEPT !.next_seq = @ + 1]]
  /\ events' = [events EXCEPT ![e] = Append(@, [kind |-> kind, seq |-> run[e].next_seq, src |-> g])]

\* Oldest chunks are evicted once the retained output exceeds its limit.
Retain(output, seq) ==
  IF Len(output) = RetainedChunks THEN Append(Tail(output), seq) ELSE Append(output, seq)

\* stream_output: one chunk, recorded and announced to local subscribers.
StreamOutput(g, t) ==
  /\ t \in Streams /\ task[g][t] = "run" /\ left[g] > 0
  /\ LET e == Lookup(g) IN
     IF e \in Gens
     THEN /\ Publish(g, e, "output",
                     [run[e] EXCEPT !.output = Retain(@, run[e].next_seq)])
          /\ note' = [note EXCEPT ![g][t] = [gen |-> e, seq |-> run[e].next_seq]]
          /\ left' = [left EXCEPT ![g] = @ - 1]
          /\ Goto(g, t, "notify")
     ELSE Goto(g, t, "finish") /\ UNCHANGED <<run, events, note, left>>
  /\ UNCHANGED <<entry, spawning, of, timers, killed, sender, out, shut, reader>>

StreamEof(g, t) ==
  /\ t \in Streams /\ task[g][t] = "run"
  /\ Goto(g, t, "finish")
  /\ UNCHANGED <<entry, spawning, of, run, events, note, left, timers, killed, sender, out, shut, reader>>

\* Sending is skipped without a sender and waits while the queue is full.
Send(n) ==
  /\ sender => Len(out) < OutCapacity
  /\ out' = IF sender THEN Append(out, n) ELSE out

\* The notification of an output, exit or closed event, sent without the lock.
Notify(g, t) ==
  /\ task[g][t] \in {"notify", "notify_closed"}
  /\ Send(note[g][t])
  /\ Goto(g, t, IF task[g][t] = "notify_closed" THEN "done"
                ELSE IF t = "exit" THEN "close" ELSE "run")
  /\ note' = [note EXCEPT ![g][t] = NoNote]
  /\ UNCHANGED <<entry, spawning, of, run, events, left, timers, killed, sender, shut, reader>>

\* The connection's outbound task takes the next message off the queue.
Transmit ==
  /\ out # <<>>
  /\ out' = Tail(out)
  /\ UNCHANGED <<entry, spawning, of, run, events, task, note, left, timers, killed, sender, shut, reader>>

WatchExit(g) ==
  /\ task[g]["exit"] = "run"
  /\ LET e == Lookup(g) IN
     IF e \in Gens
     THEN /\ Publish(g, e, "exited", [run[e] EXCEPT !.exited = TRUE])
          /\ note' = [note EXCEPT ![g]["exit"] = [gen |-> e, seq |-> run[e].next_seq]]
          /\ Goto(g, "exit", "notify")
     ELSE Goto(g, "exit", "close") /\ UNCHANGED <<run, events, note>>
  /\ UNCHANGED <<entry, spawning, of, left, timers, killed, sender, out, shut, reader>>

\* Mutant: the end of a stream is not counted.
FinishOutputStreamUncounted(g, t) ==
  /\ t \in Streams /\ task[g][t] = "finish"
  /\ Goto(g, t, IF Lookup(g) \in Gens THEN "close" ELSE "done")
  /\ UNCHANGED <<entry, spawning, of, run, events, note, left, timers, killed, sender, out, shut, reader>>

FinishOutputStream(g, t) ==
  /\ t \in Streams /\ task[g][t] = "finish"
  /\ LET e == Lookup(g) IN
     IF e \in Gens
     THEN /\ run' = [run EXCEPT ![e].open = IF @ > 0 THEN @ - 1 ELSE 0]
          /\ Goto(g, t, "close")
     ELSE Goto(g, t, "done") /\ UNCHANGED run
  /\ UNCHANGED <<entry, spawning, of, events, note, left, timers, killed, sender, out, shut, reader>>

\* Mutant: the process is closed while a stream is still open.
ClosableEarly(e) == ~run[e].closed /\ run[e].exited

\* Mutant: whether Closed was emitted already is not checked.
ClosableAgain(e) == run[e].open = 0 /\ run[e].exited

Closable(e) == ~run[e].closed /\ run[e].open = 0 /\ run[e].exited

\* Every task ends here; the one that finds everything finished emits Closed
\* and starts the retention timer.
MaybeEmitClosed(g, t) ==
  /\ task[g][t] = "close"
  /\ LET e == Lookup(g) IN
     IF e \in Gens /\ Closable(e)
     THEN /\ Publish(g, e, "closed", [run[e] EXCEPT !.closed = TRUE])
          /\ note' = [note EXCEPT ![g][t] = [gen |-> e, seq |-> run[e].next_seq]]
          /\ timers' = timers \union {g}
          /\ Goto(g, t, "notify_closed")
     ELSE Goto(g, t, "done") /\ UNCHANGED <<run, events, note, timers>>
  /\ UNCHANGED <<entry, spawning, of, left, killed, sender, out, shut, reader>>

\* EXITED_PROCESS_RETENTION after Closed the id becomes free again.
RetentionElapses(g) ==
  /\ g \in timers
  /\ timers' = timers \ {g}
  /\ LET e == Lookup(g) IN
     entry' = IF e \in Gens /\ run[e].closed THEN [entry EXCEPT ![of[g]] = "absent"] ELSE entry
  /\ UNCHANGED <<spawning, of, run, events, task, note, left, killed, sender, out, shut, reader>>

(***************************************************************************)
(* The other calls on the table.                                           *)
(***************************************************************************)
TerminateProcess(p) ==
  /\ entry[p] \in Gens /\ ~run[entry[p]].exited
  /\ killed' = killed \union {entry[p]}
  /\ UNCHANGED <<entry, spawning, of, run, events, task, note, left, timers, sender, out, shut, reader>>

\* A session expires only while no connection is attached, and a connection
\* detaches only between requests: no start is in flight (SessionRegistry).
Shutdown ==
  /\ ~shut /\ spawning = {}
  /\ shut' = TRUE
  /\ killed' = killed \union {g \in Gens : \E p \in Pids : entry[p] = g}
  /\ entry' = [p \in Pids |-> "absent"]
  /\ UNCHANGED <<spawning, of, run, events, task, note, left, timers, sender, out, reader>>

SetNotificationSender ==
  /\ ~shut
  /\ sender' = ~sender
  /\ UNCHANGED <<entry, spawning, of, run, events, task, note, left, timers, killed, out, shut, reader>>

(***************************************************************************)
(* exec_read with a cursor: the retained chunks after it, at least one,    *)
(* up to max_bytes; the next cursor is next_seq - 1.                       *)
(***************************************************************************)
\* The chunks of s after a cursor.  Chunks are kept in the order of their
\* numbers, so these are its last ones.
After(s, n) == SubSeq(s, Cardinality({i \in DOMAIN s : s[i] <= n}) + 1, Len(s))

Newer(g, after) == After(run[g].output, after)

Chunks(g, after, max) ==
  LET newer == Newer(g, after)
      n     == IF max = 0 THEN 1 ELSE max
  IN SubSeq(newer, 1, IF Len(newer) < n THEN Len(newer) ELSE n)

\* Mutant: the cursor skips to the end although the answer was truncated.
NextSeqOfAll(g, chunks) == run[g].next_seq

NextSeq(g, chunks) ==
  IF chunks = <<>> THEN run[g].next_seq ELSE chunks[Len(chunks)] + 1

Follow(p) ==
  /\ reader = NoReader /\ MaxBytes # {}
  /\ entry[p] \in Gens
  /\ reader' = [NoReader EXCEPT !.gen = entry[p]]
  /\ UNCHANGED <<entry, spawning, of, run, events, task, note, left, timers, killed, sender, out, shut>>

\* An answer says whether the process is closed, also when max_bytes cut it:
\* only an empty one of a closed process is the end.  exec_read looks the id up;
\* the client, who chooses the ids, stops following one that it uses again.
ExecRead(max) ==
  /\ reader.gen # None /\ ~reader.closed
  /\ LET g      == reader.gen
         chunks == Chunks(g, reader.after, max)
     IN /\ Lookup(g) = g
        /\ reader' = [reader EXCEPT
                        !.got = @ \o chunks,
                        !.after = NextSeq(g, chunks) - 1,
                        !.closed = run[g].closed /\ chunks = <<>>]
  /\ UNCHANGED <<entry, spawning, of, run, events, task, note, left, timers, killed, sender, out, shut>>

TaskStep(g, t) ==
  \/ StreamOutput(g, t)
  \/ StreamEof(g, t)
  \/ Notify(g, t)
  \/ FinishOutputStream(g, t)
  \/ MaybeEmitClosed(g, t)

Next ==
  \/ \E p \in Pids :
       \/ StartProcess(p) \/ SpawnFails(p) \/ CancelStart(p)
       \/ TerminateProcess(p) \/ Follow(p)
       \/ \E g \in Gens : SpawnSucceeds(p, g)
  \/ \E g \in Gens : WatchExit(g) \/ RetentionElapses(g) \/ \E t \in Tasks : TaskStep(g, t)
  \/ \E max \in MaxBytes : ExecRead(max)
  \/ Shutdown
  \/ SetNotificationSender
  \/ Transmit

Spec == Init /\ [][Next]_vars

\* A terminated process exits and its pipes close; tasks are polled until
\* they end and timers fire.
Fairness ==
  /\ WF_vars(Transmit)
  /\ \A g \in Gens :
       /\ WF_vars(g \in killed /\ WatchExit(g))
       /\ WF_vars(RetentionElapses(g))
       /\ \A t \in Tasks :
            /\ WF_vars(g \in killed /\ StreamEof(g, t))
            /\ SF_vars(Notify(g, t))
            /\ WF_vars(FinishOutputStream(g, t) \/ MaybeEmitClosed(g, t))

FairSpec == Spec /\ Fairness

(***************************************************************************)
(* Properties.                                                             *)
(***************************************************************************)
Record == [next_seq : Nat, output : Seq(Nat), exited : BOOLEAN, open : 0 .. 2, closed : BOOLEAN]

Event == [kind : {"output", "exited", "closed"}, seq : Nat, src : Gens]

TypeOK ==
  /\ entry \in [Pids -> {"absent", "starting"} \union Gens]
  /\ spawning \subseteq Pids
  /\ of \in [Gens -> Pids \union {None}]
  /\ run \in [Gens -> Record]
  /\ events \in [Gens -> Seq(Event)]
  /\ task \in [Gens -> [Tasks -> Labels]]
  /\ timers \subseteq Gens /\ killed \subseteq Gens
  /\ sender \in BOOLEAN /\ shut \in BOOLEAN

\* Tasks find their process by id, and ids are reused after retention: still
\* no output and no exit is ever recorded on another process than the one it
\* came from (stream_output, watch_exit).  A slow task may emit the Closed of
\* a later process with its id; Closed depends on that process alone.
OutputBelongsToProcess ==
  \A g \in Gens : \A i \in DOMAIN events[g] :
    events[g][i].kind # "closed" => events[g][i].src = g

\* The tasks of g that still have something of g to record.
StreamActive(g, t) == task[g][t] \in {"run", "notify", "finish"}

Active(g) == task[g]["exit"] = "run" \/ \E t \in Streams : StreamActive(g, t)

Count(b) == IF b THEN 1 ELSE 0

\* Ids stay with the process while it has something to record: the table is
\* emptied only by a shutdown, after which nothing starts.
TableInv ==
  /\ \A p \in spawning : entry[p] = "starting"
  /\ shut => \A p \in Pids : entry[p] = "absent"
  /\ \A p \in Pids : entry[p] \in Gens => of[entry[p]] = p
  /\ \A g \in Gens : of[g] # None /\ Active(g) => shut \/ entry[of[g]] = g

\* What RunningProcess records about g is where the tasks of g stand.
RecordInv ==
  \A g \in Gens :
    /\ run[g].closed => run[g].open = 0 /\ run[g].exited
    /\ of[g] = None =>
         run[g] = Fresh /\ events[g] = <<>> /\ g \notin timers /\ task[g] = [t \in Tasks |-> "none"]
    /\ of[g] # None /\ ~shut =>
         /\ run[g].open = Count(StreamActive(g, "stdout")) + Count(StreamActive(g, "stderr"))
         /\ run[g].exited <=> task[g]["exit"] # "run"

\* The log of g tells what its record tells.
LogInv ==
  \A g \in Gens :
    /\ run[g].exited <=> \E i \in DOMAIN events[g] : events[g][i].kind = "exited"
    /\ run[g].closed <=> \E i \in DOMAIN events[g] : events[g][i].kind = "closed"

\* Events are numbered from 1 without a gap, in the order they are published;
\* the client's ordering and every read cursor rely on it.
SeqsContiguous ==
  \A g \in Gens :
    /\ \A i \in DOMAIN events[g] : events[g][i].seq = i
    /\ run[g].next_seq = Len(events[g]) + 1

\* The inductive invariant behind the properties above and below: a task that
\* finds a process under its id while it still has something to record has
\* found its own (stream_output, watch_exit, finish_output_stream).
ProcInv == TypeOK /\ TableInv /\ RecordInv /\ LogInv /\ OutputBelongsToProcess /\ SeqsContiguous

Increasing(s) == \A i, j \in DOMAIN s : i < j => s[i] < s[j]

\* The chunks of g that are still retained.
Retained(g) == {run[g].output[i] : i \in DOMAIN run[g].output}

\* One Exited, and nothing after Closed, which follows it.
ShapeInv ==
  \A g \in Gens : \A i \in DOMAIN events[g] :
    /\ events[g][i].kind = "closed" =>
         i = Len(events[g]) /\ \E j \in 1 .. i - 1 : events[g][j].kind = "exited"
    /\ events[g][i].kind = "exited" =>
         \A j \in DOMAIN events[g] : events[g][j].kind = "exited" => j = i

\* Retained chunks are output events of the log, in its order.
OutputInv ==
  \A g \in Gens :
    /\ Increasing(run[g].output)
    /\ \A seq \in Retained(g) : seq \in DOMAIN events[g] /\ events[g][seq].kind = "output"

\* A client that follows next_seq gets chunks in order, each once, and misses
\* only what retention evicted before it asked, also when max_bytes cuts its
\* answers short and the process exits or closes meanwhile (exec_read).
ReaderMissesNothing ==
  reader.gen # None =>
    /\ Increasing(reader.got)
    /\ \A seq \in Retained(reader.gen) :
         seq <= reader.after \/ reader.closed => \E i \in DOMAIN reader.got : reader.got[i] = seq

\* The inductive invariant behind it: the cursor lies before the next number,
\* and nothing is published any more once the reader was told of the end.
ReaderInv ==
  /\ OutputInv
  /\ reader \in [gen : Gens \union {None}, after : Nat, got : Seq(Nat), closed : BOOLEAN]
  /\ reader.gen # None =>
       /\ reader.after < run[reader.gen].next_seq
       /\ reader.closed => run[reader.gen].closed
       /\ \A i \in DOMAIN reader.got : reader.got[i] <= reader.after
  /\ ReaderMissesNothing

\* The kinds of the events of a process, as its subscribers see them.
Kinds(g) == [i \in DOMAIN events[g] |-> events[g][i].kind]

Feed(g) == INSTANCE EventFeed WITH feed <- Kinds(g)

\* The event log of every process is a well-formed feed, whichever task ends
\* last: nothing follows Closed, Closed follows Exited, each occurs once.
FeedsWellFormed ==
  [][\A g \in Gens : Feed(g)!Next \/ UNCHANGED Kinds(g)]_vars

\* A terminated process is closed and its id becomes free again, unless the
\* session is shut down first: "process id should be reusable after exit
\* retention" (server/handler/tests.rs).
TerminatedIsEvicted ==
  \A g \in Gens : (g \in killed) ~> (shut \/ (run[g].closed /\ \A p \in Pids : entry[p] # g))
=============================================================================
