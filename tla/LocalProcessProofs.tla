------------------------- MODULE LocalProcessProofs -------------------------
(***************************************************************************)
(* Proofs about LocalProcess for any set of ids, any number of processes   *)
(* and any bounds: the inductive invariant ProcInv, the attribution and    *)
(* numbering of events, and that every event log is a well-formed feed.    *)
(***************************************************************************)
EXTENDS LocalProcess, FiniteSetTheorems, TLAPS

Unrecorded == <<entry, spawning, of, run, events, task, timers, shut>>

\* Steps that leave the table, the records and the tasks alone keep ProcInv.
LEMMA UnrecordedStutter ==
  ASSUME ProcInv, UNCHANGED Unrecorded,
         killed' \subseteq Gens, sender' \in BOOLEAN
  PROVE  ProcInv'
<1>1. TypeOK'
  BY DEF ProcInv, TypeOK, Unrecorded
<1>2. TableInv' /\ RecordInv' /\ LogInv' /\ OutputBelongsToProcess' /\ SeqsContiguous'
  BY DEF ProcInv, TableInv, RecordInv, LogInv, OutputBelongsToProcess, SeqsContiguous, Unrecorded,
         Active, StreamActive
<1> QED BY <1>1, <1>2 DEF ProcInv

\* A task that has left its initial state belongs to a process that was started.
LEMMA TaskStarted ==
  ASSUME ProcInv, NEW g \in Gens, NEW t \in Tasks, task[g][t] # "none"
  PROVE  of[g] \in Pids
BY DEF ProcInv, TypeOK, RecordInv

\* stream_output, watch_exit and finish_output_stream find their own process
\* under their id, or the session has been shut down.
LEMMA OwnLookup ==
  ASSUME ProcInv, NEW g \in Gens, of[g] \in Pids, Active(g)
  PROVE  /\ Lookup(g) \notin Gens => shut
         /\ Lookup(g) \in Gens => ~shut /\ Lookup(g) = g
BY NoneAssumption, EntryAssumption DEF ProcInv, TypeOK, TableInv, Lookup

\* An event published on e with the next number keeps the numbering, the
\* attribution and the agreement of log and record.
LEMMA PublishKeeps ==
  ASSUME ProcInv, NEW g \in Gens, NEW e \in Gens,
         NEW kind \in {"output", "exited", "closed"}, NEW fields \in Record,
         Publish(g, e, kind, fields),
         fields.next_seq = run[e].next_seq,
         fields.exited <=> run[e].exited \/ kind = "exited",
         fields.closed <=> run[e].closed \/ kind = "closed",
         kind # "closed" => g = e
  PROVE  /\ run' \in [Gens -> Record] /\ events' \in [Gens -> Seq(Event)]
         /\ LogInv' /\ OutputBelongsToProcess' /\ SeqsContiguous'
<1> DEFINE ev == [kind |-> kind, seq |-> run[e].next_seq, src |-> g]
           new == [fields EXCEPT !.next_seq = @ + 1]
<1>0. /\ run \in [Gens -> Record] /\ events \in [Gens -> Seq(Event)]
      /\ run' = [run EXCEPT ![e] = new]
      /\ events' = [events EXCEPT ![e] = Append(events[e], ev)]
  BY DEF ProcInv, TypeOK, Publish
<1>1. /\ new \in Record /\ new.next_seq = run[e].next_seq + 1
      /\ new.exited = fields.exited /\ new.closed = fields.closed
  <2>1. /\ fields.next_seq \in Nat /\ fields.output \in Seq(Nat) /\ fields.open \in 0 .. 2
        /\ fields.exited \in BOOLEAN /\ fields.closed \in BOOLEAN
    BY DEF Record
  <2>2. new = [next_seq |-> fields.next_seq + 1, output |-> fields.output, exited |-> fields.exited,
               open |-> fields.open, closed |-> fields.closed]
    BY SMTT(30) DEF Record
  <2> HIDE DEF new
  <2>3. new \in Record
    BY <2>1, <2>2 DEF Record
  <2> QED BY <2>2, <2>3
<1>2. ev \in Event /\ ev.kind = kind /\ ev.seq = run[e].next_seq /\ ev.src = g
  BY <1>0 DEF Event, Record
<1> HIDE DEF ev, new
<1>3. /\ run' \in [Gens -> Record] /\ events' \in [Gens -> Seq(Event)]
      /\ run'[e] = new /\ events'[e] = Append(events[e], ev)
      /\ \A h \in Gens : h # e => run'[h] = run[h] /\ events'[h] = events[h]
  BY <1>0, <1>1, <1>2
<1>4. /\ Len(events'[e]) = Len(events[e]) + 1
      /\ DOMAIN events'[e] = 1 .. Len(events[e]) + 1
      /\ DOMAIN events[e] = 1 .. Len(events[e])
      /\ \A i \in DOMAIN events[e] : events'[e][i] = events[e][i]
      /\ events'[e][Len(events[e]) + 1] = ev
      /\ Len(events[e]) \in Nat
  BY <1>0, <1>2, <1>3
<1>5. SeqsContiguous'
  <2>1. run[e].next_seq = Len(events[e]) + 1 /\ \A i \in DOMAIN events[e] : events[e][i].seq = i
    BY DEF ProcInv, SeqsContiguous
  <2>2. \A i \in DOMAIN events'[e] : events'[e][i].seq = i
    BY <2>1, <1>2, <1>4
  <2>3. run'[e].next_seq = Len(events'[e]) + 1
    BY <2>1, <1>1, <1>3, <1>4
  <2> SUFFICES ASSUME NEW h \in Gens
               PROVE  /\ \A i \in DOMAIN events'[h] : events'[h][i].seq = i
                      /\ run'[h].next_seq = Len(events'[h]) + 1
    BY DEF SeqsContiguous
  <2>4. CASE h = e
    BY <2>4, <2>2, <2>3
  <2>5. CASE h # e
    BY <2>5, <1>3 DEF ProcInv, SeqsContiguous
  <2> QED BY <2>4, <2>5
<1>6. OutputBelongsToProcess'
  <2>1. \A i \in DOMAIN events'[e] : events'[e][i].kind # "closed" => events'[e][i].src = e
    BY <1>2, <1>4 DEF ProcInv, OutputBelongsToProcess
  <2> SUFFICES ASSUME NEW h \in Gens, NEW i \in DOMAIN events'[h]
               PROVE  events'[h][i].kind # "closed" => events'[h][i].src = h
    BY DEF OutputBelongsToProcess
  <2>2. CASE h = e
    <3>1. i \in DOMAIN events'[e]
      BY <2>2
    <3>2. events'[e][i].kind # "closed" => events'[e][i].src = e
      BY <3>1, <2>1
    <3> QED BY <3>2, <2>2, Zenon
  <2>3. CASE h # e
    <3>1. events'[h] = events[h]
      BY <2>3, <1>3
    <3>2. \A j \in DOMAIN events[h] : events[h][j].kind # "closed" => events[h][j].src = h
      BY DEF ProcInv, OutputBelongsToProcess
    <3> QED BY <3>1, <3>2, Zenon
  <2> QED BY <2>2, <2>3
<1>7. \A k \in {"exited", "closed"} :
        (\E i \in DOMAIN events'[e] : events'[e][i].kind = k)
          <=> kind = k \/ \E i \in DOMAIN events[e] : events[e][i].kind = k
  BY <1>2, <1>4
<1>8. LogInv'
  <2> SUFFICES ASSUME NEW h \in Gens
               PROVE  /\ run'[h].exited <=> \E i \in DOMAIN events'[h] : events'[h][i].kind = "exited"
                      /\ run'[h].closed <=> \E i \in DOMAIN events'[h] : events'[h][i].kind = "closed"
    BY DEF LogInv
  <2>1. CASE h # e
    BY <2>1, <1>3 DEF ProcInv, LogInv
  <2>2. CASE h = e
    <3>1. run'[e].exited <=> \E i \in DOMAIN events'[e] : events'[e][i].kind = "exited"
      BY <1>1, <1>3, <1>7 DEF ProcInv, LogInv
    <3>2. run'[e].closed <=> \E i \in DOMAIN events'[e] : events'[e][i].kind = "closed"
      BY <1>1, <1>3, <1>7 DEF ProcInv, LogInv
    <3> QED BY <3>1, <3>2, <2>2
  <2> QED BY <2>1, <2>2
<1> QED BY <1>3, <1>5, <1>6, <1>8

\* What a chunk does to the retained output is typed.
LEMMA RetainTyped ==
  ASSUME NEW output \in Seq(Nat), NEW seq \in Nat
  PROVE  Retain(output, seq) \in Seq(Nat)
BY BoundsAssumption DEF Retain

Agrees(h) ==
  /\ run[h].closed => run[h].open = 0 /\ run[h].exited
  /\ ~shut =>
       /\ run[h].open = Count(StreamActive(h, "stdout")) + Count(StreamActive(h, "stderr"))
       /\ run[h].exited <=> task[h]["exit"] # "run"

\* A step of one task of a started process g that changes at most the record
\* of e keeps the table and the records if it leaves those of g and e agreeing
\* with their tasks and activates nothing.
LEMMA TaskStepKeeps ==
  ASSUME ProcInv, NEW g \in Gens, NEW t \in Tasks, NEW label \in Labels \ {"none"}, NEW e \in Gens,
         of[g] \in Pids, of[e] \in Pids,
         task' = [task EXCEPT ![g][t] = label],
         UNCHANGED <<entry, spawning, of, shut>>,
         timers' \subseteq timers \union {g},
         \A h \in Gens : h # e => run'[h] = run[h] /\ events'[h] = events[h],
         Agrees(g)', Agrees(e)',
         Active(g)' => Active(g)
  PROVE  TableInv' /\ RecordInv' /\ task' \in [Gens -> [Tasks -> Labels]]
<1>1. /\ task \in [Gens -> [Tasks -> Labels]] /\ task' \in [Gens -> [Tasks -> Labels]]
      /\ \A h \in Gens : h # g => task'[h] = task[h]
  BY DEF ProcInv, TypeOK
<1>2. \A h \in Gens : Active(h)' => Active(h)
  BY <1>1 DEF Active, StreamActive
<1>3. TableInv'
  BY <1>2 DEF ProcInv, TableInv
<1>4. ASSUME NEW h \in Gens, of[h] = None
      PROVE  /\ run'[h] = Fresh /\ events'[h] = <<>> /\ h \notin timers'
             /\ task'[h] = [u \in Tasks |-> "none"]
  <2>1. h # g /\ h # e
    BY <1>4, NoneAssumption
  <2> QED BY <2>1, <1>1, <1>4 DEF ProcInv, RecordInv
<1>5. ASSUME NEW h \in Gens, of[h] # None
      PROVE  Agrees(h)'
  <2>1. CASE h # g /\ h # e
    <3>1. Agrees(h)
      BY <1>5 DEF ProcInv, RecordInv, Agrees
    <3> QED BY <3>1, <2>1, <1>1 DEF Agrees, StreamActive
  <2> QED BY <2>1
<1>6. RecordInv'
  <2> SUFFICES ASSUME NEW h \in Gens
               PROVE  /\ run'[h].closed => run'[h].open = 0 /\ run'[h].exited
                      /\ of'[h] = None =>
                           /\ run'[h] = Fresh /\ events'[h] = <<>> /\ h \notin timers'
                           /\ task'[h] = [u \in Tasks |-> "none"]
                      /\ of'[h] # None /\ ~shut' =>
                           /\ run'[h].open = Count(StreamActive(h, "stdout")') + Count(StreamActive(h, "stderr")')
                           /\ run'[h].exited <=> task'[h]["exit"] # "run"
    BY DEF RecordInv
  <2>1. CASE of[h] = None
    BY <2>1, <1>4 DEF Fresh
  <2>2. CASE of[h] # None
    BY <2>2, <1>5 DEF Agrees
  <2> QED BY <2>1, <2>2
<1> QED BY <1>1, <1>3, <1>6

\* Same, for a step that changes no record and no activity, or comes after a
\* shutdown.
LEMMA QuietTaskStep ==
  ASSUME ProcInv, NEW g \in Gens, NEW t \in Tasks, NEW label \in Labels \ {"none"},
         task[g][t] # "none", task' = [task EXCEPT ![g][t] = label],
         UNCHANGED <<entry, spawning, of, run, events, timers, killed, sender, shut>>,
         t = "exit" => (label = "run" <=> task[g][t] = "run") \/ (shut /\ label # "run"),
         t \in Streams =>
           \/ (label \in {"run", "notify", "finish"} <=> StreamActive(g, t))
           \/ (shut /\ label \notin {"run", "notify", "finish"})
  PROVE  ProcInv'
<1>1. of[g] \in Pids
  BY TaskStarted
<1>2. /\ task \in [Gens -> [Tasks -> Labels]]
      /\ \A u \in Tasks : task'[g][u] = IF u = t THEN label ELSE task[g][u]
      /\ "exit" \notin Streams /\ t \in Streams \union {"exit"}
      /\ Streams = {"stdout", "stderr"} /\ Tasks = Streams \union {"exit"}
  BY DEF ProcInv, TypeOK, Streams, Tasks
<1>3. Active(g)' => Active(g)
  BY <1>2 DEF Active, StreamActive
<1>4. Agrees(g)
  BY <1>1, NoneAssumption DEF ProcInv, RecordInv, Agrees
<1>5. Agrees(g)'
  BY <1>2, <1>4 DEF Agrees, StreamActive
<1>6. TableInv' /\ RecordInv' /\ task' \in [Gens -> [Tasks -> Labels]]
  BY <1>1, <1>3, <1>5, TaskStepKeeps
<1>7. TypeOK'
  BY <1>6 DEF ProcInv, TypeOK
<1>8. LogInv' /\ OutputBelongsToProcess' /\ SeqsContiguous'
  BY DEF ProcInv, LogInv, OutputBelongsToProcess, SeqsContiguous
<1> QED BY <1>6, <1>7, <1>8 DEF ProcInv

\* A chunk of output is recorded on its own process.
LEMMA StreamOutputStep ==
  ASSUME ProcInv, NEW g \in Gens, NEW t \in Tasks, StreamOutput(g, t)
  PROVE  ProcInv'
<1>1. /\ t \in Streams /\ task[g][t] = "run"
      /\ UNCHANGED <<entry, spawning, of, timers, killed, sender, shut>>
  BY DEF StreamOutput
<1>2. of[g] \in Pids /\ Active(g)
  BY <1>1, TaskStarted DEF Active, StreamActive
<1>3. CASE Lookup(g) \in Gens
  <2> DEFINE fields == [run[g] EXCEPT !.output = Retain(@, run[g].next_seq)]
  <2>1. Lookup(g) = g /\ ~shut
    BY <1>2, <1>3, OwnLookup
  <2>2. Publish(g, g, "output", fields) /\ task' = [task EXCEPT ![g][t] = "notify"]
    BY <2>1, <1>3 DEF StreamOutput, Goto
  <2>3. run[g] \in Record
    BY DEF ProcInv, TypeOK
  <2>4. /\ fields \in Record /\ fields.next_seq = run[g].next_seq /\ fields.open = run[g].open
        /\ fields.exited = run[g].exited /\ fields.closed = run[g].closed
    BY <2>3, RetainTyped DEF Record
  <2> HIDE DEF fields
  <2>5. /\ run' \in [Gens -> Record] /\ events' \in [Gens -> Seq(Event)]
        /\ LogInv' /\ OutputBelongsToProcess' /\ SeqsContiguous'
    BY <2>2, <2>4, PublishKeeps
  <2>6. /\ run'[g].open = run[g].open /\ run'[g].closed = run[g].closed /\ run'[g].exited = run[g].exited
        /\ \A h \in Gens : h # g => run'[h] = run[h] /\ events'[h] = events[h]
    BY <2>2, <2>4 DEF Publish, ProcInv, TypeOK, Record
  <2>7. /\ \A u \in Streams : StreamActive(g, u)' <=> StreamActive(g, u)
        /\ task'[g]["exit"] = task[g]["exit"]
    BY <1>1, <2>2 DEF ProcInv, TypeOK, StreamActive, Streams, Tasks
  <2>8. Agrees(g)' /\ (Active(g)' => Active(g))
    <3>1. Agrees(g)
      BY <1>2, NoneAssumption DEF ProcInv, RecordInv, Agrees
    <3>2. /\ StreamActive(g, "stdout")' <=> StreamActive(g, "stdout")
          /\ StreamActive(g, "stderr")' <=> StreamActive(g, "stderr")
      BY <2>7 DEF Streams
    <3>3. Agrees(g)'
      BY <3>1, <3>2, <1>1, <2>6, <2>7 DEF Agrees, Count
    <3>4. Active(g)' => Active(g)
      BY <2>7 DEF Active
    <3> QED BY <3>3, <3>4
  <2>9. TableInv' /\ RecordInv' /\ task' \in [Gens -> [Tasks -> Labels]]
    BY <1>1, <1>2, <2>2, <2>6, <2>8, TaskStepKeeps DEF Labels
  <2>10. TypeOK'
    BY <1>1, <2>5, <2>9 DEF ProcInv, TypeOK
  <2> QED BY <2>5, <2>9, <2>10 DEF ProcInv
<1>4. CASE Lookup(g) \notin Gens
  <2>1. shut
    BY <1>2, <1>4, OwnLookup
  <2>2. task' = [task EXCEPT ![g][t] = "finish"] /\ UNCHANGED <<run, events>>
    BY <1>4 DEF StreamOutput, Goto
  <2>3. "finish" \in Labels \ {"none"} /\ t # "exit"
    BY <1>1 DEF Labels, Streams
  <2> QED BY <1>1, <2>2, <2>3, QuietTaskStep DEF StreamActive
<1> QED BY <1>3, <1>4

\* The end of a pipe changes no record.
LEMMA StreamEofStep ==
  ASSUME ProcInv, NEW g \in Gens, NEW t \in Tasks, StreamEof(g, t)
  PROVE  ProcInv'
<1>1. /\ t \in Streams /\ task[g][t] = "run" /\ task' = [task EXCEPT ![g][t] = "finish"]
      /\ UNCHANGED <<entry, spawning, of, run, events, timers, killed, sender, shut>>
  BY DEF StreamEof, Goto
<1>2. "finish" \in Labels \ {"none"} /\ t # "exit"
  BY <1>1 DEF Labels, Streams
<1> QED BY <1>1, <1>2, QuietTaskStep DEF StreamActive

\* Sending a notification changes no record.
LEMMA NotifyStep ==
  ASSUME ProcInv, NEW g \in Gens, NEW t \in Tasks, Notify(g, t)
  PROVE  ProcInv'
<1> DEFINE label == IF task[g][t] = "notify_closed" THEN "done" ELSE IF t = "exit" THEN "close" ELSE "run"
<1>1. /\ task[g][t] \in {"notify", "notify_closed"} /\ task' = [task EXCEPT ![g][t] = label]
      /\ UNCHANGED <<entry, spawning, of, run, events, timers, killed, sender, shut>>
  BY DEF Notify, Goto
<1>2. label \in Labels \ {"none"} /\ "exit" \notin Streams
  BY DEF Labels, Streams
<1> QED BY <1>1, <1>2, QuietTaskStep DEF StreamActive

\* The exit is recorded on its own process, which still waits for it.
LEMMA WatchExitStep ==
  ASSUME ProcInv, NEW g \in Gens, WatchExit(g)
  PROVE  ProcInv'
<1>1. /\ task[g]["exit"] = "run" /\ "exit" \in Tasks
      /\ UNCHANGED <<entry, spawning, of, timers, killed, sender, shut>>
  BY DEF WatchExit, Tasks
<1>2. of[g] \in Pids /\ Active(g)
  BY <1>1, TaskStarted DEF Active
<1>3. CASE Lookup(g) \in Gens
  <2> DEFINE fields == [run[g] EXCEPT !.exited = TRUE]
  <2>1. Lookup(g) = g /\ ~shut
    BY <1>2, <1>3, OwnLookup
  <2>2. Publish(g, g, "exited", fields) /\ task' = [task EXCEPT ![g]["exit"] = "notify"]
    BY <2>1, <1>3 DEF WatchExit, Goto
  <2>3. run[g] \in Record
    BY DEF ProcInv, TypeOK
  <2>4. /\ fields \in Record /\ fields.next_seq = run[g].next_seq /\ fields.open = run[g].open
        /\ fields.exited = TRUE /\ fields.closed = run[g].closed
    BY <2>3 DEF Record
  <2> HIDE DEF fields
  <2>5. /\ run' \in [Gens -> Record] /\ events' \in [Gens -> Seq(Event)]
        /\ LogInv' /\ OutputBelongsToProcess' /\ SeqsContiguous'
    BY <2>2, <2>4, PublishKeeps
  <2>6. /\ run'[g].open = run[g].open /\ run'[g].closed = run[g].closed /\ run'[g].exited = TRUE
        /\ \A h \in Gens : h # g => run'[h] = run[h] /\ events'[h] = events[h]
    BY <2>2, <2>4 DEF Publish, ProcInv, TypeOK, Record
  <2>7. /\ \A u \in Streams : StreamActive(g, u)' <=> StreamActive(g, u)
        /\ task'[g]["exit"] = "notify"
    BY <1>1, <2>2 DEF ProcInv, TypeOK, StreamActive, Streams, Tasks
  <2>8. Agrees(g)' /\ (Active(g)' => Active(g))
    <3>1. Agrees(g)
      BY <1>2, NoneAssumption DEF ProcInv, RecordInv, Agrees
    <3>2. /\ StreamActive(g, "stdout")' <=> StreamActive(g, "stdout")
          /\ StreamActive(g, "stderr")' <=> StreamActive(g, "stderr")
      BY <2>7 DEF Streams
    <3>3. Agrees(g)'
      BY <3>1, <3>2, <1>1, <2>6, <2>7 DEF Agrees, Count
    <3> QED BY <3>3, <1>2
  <2>9. TableInv' /\ RecordInv' /\ task' \in [Gens -> [Tasks -> Labels]]
    BY <1>1, <1>2, <2>2, <2>6, <2>8, TaskStepKeeps DEF Labels
  <2>10. TypeOK'
    BY <1>1, <2>5, <2>9 DEF ProcInv, TypeOK
  <2> QED BY <2>5, <2>9, <2>10 DEF ProcInv
<1>4. CASE Lookup(g) \notin Gens
  <2>1. shut
    BY <1>2, <1>4, OwnLookup
  <2>2. task' = [task EXCEPT ![g]["exit"] = "close"] /\ UNCHANGED <<run, events>>
    BY <1>4 DEF WatchExit, Goto
  <2>3. "close" \in Labels \ {"none"} /\ "exit" \notin Streams
    BY DEF Labels, Streams
  <2> QED BY <1>1, <2>1, <2>2, <2>3, QuietTaskStep
<1> QED BY <1>3, <1>4

\* One stream less is counted where one task less is active.
LEMMA FinishOutputStreamStep ==
  ASSUME ProcInv, NEW g \in Gens, NEW t \in Tasks, FinishOutputStream(g, t)
  PROVE  ProcInv'
<1>1. /\ t \in Streams /\ task[g][t] = "finish"
      /\ UNCHANGED <<entry, spawning, of, events, timers, killed, sender, shut>>
  BY DEF FinishOutputStream
<1>2. of[g] \in Pids /\ Active(g)
  BY <1>1, TaskStarted DEF Active, StreamActive
<1>3. CASE Lookup(g) \in Gens
  <2> DEFINE n == IF run[g].open > 0 THEN run[g].open - 1 ELSE 0
             new == [run[g] EXCEPT !.open = n]
  <2>1. Lookup(g) = g /\ ~shut
    BY <1>2, <1>3, OwnLookup
  <2>2. run' = [run EXCEPT ![g] = new] /\ task' = [task EXCEPT ![g][t] = "close"]
    BY <2>1, <1>3 DEF FinishOutputStream, Goto
  <2>3. run \in [Gens -> Record] /\ run[g] \in Record
    BY DEF ProcInv, TypeOK
  <2>4. /\ n \in 0 .. 2 /\ new \in Record /\ new.next_seq = run[g].next_seq /\ new.open = n
        /\ new.exited = run[g].exited /\ new.closed = run[g].closed
    <3>1. n \in 0 .. 2
      BY <2>3 DEF Record
    <3> HIDE DEF n
    <3> QED BY <3>1, <2>3 DEF Record
  <2> HIDE DEF new
  <2>5. /\ run' \in [Gens -> Record] /\ run'[g] = new
        /\ \A h \in Gens : h # g => run'[h] = run[h] /\ events'[h] = events[h]
    BY <1>1, <2>2, <2>3, <2>4
  <2>6. LogInv' /\ OutputBelongsToProcess' /\ SeqsContiguous'
    <3>1. \A h \in Gens : /\ run'[h].exited = run[h].exited /\ run'[h].closed = run[h].closed
                          /\ run'[h].next_seq = run[h].next_seq
      BY <2>4, <2>5
    <3> QED BY <3>1, <1>1 DEF ProcInv, LogInv, OutputBelongsToProcess, SeqsContiguous
  <2>7. /\ StreamActive(g, t) /\ ~StreamActive(g, t)' /\ task'[g]["exit"] = task[g]["exit"]
        /\ \A u \in Streams : u # t => (StreamActive(g, u)' <=> StreamActive(g, u))
    BY <1>1, <2>2 DEF ProcInv, TypeOK, StreamActive, Streams, Tasks
  <2>8. Agrees(g)' /\ (Active(g)' => Active(g))
    <3>1. Agrees(g)
      BY <1>2, NoneAssumption DEF ProcInv, RecordInv, Agrees
    <3>2. run[g].open = Count(StreamActive(g, "stdout")) + Count(StreamActive(g, "stderr"))
      BY <3>1, <2>1 DEF Agrees
    <3>3. CASE t = "stdout"
      <4>1. StreamActive(g, "stderr")' <=> StreamActive(g, "stderr")
        BY <3>3, <2>7 DEF Streams
      <4> QED BY <3>1, <3>2, <3>3, <4>1, <1>1, <1>2, <2>1, <2>4, <2>5, <2>7 DEF Agrees, Count
    <3>4. CASE t = "stderr"
      <4>1. StreamActive(g, "stdout")' <=> StreamActive(g, "stdout")
        BY <3>4, <2>7 DEF Streams
      <4> QED BY <3>1, <3>2, <3>4, <4>1, <1>1, <1>2, <2>1, <2>4, <2>5, <2>7 DEF Agrees, Count
    <3> QED BY <3>3, <3>4, <1>1 DEF Streams
  <2>9. TableInv' /\ RecordInv' /\ task' \in [Gens -> [Tasks -> Labels]]
    BY <1>1, <1>2, <2>2, <2>5, <2>8, TaskStepKeeps DEF Labels
  <2>10. TypeOK'
    BY <1>1, <2>5, <2>9 DEF ProcInv, TypeOK
  <2> QED BY <2>6, <2>9, <2>10 DEF ProcInv
<1>4. CASE Lookup(g) \notin Gens
  <2>1. shut
    BY <1>2, <1>4, OwnLookup
  <2>2. task' = [task EXCEPT ![g][t] = "done"] /\ UNCHANGED run
    BY <1>4 DEF FinishOutputStream, Goto
  <2>3. "done" \in Labels \ {"none"} /\ t # "exit"
    BY <1>1 DEF Labels, Streams
  <2> QED BY <1>1, <2>1, <2>2, <2>3, QuietTaskStep
<1> QED BY <1>3, <1>4

\* Closed is published on whichever process the id names, if that process
\* has nothing left to record.
LEMMA MaybeEmitClosedStep ==
  ASSUME ProcInv, NEW g \in Gens, NEW t \in Tasks, MaybeEmitClosed(g, t)
  PROVE  ProcInv'
<1>1. task[g][t] = "close" /\ UNCHANGED <<entry, spawning, of, killed, sender, shut>>
  BY DEF MaybeEmitClosed
<1>2. of[g] \in Pids
  BY <1>1, TaskStarted
<1>3. CASE Lookup(g) \in Gens /\ Closable(Lookup(g))
  <2>0. PICK e \in Gens : e = Lookup(g) /\ Closable(e)
    BY <1>3
  <2> DEFINE fields == [run[e] EXCEPT !.closed = TRUE]
  <2>1. /\ Publish(g, e, "closed", fields) /\ task' = [task EXCEPT ![g][t] = "notify_closed"]
        /\ timers' = timers \union {g}
    BY <1>3, <2>0 DEF MaybeEmitClosed, Goto
  <2>2. of[e] \in Pids /\ ~shut
    BY <1>2, <2>0, EntryAssumption DEF Lookup, ProcInv, TypeOK, TableInv
  <2>3. run[e] \in Record
    BY <2>0 DEF ProcInv, TypeOK
  <2>4. /\ fields \in Record /\ fields.next_seq = run[e].next_seq /\ fields.open = run[e].open
        /\ fields.exited = run[e].exited /\ fields.closed = TRUE
    BY <2>3 DEF Record
  <2> HIDE DEF fields
  <2>5. /\ run' \in [Gens -> Record] /\ events' \in [Gens -> Seq(Event)]
        /\ LogInv' /\ OutputBelongsToProcess' /\ SeqsContiguous'
    BY <2>0, <2>1, <2>4, PublishKeeps
  <2>6. /\ run'[e].open = run[e].open /\ run'[e].closed = TRUE /\ run'[e].exited = run[e].exited
        /\ \A h \in Gens : h # e => run'[h] = run[h] /\ events'[h] = events[h]
    BY <2>0, <2>1, <2>4 DEF Publish, ProcInv, TypeOK, Record
  <2>7. \A h \in {g, e} : /\ StreamActive(h, "stdout")' <=> StreamActive(h, "stdout")
                          /\ StreamActive(h, "stderr")' <=> StreamActive(h, "stderr")
                          /\ task'[h]["exit"] = "run" <=> task[h]["exit"] = "run"
    BY <2>0, <1>1, <2>1 DEF ProcInv, TypeOK, StreamActive, Streams, Tasks
  <2>8. Agrees(g)' /\ Agrees(e)'
    <3>1. Agrees(g) /\ Agrees(e)
      BY <1>2, <2>0, <2>2, NoneAssumption DEF ProcInv, RecordInv, Agrees
    <3>2. Agrees(e)'
      BY <3>1, <1>1, <2>0, <2>6, <2>7 DEF Agrees, Count, Closable
    <3>3. ASSUME g # e PROVE Agrees(g)'
      BY <3>1, <3>3, <1>1, <2>6, <2>7 DEF Agrees, Count
    <3> QED BY <3>2, <3>3
  <2>9. Active(g)' => Active(g)
    BY <2>7 DEF Active, Streams
  <2>10. TableInv' /\ RecordInv' /\ task' \in [Gens -> [Tasks -> Labels]]
    BY <1>1, <1>2, <2>0, <2>1, <2>2, <2>6, <2>8, <2>9, TaskStepKeeps DEF Labels
  <2>11. TypeOK'
    BY <1>1, <2>1, <2>5, <2>10 DEF ProcInv, TypeOK
  <2> QED BY <2>5, <2>10, <2>11 DEF ProcInv
<1>4. CASE ~(Lookup(g) \in Gens /\ Closable(Lookup(g)))
  <2>1. task' = [task EXCEPT ![g][t] = "done"] /\ UNCHANGED <<run, events, timers>>
    BY <1>4 DEF MaybeEmitClosed, Goto
  <2>2. "done" \in Labels \ {"none"}
    BY DEF Labels
  <2> QED BY <1>1, <2>1, <2>2, QuietTaskStep DEF StreamActive
<1> QED BY <1>3, <1>4

\* The steps that change the table itself leave the tasks alone, except for
\* the start of a process.
LEMMA TableStep ==
  ASSUME ProcInv, UNCHANGED <<of, run, events, task>>, timers' \subseteq timers,
         killed' \subseteq Gens, sender' \in BOOLEAN, shut' \in BOOLEAN, spawning' \subseteq Pids,
         entry' \in [Pids -> {"absent", "starting"} \union Gens],
         shut => shut', TableInv'
  PROVE  ProcInv'
<1>1. TypeOK'
  BY DEF ProcInv, TypeOK
<1>2. RecordInv'
  BY DEF ProcInv, RecordInv, StreamActive
<1>3. LogInv' /\ OutputBelongsToProcess' /\ SeqsContiguous'
  BY DEF ProcInv, LogInv, OutputBelongsToProcess, SeqsContiguous
<1> QED BY <1>1, <1>2, <1>3 DEF ProcInv

\* Eviction removes a closed process only: none of its tasks is active.
LEMMA RetentionElapsesStep ==
  ASSUME ProcInv, NEW g \in Gens, RetentionElapses(g)
  PROVE  ProcInv'
<1>1. g \in timers /\ timers' = timers \ {g}
      /\ UNCHANGED <<spawning, of, run, events, task, killed, sender, shut>>
  BY DEF RetentionElapses
<1>2. of[g] \in Pids
  BY <1>1 DEF ProcInv, TypeOK, RecordInv
<1>3. CASE Lookup(g) \in Gens /\ run[Lookup(g)].closed
  <2>1. entry' = [entry EXCEPT ![of[g]] = "absent"]
    BY <1>3 DEF RetentionElapses
  <2>2. \A h \in Gens : of[h] # None /\ Active(h) => ~run[h].closed \/ shut
    BY DEF ProcInv, TypeOK, RecordInv, Record, Count, Active, Streams
  <2>3. ASSUME NEW h \in Gens, of[h] # None, Active(h)'
        PROVE  shut' \/ entry'[of'[h]] = h
    BY <1>1, <1>2, <1>3, <2>1, <2>2, <2>3 DEF ProcInv, TypeOK, TableInv, Active, StreamActive, Lookup
  <2>4. TableInv'
    BY <1>1, <1>2, <1>3, <2>1, <2>3, EntryAssumption DEF ProcInv, TypeOK, TableInv, Lookup
  <2> QED BY <1>1, <1>2, <2>1, <2>4, TableStep DEF ProcInv, TypeOK
<1>4. CASE ~(Lookup(g) \in Gens /\ run[Lookup(g)].closed)
  <2>1. UNCHANGED entry
    BY <1>4 DEF RetentionElapses
  <2>2. TableInv'
    BY <1>1, <2>1 DEF ProcInv, TableInv, Active, StreamActive
  <2> QED BY <1>1, <2>1, <2>2, TableStep DEF ProcInv, TypeOK
<1> QED BY <1>3, <1>4

\* Reserving an id and giving it back.
LEMMA StartSteps ==
  ASSUME ProcInv, NEW p \in Pids, StartProcess(p) \/ SpawnFails(p) \/ CancelStart(p)
  PROVE  ProcInv'
<1>1. CASE StartProcess(p)
  <2>1. TableInv'
    BY <1>1, EntryAssumption DEF StartProcess, ProcInv, TypeOK, TableInv, Active, StreamActive
  <2> QED BY <1>1, <2>1, TableStep DEF StartProcess, ProcInv, TypeOK
<1>2. CASE SpawnFails(p)
  <2>1. TableInv'
    BY <1>2, EntryAssumption DEF SpawnFails, ProcInv, TypeOK, TableInv, Active, StreamActive
  <2> QED BY <1>2, <2>1, TableStep DEF SpawnFails, ProcInv, TypeOK
<1>3. CASE CancelStart(p)
  <2>1. TableInv'
    BY <1>3 DEF CancelStart, ProcInv, TypeOK, TableInv, Active, StreamActive
  <2> QED BY <1>3, <2>1, TableStep DEF CancelStart, ProcInv, TypeOK
<1> QED BY <1>1, <1>2, <1>3

\* A shutdown empties the table.
LEMMA ShutdownStep ==
  ASSUME ProcInv, Shutdown
  PROVE  ProcInv'
<1>1. TableInv'
  BY EntryAssumption DEF Shutdown, ProcInv, TypeOK, TableInv
<1> QED BY <1>1, TableStep DEF Shutdown, ProcInv, TypeOK

\* A spawned process takes the place of its own reservation.
LEMMA SpawnSucceedsStep ==
  ASSUME ProcInv, NEW p \in Pids, NEW g \in Gens, SpawnSucceeds(p, g)
  PROVE  ProcInv'
<1>1. /\ p \in spawning /\ of[g] = None /\ spawning' = spawning \ {p}
      /\ of' = [of EXCEPT ![g] = p] /\ entry' = [entry EXCEPT ![p] = g]
      /\ task' = [task EXCEPT ![g] = [t \in Tasks |-> "run"]]
      /\ UNCHANGED <<run, events, timers, killed, sender, shut>>
  BY DEF SpawnSucceeds
<1>2. /\ of \in [Gens -> Pids \union {None}] /\ entry \in [Pids -> {"absent", "starting"} \union Gens]
      /\ task \in [Gens -> [Tasks -> Labels]]
      /\ entry[p] = "starting" /\ ~shut
      /\ run[g] = Fresh /\ events[g] = <<>>
  BY <1>1 DEF ProcInv, TypeOK, TableInv, RecordInv
<1>3. TypeOK'
  BY <1>1, <1>2 DEF ProcInv, TypeOK, Labels
<1>4. \A h \in Gens : h # g => task'[h] = task[h] /\ of'[h] = of[h]
  BY <1>1, <1>2
<1>5. task'[g] = [t \in Tasks |-> "run"] /\ of'[g] = p
  BY <1>1, <1>2
<1>6. TableInv'
  <2>1. \A q \in Pids : entry'[q] \in Gens => of'[entry'[q]] = q
    BY <1>1, <1>2, NoneAssumption DEF ProcInv, TableInv
  <2>2. \A h \in Gens : of'[h] # None /\ Active(h)' => entry'[of'[h]] = h
    BY <1>1, <1>2, <1>4, <1>5, EntryAssumption, NoneAssumption
       DEF ProcInv, TableInv, Active, StreamActive
  <2>3. \A q \in spawning' : entry'[q] = "starting"
    BY <1>1, <1>2 DEF ProcInv, TypeOK, TableInv
  <2> QED BY <2>1, <2>2, <2>3, <1>1, <1>2 DEF TableInv
<1>7. RecordInv'
  <2> SUFFICES ASSUME NEW h \in Gens
               PROVE  /\ run'[h].closed => run'[h].open = 0 /\ run'[h].exited
                      /\ of'[h] = None =>
                           /\ run'[h] = Fresh /\ events'[h] = <<>> /\ h \notin timers'
                           /\ task'[h] = [u \in Tasks |-> "none"]
                      /\ of'[h] # None /\ ~shut' =>
                           /\ run'[h].open = Count(StreamActive(h, "stdout")') + Count(StreamActive(h, "stderr")')
                           /\ run'[h].exited <=> task'[h]["exit"] # "run"
    BY DEF RecordInv
  <2>1. CASE h = g
    <3>1. /\ StreamActive(g, "stdout")' /\ StreamActive(g, "stderr")' /\ task'[g]["exit"] = "run"
          /\ of'[g] # None
      BY <1>5, NoneAssumption DEF StreamActive, Tasks, Streams
    <3> QED BY <2>1, <3>1, <1>1, <1>2 DEF Count, Fresh
  <2>2. CASE h # g
    BY <2>2, <1>1, <1>4 DEF ProcInv, RecordInv, StreamActive
  <2> QED BY <2>1, <2>2
<1>8. LogInv' /\ OutputBelongsToProcess' /\ SeqsContiguous'
  BY <1>1 DEF ProcInv, LogInv, OutputBelongsToProcess, SeqsContiguous
<1> QED BY <1>3, <1>6, <1>7, <1>8 DEF ProcInv

\* Calls that change neither the table nor a record.
LEMMA OtherSteps ==
  ASSUME ProcInv,
         \/ \E p \in Pids : TerminateProcess(p) \/ Follow(p)
         \/ \E max \in MaxBytes : ExecRead(max)
         \/ SetNotificationSender
         \/ Transmit
         \/ UNCHANGED vars
  PROVE  ProcInv'
<1>1. CASE \E p \in Pids : TerminateProcess(p)
  BY <1>1, UnrecordedStutter DEF TerminateProcess, Unrecorded, ProcInv, TypeOK
<1>2. CASE \E p \in Pids : Follow(p)
  BY <1>2, UnrecordedStutter DEF Follow, Unrecorded, ProcInv, TypeOK
<1>3. CASE \E max \in MaxBytes : ExecRead(max)
  BY <1>3, UnrecordedStutter DEF ExecRead, Unrecorded, ProcInv, TypeOK
<1>4. CASE SetNotificationSender
  BY <1>4, UnrecordedStutter DEF SetNotificationSender, Unrecorded, ProcInv, TypeOK
<1>5. CASE Transmit
  BY <1>5, UnrecordedStutter DEF Transmit, Unrecorded, ProcInv, TypeOK
<1>6. CASE UNCHANGED vars
  BY <1>6, UnrecordedStutter DEF vars, Unrecorded, ProcInv, TypeOK
<1> QED BY <1>1, <1>2, <1>3, <1>4, <1>5, <1>6

\* Initially no process has started.
LEMMA ProcInit == Init => ProcInv
<1> SUFFICES ASSUME Init PROVE ProcInv
  OBVIOUS
<1>1. TypeOK
  <2>1. Fresh \in Record /\ <<>> \in Seq(Event)
    BY DEF Fresh, Record
  <2>2. run \in [Gens -> Record] /\ events \in [Gens -> Seq(Event)]
    BY <2>1 DEF Init
  <2>3. task \in [Gens -> [Tasks -> Labels]]
    BY DEF Init, Labels
  <2> QED BY <2>2, <2>3 DEF Init, TypeOK
<1>2. TableInv
  BY EntryAssumption DEF Init, TableInv
<1>3. RecordInv /\ LogInv
  BY DEF Init, RecordInv, LogInv, Fresh
<1>4. OutputBelongsToProcess /\ SeqsContiguous
  BY DEF Init, OutputBelongsToProcess, SeqsContiguous, Fresh
<1> QED BY <1>1, <1>2, <1>3, <1>4 DEF ProcInv

\* Every step preserves the invariant.
LEMMA ProcStep == ProcInv /\ [Next]_vars => ProcInv'
<1> SUFFICES ASSUME ProcInv, [Next]_vars PROVE ProcInv'
  OBVIOUS
<1>1. ASSUME NEW p \in Pids, StartProcess(p) \/ SpawnFails(p) \/ CancelStart(p)
      PROVE  ProcInv'
  BY <1>1, StartSteps
<1>2. ASSUME NEW p \in Pids, NEW g \in Gens, SpawnSucceeds(p, g)
      PROVE  ProcInv'
  BY <1>2, SpawnSucceedsStep
<1>3. ASSUME NEW g \in Gens, WatchExit(g) PROVE ProcInv'
  BY <1>3, WatchExitStep
<1>4. ASSUME NEW g \in Gens, RetentionElapses(g) PROVE ProcInv'
  BY <1>4, RetentionElapsesStep
<1>5. ASSUME NEW g \in Gens, NEW t \in Tasks, TaskStep(g, t) PROVE ProcInv'
  BY <1>5, StreamOutputStep, StreamEofStep, NotifyStep, FinishOutputStreamStep, MaybeEmitClosedStep
     DEF TaskStep
<1>6. CASE Shutdown
  BY <1>6, ShutdownStep
<1> QED BY <1>1, <1>2, <1>3, <1>4, <1>5, <1>6, OtherSteps DEF Next

\* ProcInv holds in every reachable state, for all ids, processes and bounds.
THEOREM ProcSafety == Spec => []ProcInv
BY ProcInit, ProcStep, PTL DEF Spec

\* An id that is reused never attributes output or an exit to another process
\* (stream_output, watch_exit).
THEOREM OutputBelongsAlways == Spec => []OutputBelongsToProcess
<1>1. ProcInv => OutputBelongsToProcess
  BY DEF ProcInv
<1> QED BY <1>1, ProcSafety, PTL

\* Every process numbers its events 1, 2, 3, ... (next_seq).
THEOREM SeqsContiguousAlways == Spec => []SeqsContiguous
<1>1. ProcInv => SeqsContiguous
  BY DEF ProcInv
<1> QED BY <1>1, ProcSafety, PTL

\* One published event is one step of the abstract feed of e and of no other.
LEMMA PublishFeeds ==
  ASSUME ProcInv, NEW g \in Gens, NEW e \in Gens, NEW kind, NEW fields,
         Publish(g, e, kind, fields),
         \/ kind = "output" /\ ~run[e].closed
         \/ kind = "exited" /\ ~run[e].closed /\ ~run[e].exited
         \/ kind = "closed" /\ ~run[e].closed /\ run[e].exited
  PROVE  \A h \in Gens : Feed(h)!Next \/ UNCHANGED Kinds(h)
<1> SUFFICES ASSUME NEW h \in Gens PROVE Feed(h)!Next \/ UNCHANGED Kinds(h)
  OBVIOUS
<1> DEFINE ev == [kind |-> kind, seq |-> run[e].next_seq, src |-> g]
<1>1. /\ events \in [Gens -> Seq(Event)] /\ run[e] \in Record
      /\ events' = [events EXCEPT ![e] = Append(events[e], ev)]
  BY DEF ProcInv, TypeOK, Publish
<1>2. CASE h # e
  BY <1>1, <1>2 DEF Kinds
<1>3. CASE h = e
  <2>1. ev \in Event /\ ev.kind = kind
    BY <1>1 DEF Event, Record
  <2> HIDE DEF ev
  <2>2. /\ DOMAIN events'[e] = 1 .. Len(events[e]) + 1 /\ DOMAIN events[e] = 1 .. Len(events[e])
        /\ \A i \in DOMAIN events[e] : events'[e][i] = events[e][i]
        /\ events'[e][Len(events[e]) + 1] = ev
        /\ Len(events[e]) \in Nat
    BY <1>1, <2>1
  <2>3. Kinds(e) \in Seq({"output", "exited", "closed"}) /\ Len(Kinds(e)) = Len(events[e])
    <3>1. \A i \in 1 .. Len(events[e]) : events[e][i] \in Event
      BY <1>1
    <3>2. \A i \in 1 .. Len(events[e]) : events[e][i].kind \in {"output", "exited", "closed"}
      BY <3>1 DEF Event
    <3>3. Kinds(e) \in [1 .. Len(events[e]) -> {"output", "exited", "closed"}]
      BY <3>2, <2>2 DEF Kinds
    <3> QED BY <3>3, <2>2
  <2>4. Kinds(e)' = Append(Kinds(e), kind)
    BY <2>1, <2>2, <2>3 DEF Kinds
  <2>5. /\ run[e].exited <=> \E i \in DOMAIN Kinds(e) : Kinds(e)[i] = "exited"
        /\ run[e].closed <=> \E i \in DOMAIN Kinds(e) : Kinds(e)[i] = "closed"
    BY DEF ProcInv, LogInv, Kinds
  <2>6. Feed(e)!Next
    BY <2>4, <2>5 DEF Feed!Next, Feed!Output, Feed!Exited, Feed!Closed, Feed!Has, Feed!Emit
  <2> QED BY <2>6, <1>3
<1> QED BY <1>2, <1>3

\* A step that publishes nothing leaves every feed alone.
LEMMA NothingPublished ==
  ASSUME UNCHANGED events
  PROVE  \A h \in Gens : Feed(h)!Next \/ UNCHANGED Kinds(h)
BY DEF Kinds

\* Every step is a step of the abstract feed of one process, or of none.
LEMMA FeedStep ==
  ASSUME ProcInv, [Next]_vars
  PROVE  \A h \in Gens : Feed(h)!Next \/ UNCHANGED Kinds(h)
<1> DEFINE Goal == \A h \in Gens : Feed(h)!Next \/ UNCHANGED Kinds(h)
<1> SUFFICES Goal
  OBVIOUS
<1>0. ASSUME UNCHANGED events PROVE Goal
  BY <1>0, NothingPublished
<1> HIDE DEF Goal
<1>1. ASSUME NEW g \in Gens, NEW t \in Tasks, StreamOutput(g, t) PROVE Goal
  <2>1. of[g] \in Pids /\ Active(g) /\ StreamActive(g, t) /\ t \in Streams
    BY <1>1, TaskStarted DEF StreamOutput, Active, StreamActive
  <2>2. CASE Lookup(g) \in Gens
    <3>1. Lookup(g) = g /\ ~shut
      BY <2>1, <2>2, OwnLookup
    <3>2. Publish(g, g, "output", [run[g] EXCEPT !.output = Retain(@, run[g].next_seq)])
      BY <1>1, <2>2, <3>1 DEF StreamOutput
    <3>3. ~run[g].closed
      BY <2>1, <3>1, NoneAssumption DEF ProcInv, RecordInv, Count, Streams
    <3> QED BY <3>2, <3>3, PublishFeeds DEF Goal
  <2>3. CASE Lookup(g) \notin Gens
    BY <1>0, <1>1, <2>3 DEF StreamOutput
  <2> QED BY <2>2, <2>3
<1>2. ASSUME NEW g \in Gens, WatchExit(g) PROVE Goal
  <2>1. of[g] \in Pids /\ Active(g) /\ task[g]["exit"] = "run"
    BY <1>2, TaskStarted DEF WatchExit, Active, Tasks
  <2>2. CASE Lookup(g) \in Gens
    <3>1. Lookup(g) = g /\ ~shut
      BY <2>1, <2>2, OwnLookup
    <3>2. Publish(g, g, "exited", [run[g] EXCEPT !.exited = TRUE])
      BY <1>2, <2>2, <3>1 DEF WatchExit
    <3>3. ~run[g].closed /\ ~run[g].exited
      BY <2>1, <3>1, NoneAssumption DEF ProcInv, RecordInv
    <3> QED BY <3>2, <3>3, PublishFeeds DEF Goal
  <2>3. CASE Lookup(g) \notin Gens
    BY <1>0, <1>2, <2>3 DEF WatchExit
  <2> QED BY <2>2, <2>3
<1>3. ASSUME NEW g \in Gens, NEW t \in Tasks, MaybeEmitClosed(g, t) PROVE Goal
  <2>1. CASE Lookup(g) \in Gens /\ Closable(Lookup(g))
    <3>1. PICK e \in Gens : e = Lookup(g) /\ Closable(e)
      BY <2>1
    <3>2. Publish(g, e, "closed", [run[e] EXCEPT !.closed = TRUE])
      BY <1>3, <2>1, <3>1 DEF MaybeEmitClosed
    <3> QED BY <3>1, <3>2, PublishFeeds DEF Goal, Closable
  <2>2. CASE ~(Lookup(g) \in Gens /\ Closable(Lookup(g)))
    BY <1>0, <1>3, <2>2 DEF MaybeEmitClosed
  <2> QED BY <2>1, <2>2
<1>4. ASSUME NEW g \in Gens, NEW t \in Tasks, TaskStep(g, t) PROVE Goal
  BY <1>0, <1>1, <1>3, <1>4 DEF TaskStep, StreamEof, Notify, FinishOutputStream
<1>5. ASSUME NEW p \in Pids,
             \/ StartProcess(p) \/ SpawnFails(p) \/ CancelStart(p)
             \/ TerminateProcess(p) \/ Follow(p)
             \/ \E g \in Gens : SpawnSucceeds(p, g)
      PROVE  Goal
  BY <1>0, <1>5 DEF StartProcess, SpawnFails, CancelStart, TerminateProcess, Follow, SpawnSucceeds
<1>6. CASE \/ \E g \in Gens : RetentionElapses(g)
           \/ \E max \in MaxBytes : ExecRead(max)
           \/ Shutdown \/ SetNotificationSender \/ Transmit \/ UNCHANGED vars
  BY <1>0, <1>6 DEF RetentionElapses, ExecRead, Shutdown, SetNotificationSender, Transmit, vars
<1> QED BY <1>2, <1>4, <1>5, <1>6 DEF Next

\* Every process's event log implements the abstract feed: one Exited, one
\* Closed after it, nothing after Closed (maybe_emit_closed).
THEOREM FeedsWellFormedAlways == Spec => FeedsWellFormed
<1>1. ProcInv /\ [Next]_vars => [\A g \in Gens : Feed(g)!Next \/ UNCHANGED Kinds(g)]_vars
  BY FeedStep
<1> QED BY <1>1, ProcSafety, PTL DEF Spec, FeedsWellFormed

(***************************************************************************)
(* Reading: what cursors and retention do to the chunks.                   *)
(***************************************************************************)
LEMMA IntervalSize ==
  ASSUME NEW b \in Nat
  PROVE  IsFiniteSet(1 .. b) /\ Cardinality(1 .. b) = b
<1>1. IsFiniteSet(1 .. b) /\ Cardinality(1 .. b) = IF 1 > b THEN 0 ELSE b - 1 + 1
  BY FS_Interval
<1> QED BY <1>1

\* The chunks up to a cursor are the first ones.
LEMMA CursorSplits ==
  ASSUME NEW s \in Seq(Nat), Increasing(s), NEW n \in Nat
  PROVE  LET k == Cardinality({i \in DOMAIN s : s[i] <= n})
         IN k \in 0 .. Len(s) /\ \A i \in DOMAIN s : s[i] <= n <=> i <= k
<1> DEFINE C == {i \in DOMAIN s : s[i] <= n}
           k == Cardinality(C)
<1>1. Len(s) \in Nat /\ DOMAIN s = 1 .. Len(s) /\ \A i \in DOMAIN s : s[i] \in Nat
  OBVIOUS
<1>2. IsFiniteSet(1 .. Len(s)) /\ Cardinality(1 .. Len(s)) = Len(s)
  BY <1>1, IntervalSize
<1>3. C \in SUBSET (1 .. Len(s))
  BY <1>1
<1>4. IsFiniteSet(C) /\ k <= Len(s)
  BY <1>2, <1>3, FS_Subset
<1>5. k \in 0 .. Len(s)
  <2>1. k \in Nat
    BY <1>4, FS_CardinalityType
  <2> QED BY <2>1, <1>1, <1>4
<1>6. ASSUME NEW i \in DOMAIN s, s[i] <= n PROVE i <= k
  <2>1. 1 .. i \in SUBSET C
    <3> SUFFICES ASSUME NEW j \in 1 .. i PROVE j \in C
      OBVIOUS
    <3>1. j \in DOMAIN s /\ (j = i \/ j < i)
      BY <1>1
    <3>2. s[j] <= s[i]
      BY <1>1, <3>1 DEF Increasing
    <3> QED BY <3>1, <3>2, <1>1, <1>6
  <2>2. Cardinality(1 .. i) = i
    BY <1>1, IntervalSize
  <2>3. Cardinality(1 .. i) <= Cardinality(C)
    BY <2>1, <1>4, FS_Subset
  <2> QED BY <2>2, <2>3
<1>7. ASSUME NEW i \in DOMAIN s, ~(s[i] <= n) PROVE ~(i <= k)
  <2>1. C \in SUBSET (1 .. i - 1)
    <3> SUFFICES ASSUME NEW j \in C PROVE j \in 1 .. i - 1
      OBVIOUS
    <3>1. j \in DOMAIN s /\ s[j] <= n
      OBVIOUS
    <3>2. j < i
      BY <3>1, <1>1, <1>7 DEF Increasing
    <3> QED BY <3>1, <3>2, <1>1
  <2>2. IsFiniteSet(1 .. i - 1) /\ Cardinality(1 .. i - 1) = i - 1
    <3>1. i - 1 \in Nat
      BY <1>1
    <3> QED BY <3>1, IntervalSize
  <2>3. Cardinality(C) <= Cardinality(1 .. i - 1)
    BY <2>1, <2>2, FS_Subset
  <2>4. i \in Nat /\ k \in Nat
    BY <1>1, <1>5
  <2> QED BY <2>2, <2>3, <2>4
<1> QED BY <1>5, <1>6, <1>7

\* What comes after a cursor, in order, is all that exceeds it.
LEMMA AfterKeeps ==
  ASSUME NEW s \in Seq(Nat), Increasing(s), NEW n \in Nat
  PROVE  /\ After(s, n) \in Seq(Nat) /\ Increasing(After(s, n))
         /\ \A i \in DOMAIN After(s, n) : After(s, n)[i] > n /\ \E j \in DOMAIN s : s[j] = After(s, n)[i]
         /\ \A j \in DOMAIN s : s[j] > n => \E i \in DOMAIN After(s, n) : After(s, n)[i] = s[j]
<1> DEFINE k == Cardinality({i \in DOMAIN s : s[i] <= n})
           a == After(s, n)
<1>1. k \in 0 .. Len(s) /\ \A i \in DOMAIN s : s[i] <= n <=> i <= k
  BY CursorSplits
<1>2. Len(s) \in Nat /\ DOMAIN s = 1 .. Len(s) /\ \A i \in DOMAIN s : s[i] \in Nat
  OBVIOUS
<1>3. a = SubSeq(s, k + 1, Len(s))
  BY DEF After
<1> HIDE DEF k
<1>k. k \in Nat /\ k <= Len(s) /\ Len(s) \in Nat /\ Len(s) - k \in Nat
  BY <1>1, <1>2
<1>4. /\ a \in Seq(Nat) /\ Len(a) = Len(s) - k /\ DOMAIN a = 1 .. Len(s) - k
      /\ \A i \in 1 .. Len(s) - k : a[i] = s[k + i]
  BY <1>k, <1>3
<1> HIDE DEF a
<1>5. Increasing(a)
  <2> SUFFICES ASSUME NEW i \in DOMAIN a, NEW j \in DOMAIN a, i < j PROVE a[i] < a[j]
    BY DEF Increasing
  <2>1. k + i \in DOMAIN s /\ k + j \in DOMAIN s /\ k + i < k + j
    <3>1. i \in 1 .. Len(s) - k /\ j \in 1 .. Len(s) - k
      BY <1>4
    <3>2. k + i \in 1 .. Len(s) /\ k + j \in 1 .. Len(s) /\ k + i < k + j
      BY <3>1, <1>k
    <3> QED BY <3>2, <1>2
  <2> QED BY <2>1, <1>4 DEF Increasing
<1>6. \A i \in DOMAIN a : a[i] > n /\ \E j \in DOMAIN s : s[j] = a[i]
  <2> SUFFICES ASSUME NEW i \in DOMAIN a PROVE a[i] > n /\ \E j \in DOMAIN s : s[j] = a[i]
    OBVIOUS
  <2>1. k + i \in DOMAIN s /\ ~(k + i <= k) /\ s[k + i] = a[i]
    <3>1. i \in 1 .. Len(s) - k
      BY <1>4
    <3>2. k + i \in 1 .. Len(s) /\ ~(k + i <= k)
      BY <3>1, <1>k
    <3> QED BY <3>1, <3>2, <1>2, <1>4
  <2> QED BY <2>1, <1>1, <1>2
<1>7. \A j \in DOMAIN s : s[j] > n => \E i \in DOMAIN a : a[i] = s[j]
  <2> SUFFICES ASSUME NEW j \in DOMAIN s, s[j] > n PROVE \E i \in DOMAIN a : a[i] = s[j]
    OBVIOUS
  <2>1. ~(j <= k)
    BY <1>1, <1>2
  <2>2. j - k \in DOMAIN a /\ k + (j - k) = j
    BY <2>1, <1>1, <1>2, <1>4
  <2> QED BY <2>2, <1>4
<1> QED BY <1>4, <1>5, <1>6, <1>7 DEF a

\* A first part of an increasing sequence, and what the rest exceeds.
LEMMA PrefixKeeps ==
  ASSUME NEW s \in Seq(Nat), Increasing(s), NEW m \in 0 .. Len(s)
  PROVE  /\ SubSeq(s, 1, m) \in Seq(Nat) /\ Increasing(SubSeq(s, 1, m))
         /\ Len(SubSeq(s, 1, m)) = m /\ DOMAIN SubSeq(s, 1, m) = 1 .. m
         /\ \A i \in DOMAIN SubSeq(s, 1, m) : i \in DOMAIN s /\ SubSeq(s, 1, m)[i] = s[i]
         /\ \A j \in DOMAIN s : j <= m \/ (m > 0 => s[j] > SubSeq(s, 1, m)[m])
<1> DEFINE c == SubSeq(s, 1, m)
<1>1. Len(s) \in Nat /\ DOMAIN s = 1 .. Len(s) /\ \A i \in DOMAIN s : s[i] \in Nat
  OBVIOUS
<1>2. /\ c \in Seq(Nat) /\ Len(c) = m /\ DOMAIN c = 1 .. m
      /\ \A i \in 1 .. m : i \in DOMAIN s /\ c[i] = s[i]
  BY <1>1
<1>3. Increasing(c)
  BY <1>1, <1>2 DEF Increasing
<1>4. \A j \in DOMAIN s : j <= m \/ (m > 0 => s[j] > c[m])
  BY <1>1, <1>2 DEF Increasing
<1> QED BY <1>2, <1>3, <1>4

\* Chunks that all exceed what was read before go behind it in order.
LEMMA ConcatKeeps ==
  ASSUME NEW s \in Seq(Nat), NEW c \in Seq(Nat), Increasing(s), Increasing(c), NEW n \in Nat,
         \A i \in DOMAIN s : s[i] <= n, \A i \in DOMAIN c : c[i] > n
  PROVE  /\ s \o c \in Seq(Nat) /\ Increasing(s \o c)
         /\ \A i \in DOMAIN s : \E j \in DOMAIN (s \o c) : (s \o c)[j] = s[i]
         /\ \A i \in DOMAIN c : \E j \in DOMAIN (s \o c) : (s \o c)[j] = c[i]
         /\ \A j \in DOMAIN (s \o c) :
              \/ \E i \in DOMAIN s : (s \o c)[j] = s[i]
              \/ \E i \in DOMAIN c : (s \o c)[j] = c[i]
<1> DEFINE r == s \o c
<1>1. /\ Len(s) \in Nat /\ DOMAIN s = 1 .. Len(s) /\ \A i \in DOMAIN s : s[i] \in Nat
      /\ Len(c) \in Nat /\ DOMAIN c = 1 .. Len(c) /\ \A i \in DOMAIN c : c[i] \in Nat
  OBVIOUS
<1>2. /\ r \in Seq(Nat) /\ DOMAIN r = 1 .. Len(s) + Len(c)
      /\ \A j \in 1 .. Len(s) + Len(c) : r[j] = IF j <= Len(s) THEN s[j] ELSE c[j - Len(s)]
  BY <1>1
<1> HIDE DEF r
<1>3. \A i \in DOMAIN s : i \in DOMAIN r /\ r[i] = s[i]
  BY <1>1, <1>2
<1>4. ASSUME NEW i \in DOMAIN c PROVE \E j \in DOMAIN r : r[j] = c[i]
  <2>1. Len(s) + i \in DOMAIN r /\ ~(Len(s) + i <= Len(s)) /\ (Len(s) + i) - Len(s) = i
    BY <1>1, <1>2
  <2> QED BY <2>1, <1>2
<1>5. ASSUME NEW j \in DOMAIN r, ~(j <= Len(s)) PROVE j - Len(s) \in DOMAIN c /\ r[j] = c[j - Len(s)]
  BY <1>1, <1>2, <1>5
<1>6. ASSUME NEW j \in DOMAIN r, j <= Len(s) PROVE j \in DOMAIN s /\ r[j] = s[j]
  BY <1>1, <1>2, <1>6
<1>7. Increasing(r)
  <2> SUFFICES ASSUME NEW i \in DOMAIN r, NEW j \in DOMAIN r, i < j PROVE r[i] < r[j]
    BY DEF Increasing
  <2>1. i \in Nat /\ j \in Nat
    BY <1>1, <1>2
  <2>2. CASE j <= Len(s)
    BY <2>1, <2>2, <1>1, <1>6 DEF Increasing
  <2>3. CASE i <= Len(s) /\ ~(j <= Len(s))
    <3>1. r[i] <= n /\ r[j] > n /\ r[i] \in Nat /\ r[j] \in Nat
      BY <2>3, <1>1, <1>5, <1>6
    <3> QED BY <3>1
  <2>4. CASE ~(i <= Len(s)) /\ ~(j <= Len(s))
    <3>1. i - Len(s) \in DOMAIN c /\ j - Len(s) \in DOMAIN c /\ i - Len(s) < j - Len(s)
      BY <2>4, <2>1, <1>1, <1>5
    <3> QED BY <3>1, <2>4, <1>5 DEF Increasing
  <2> QED BY <2>1, <2>2, <2>3, <2>4, <1>1
<1> QED BY <1>2, <1>3, <1>4, <1>5, <1>6, <1>7 DEF r

\* Retention evicts old chunks and keeps the order.
LEMMA RetainKeeps ==
  ASSUME NEW s \in Seq(Nat), Increasing(s), NEW n \in Nat, \A i \in DOMAIN s : s[i] < n
  PROVE  /\ Increasing(Retain(s, n))
         /\ \A i \in DOMAIN Retain(s, n) : Retain(s, n)[i] = n \/ \E j \in DOMAIN s : s[j] = Retain(s, n)[i]
         /\ Len(s) < RetainedChunks => Retain(s, n) = Append(s, n)
<1> DEFINE r == Retain(s, n)
<1>1. Len(s) \in Nat /\ DOMAIN s = 1 .. Len(s) /\ \A i \in DOMAIN s : s[i] \in Nat
  OBVIOUS
<1>2. CASE Len(s) = RetainedChunks
  <2>1. s # <<>> /\ Len(s) > 0
    BY <1>1, <1>2, BoundsAssumption
  <2>2. /\ DOMAIN r = 1 .. Len(s)
        /\ \A i \in 1 .. Len(s) : r[i] = IF i = Len(s) THEN n ELSE s[i + 1]
    BY <1>1, <1>2, <2>1 DEF Retain
  <2> HIDE DEF r
  <2>x. ASSUME NEW i \in 1 .. Len(s), i # Len(s) PROVE i < Len(s) /\ i + 1 \in 1 .. Len(s)
    <3>1. Len(s) \in Nat /\ i \in Nat /\ 1 <= i /\ i <= Len(s)
      BY <1>1
    <3> QED BY <3>1, <2>x
  <2>3. \A i \in DOMAIN r : r[i] = n \/ (i + 1 \in DOMAIN s /\ s[i + 1] = r[i] /\ i < Len(s))
    BY <2>2, <2>x, <1>1
  <2>4. Increasing(r)
    <3> SUFFICES ASSUME NEW i \in DOMAIN r, NEW j \in DOMAIN r, i < j PROVE r[i] < r[j]
      BY DEF Increasing
    <3>a. i \in 1 .. Len(s) /\ j \in 1 .. Len(s)
      BY <2>2
    <3>b. i # Len(s) /\ i + 1 \in 1 .. Len(s)
      BY <3>a, <1>1
    <3>1. i \in 1 .. Len(s) /\ j \in 1 .. Len(s) /\ i # Len(s) /\ i + 1 \in DOMAIN s /\ r[i] = s[i + 1]
      BY <3>a, <3>b, <2>2, <1>1
    <3>2. CASE j = Len(s)
      BY <3>1, <3>2, <2>2
    <3>3. CASE j # Len(s)
      <4>a. j + 1 \in 1 .. Len(s) /\ i + 1 < j + 1
        BY <3>a, <3>3, <1>1
      <4>1. j + 1 \in DOMAIN s /\ r[j] = s[j + 1] /\ i + 1 < j + 1
        BY <4>a, <3>1, <3>3, <2>2, <1>1
      <4> QED BY <4>1, <3>1 DEF Increasing
    <3> QED BY <3>2, <3>3
  <2> QED BY <2>3, <2>4, <1>2, <1>1, BoundsAssumption DEF r
<1>3. CASE Len(s) # RetainedChunks
  <2>0. r = Append(s, n)
    BY <1>3 DEF Retain
  <2>1. /\ r = Append(s, n) /\ DOMAIN r = 1 .. Len(s) + 1
        /\ \A i \in 1 .. Len(s) : r[i] = s[i]
    BY <1>1, <2>0
  <2>2. r[Len(s) + 1] = n
    BY <1>1, <2>0
  <2> HIDE DEF r
  <2>3. \A i \in DOMAIN r : i = Len(s) + 1 \/ i \in DOMAIN s
    BY <2>1, <1>1
  <2>4. Increasing(r)
    BY <2>1, <2>2, <2>3, <1>1 DEF Increasing
  <2> QED BY <2>1, <2>2, <2>3, <2>4, <1>1 DEF r
<1> QED BY <1>2, <1>3

(***************************************************************************)
(* What one step does to the log of g and to its retained output.          *)
(***************************************************************************)
Logged(g, kind) ==
  \E ev \in Event :
    /\ ev.kind = kind /\ events'[g] = Append(events[g], ev)
    /\ run'[g].next_seq = run[g].next_seq + 1

Grows(g) ==
  \/ /\ events'[g] = events[g] /\ run'[g].next_seq = run[g].next_seq
     /\ run'[g].output = run[g].output
  \/ /\ \E kind \in {"exited", "closed"} : Logged(g, kind)
     /\ run'[g].output = run[g].output
  \/ /\ Logged(g, "output")
     /\ run'[g].output = Retain(run[g].output, run[g].next_seq)
     /\ left[g] > 0 /\ left' = [left EXCEPT ![g] = @ - 1]

\* Publishing logs one event on e and nothing elsewhere.
LEMMA PublishLogs ==
  ASSUME ProcInv, NEW g \in Gens, NEW e \in Gens, NEW kind \in {"output", "exited", "closed"},
         NEW fields \in Record, Publish(g, e, kind, fields), fields.next_seq = run[e].next_seq
  PROVE  /\ Logged(e, kind) /\ run'[e].output = fields.output
         /\ run'[e].closed = fields.closed
         /\ \A h \in Gens : h # e => run'[h] = run[h] /\ events'[h] = events[h]
<1> DEFINE ev == [kind |-> kind, seq |-> run[e].next_seq, src |-> g]
<1>1. /\ run \in [Gens -> Record] /\ events \in [Gens -> Seq(Event)]
      /\ run' = [run EXCEPT ![e] = [fields EXCEPT !.next_seq = @ + 1]]
      /\ events' = [events EXCEPT ![e] = Append(events[e], ev)]
  BY DEF ProcInv, TypeOK, Publish
<1>2. ev \in Event /\ ev.kind = kind
  BY <1>1 DEF Event, Record
<1> HIDE DEF ev
<1>3. /\ run'[e].next_seq = run[e].next_seq + 1 /\ run'[e].output = fields.output
      /\ run'[e].closed = fields.closed
  BY <1>1 DEF Record
<1>4. events'[e] = Append(events[e], ev)
  BY <1>1
<1>5. \A h \in Gens : h # e => run'[h] = run[h] /\ events'[h] = events[h]
  BY <1>1
<1> QED BY <1>2, <1>3, <1>4, <1>5 DEF Logged

\* Every step lets every log grow by one event at most, only a chunk changes
\* the retained output, and a process stays closed.
LEMMA LogsGrow ==
  ASSUME ProcInv, [Next]_vars
  PROVE  \A h \in Gens : Grows(h) /\ (run[h].closed => run'[h].closed /\ run'[h].output = run[h].output)
<1> DEFINE Goal == \A h \in Gens : Grows(h) /\ (run[h].closed => run'[h].closed /\ run'[h].output = run[h].output)
<1> SUFFICES Goal
  OBVIOUS
<1>0. ASSUME UNCHANGED <<events, run>> PROVE Goal
  BY <1>0 DEF Grows
<1>t. run \in [Gens -> Record]
  BY DEF ProcInv, TypeOK
<1>1. ASSUME NEW g \in Gens, NEW t \in Tasks, StreamOutput(g, t) PROVE Goal
  <2>1. of[g] \in Pids /\ Active(g) /\ StreamActive(g, t) /\ t \in Streams
    BY <1>1, TaskStarted DEF StreamOutput, Active, StreamActive
  <2>2. CASE Lookup(g) \in Gens
    <3> DEFINE fields == [run[g] EXCEPT !.output = Retain(@, run[g].next_seq)]
    <3>1. Lookup(g) = g /\ ~shut
      BY <2>1, <2>2, OwnLookup
    <3>2. /\ Publish(g, g, "output", fields) /\ left[g] > 0
          /\ left' = [left EXCEPT ![g] = @ - 1]
      BY <1>1, <2>2, <3>1 DEF StreamOutput
    <3>3. ~run[g].closed
      BY <2>1, <3>1, NoneAssumption DEF ProcInv, RecordInv, Count, Streams
    <3>4. run[g] \in Record /\ run[g].output \in Seq(Nat) /\ run[g].next_seq \in Nat
      BY <1>t DEF Record
    <3>5. /\ fields \in Record /\ fields.next_seq = run[g].next_seq
          /\ fields.output = Retain(run[g].output, run[g].next_seq)
      BY <3>4, RetainTyped DEF Record
    <3> HIDE DEF fields
    <3>6. /\ Logged(g, "output") /\ run'[g].output = fields.output
          /\ \A h \in Gens : h # g => run'[h] = run[h] /\ events'[h] = events[h]
      BY <3>2, <3>5, PublishLogs
    <3> QED BY <3>2, <3>3, <3>5, <3>6 DEF Grows
  <2>3. CASE Lookup(g) \notin Gens
    BY <1>0, <1>1, <2>3 DEF StreamOutput
  <2> QED BY <2>2, <2>3
<1>2. ASSUME NEW g \in Gens, WatchExit(g) PROVE Goal
  <2>1. CASE Lookup(g) \in Gens
    <3>1. PICK e \in Gens : e = Lookup(g)
      BY <2>1
    <3> DEFINE fields == [run[e] EXCEPT !.exited = TRUE]
    <3>2. Publish(g, e, "exited", fields)
      BY <1>2, <2>1, <3>1 DEF WatchExit
    <3>3. /\ fields \in Record /\ fields.next_seq = run[e].next_seq
          /\ fields.output = run[e].output /\ fields.closed = run[e].closed
      BY <1>t DEF Record
    <3> HIDE DEF fields
    <3>4. /\ Logged(e, "exited") /\ run'[e].output = fields.output /\ run'[e].closed = fields.closed
          /\ \A h \in Gens : h # e => run'[h] = run[h] /\ events'[h] = events[h]
      BY <3>2, <3>3, PublishLogs
    <3> QED BY <3>3, <3>4 DEF Grows
  <2>2. CASE Lookup(g) \notin Gens
    BY <1>0, <1>2, <2>2 DEF WatchExit
  <2> QED BY <2>1, <2>2
<1>3. ASSUME NEW g \in Gens, NEW t \in Tasks, MaybeEmitClosed(g, t) PROVE Goal
  <2>1. CASE Lookup(g) \in Gens /\ Closable(Lookup(g))
    <3>1. PICK e \in Gens : e = Lookup(g) /\ Closable(e)
      BY <2>1
    <3> DEFINE fields == [run[e] EXCEPT !.closed = TRUE]
    <3>2. Publish(g, e, "closed", fields)
      BY <1>3, <2>1, <3>1 DEF MaybeEmitClosed
    <3>3. /\ fields \in Record /\ fields.next_seq = run[e].next_seq
          /\ fields.output = run[e].output /\ fields.closed
      BY <1>t DEF Record
    <3> HIDE DEF fields
    <3>4. /\ Logged(e, "closed") /\ run'[e].output = fields.output /\ run'[e].closed = fields.closed
          /\ \A h \in Gens : h # e => run'[h] = run[h] /\ events'[h] = events[h]
      BY <3>2, <3>3, PublishLogs
    <3> QED BY <3>3, <3>4 DEF Grows
  <2>2. CASE ~(Lookup(g) \in Gens /\ Closable(Lookup(g)))
    BY <1>0, <1>3, <2>2 DEF MaybeEmitClosed
  <2> QED BY <2>1, <2>2
<1>4. ASSUME NEW g \in Gens, NEW t \in Tasks, FinishOutputStream(g, t) PROVE Goal
  <2>1. /\ UNCHANGED events
        /\ \/ UNCHANGED run
           \/ \E e \in Gens : run' = [run EXCEPT ![e].open = IF @ > 0 THEN @ - 1 ELSE 0]
    BY <1>4 DEF FinishOutputStream
  <2>2. ASSUME NEW h \in Gens
        PROVE  /\ run'[h].output = run[h].output /\ run'[h].next_seq = run[h].next_seq
               /\ run'[h].closed = run[h].closed
    <3>1. CASE UNCHANGED run
      BY <3>1
    <3>2. ASSUME NEW e \in Gens, run' = [run EXCEPT ![e].open = IF @ > 0 THEN @ - 1 ELSE 0]
          PROVE  /\ run'[h].output = run[h].output /\ run'[h].next_seq = run[h].next_seq
                 /\ run'[h].closed = run[h].closed
      BY <3>2, <1>t DEF Record
    <3> QED BY <3>1, <3>2, <2>1
  <2> QED BY <2>1, <2>2 DEF Grows
<1> HIDE DEF Goal
<1>5. ASSUME NEW g \in Gens, NEW t \in Tasks, TaskStep(g, t) PROVE Goal
  BY <1>0, <1>1, <1>3, <1>4, <1>5 DEF TaskStep, StreamEof, Notify
<1>6. ASSUME NEW p \in Pids,
             \/ StartProcess(p) \/ SpawnFails(p) \/ CancelStart(p)
             \/ TerminateProcess(p) \/ Follow(p)
             \/ \E g \in Gens : SpawnSucceeds(p, g)
      PROVE  Goal
  BY <1>0, <1>6 DEF StartProcess, SpawnFails, CancelStart, TerminateProcess, Follow, SpawnSucceeds
<1>7. CASE \/ \E g \in Gens : RetentionElapses(g)
           \/ \E max \in MaxBytes : ExecRead(max)
           \/ Shutdown \/ SetNotificationSender \/ Transmit \/ UNCHANGED vars
  BY <1>0, <1>7 DEF RetentionElapses, ExecRead, Shutdown, SetNotificationSender, Transmit, vars
<1> QED BY <1>2, <1>5, <1>6, <1>7 DEF Next

\* Retained chunks stay output events of the log, in its order.
LEMMA OutputGrows ==
  ASSUME ProcInv, OutputInv, \A h \in Gens : Grows(h)
  PROVE  /\ OutputInv'
         /\ \A g \in Gens : \A seq \in Retained(g)' : seq \in Retained(g) \/ seq = run[g].next_seq
<1> SUFFICES ASSUME NEW g \in Gens
             PROVE  /\ Increasing(run'[g].output)
                    /\ \A seq \in Retained(g)' : seq \in DOMAIN events'[g] /\ events'[g][seq].kind = "output"
                    /\ \A seq \in Retained(g)' : seq \in Retained(g) \/ seq = run[g].next_seq
  BY DEF OutputInv, Increasing
<1> DEFINE output == run[g].output
           n == run[g].next_seq
<1>1. /\ events[g] \in Seq(Event) /\ output \in Seq(Nat) /\ n \in Nat
      /\ n = Len(events[g]) + 1 /\ DOMAIN events[g] = 1 .. Len(events[g]) /\ Len(events[g]) \in Nat
  BY DEF ProcInv, TypeOK, SeqsContiguous, Record
<1>2. /\ Increasing(output)
      /\ \A i \in DOMAIN output : output[i] \in DOMAIN events[g] /\ events[g][output[i]].kind = "output"
  BY DEF OutputInv, Retained
<1>3. Grows(g)
  OBVIOUS
<1> HIDE DEF n, output
<1>4. CASE events'[g] = events[g] /\ run'[g].output = output
  BY <1>2, <1>4 DEF Retained, output
<1>5. ASSUME NEW kind, Logged(g, kind)
      PROVE  /\ \A i \in DOMAIN events[g] : i \in DOMAIN events'[g] /\ events'[g][i] = events[g][i]
             /\ n \in DOMAIN events'[g] /\ events'[g][n].kind = kind
  <2>1. PICK ev \in Event : ev.kind = kind /\ events'[g] = Append(events[g], ev)
    BY <1>5 DEF Logged
  <2>2. /\ DOMAIN events'[g] = 1 .. Len(events[g]) + 1
        /\ \A i \in 1 .. Len(events[g]) : events'[g][i] = events[g][i]
        /\ events'[g][Len(events[g]) + 1] = ev
    BY <2>1, <1>1
  <2> QED BY <2>1, <2>2, <1>1
<1>6. CASE (\E kind : Logged(g, kind)) /\ run'[g].output = output
  <2>1. PICK kind : Logged(g, kind)
    BY <1>6
  <2>2. \A i \in DOMAIN events[g] : i \in DOMAIN events'[g] /\ events'[g][i] = events[g][i]
    BY <2>1, <1>5
  <2> QED BY <2>2, <1>2, <1>6 DEF Retained, output
<1>7. CASE Logged(g, "output") /\ run'[g].output = Retain(output, n)
  <2>1. /\ \A i \in DOMAIN events[g] : i \in DOMAIN events'[g] /\ events'[g][i] = events[g][i]
        /\ n \in DOMAIN events'[g] /\ events'[g][n].kind = "output"
    BY <1>5, <1>7
  <2>2. \A i \in DOMAIN output : output[i] < n
    BY <1>1, <1>2
  <2>3. /\ Increasing(Retain(output, n))
        /\ \A i \in DOMAIN Retain(output, n) :
             Retain(output, n)[i] = n \/ \E j \in DOMAIN output : output[j] = Retain(output, n)[i]
    BY <1>1, <1>2, <2>2, RetainKeeps
  <2>4. \A seq \in Retained(g)' : seq = n \/ \E j \in DOMAIN output : output[j] = seq
    BY <2>3, <1>7 DEF Retained
  <2>5. \A seq \in Retained(g)' : seq \in DOMAIN events'[g] /\ events'[g][seq].kind = "output"
    BY <2>1, <2>4, <1>2
  <2>6. \A seq \in Retained(g)' : seq \in Retained(g) \/ seq = n
    BY <2>4 DEF Retained, output
  <2> QED BY <2>3, <2>5, <2>6, <1>7 DEF n
<1>8. \/ events'[g] = events[g] /\ run'[g].output = output
      \/ (\E kind : Logged(g, kind)) /\ run'[g].output = output
      \/ Logged(g, "output") /\ run'[g].output = Retain(output, n)
  BY <1>3 DEF Grows, output, n
<1> QED BY <1>4, <1>6, <1>7, <1>8

\* The reader's answers are kept while the process goes on.
LEMMA ReaderKept ==
  ASSUME ProcInv, ReaderInv, UNCHANGED reader, OutputInv',
         \A h \in Gens : Grows(h) /\ (run[h].closed => run'[h].closed /\ run'[h].output = run[h].output),
         \A h \in Gens : \A seq \in Retained(h)' : seq \in Retained(h) \/ seq = run[h].next_seq
  PROVE  ReaderInv'
<1>1. CASE reader.gen = None
  BY <1>1 DEF ReaderInv, ReaderMissesNothing
<1>2. CASE reader.gen # None
  <2> DEFINE g == reader.gen
  <2>1. g \in Gens /\ reader.after \in Nat /\ reader.after < run[g].next_seq
    BY <1>2 DEF ReaderInv
  <2>2. run[g].next_seq \in Nat
    BY <2>1 DEF ProcInv, TypeOK, Record
  <2>3. run'[g].next_seq = run[g].next_seq \/ run'[g].next_seq = run[g].next_seq + 1
    BY <2>1 DEF Grows, Logged
  <2>4. run[g].closed => run'[g].closed /\ Retained(g)' = Retained(g)
    BY <2>1 DEF Retained
  <2>5. \A seq \in Retained(g)' : seq \in Retained(g) \/ seq = run[g].next_seq
    BY <2>1
  <2>6. reader.after < run'[g].next_seq
    BY <2>1, <2>2, <2>3
  <2>7. ReaderMissesNothing'
    <3> SUFFICES ASSUME NEW seq \in Retained(g)', seq <= reader.after \/ reader.closed
                 PROVE  \E i \in DOMAIN reader.got : reader.got[i] = seq
      BY <1>2 DEF ReaderInv, ReaderMissesNothing
    <3>1. seq \in Retained(g)
      BY <1>2, <2>1, <2>2, <2>4, <2>5 DEF ReaderInv
    <3> QED BY <3>1, <1>2 DEF ReaderInv, ReaderMissesNothing
  <2> QED BY <1>2, <2>4, <2>6, <2>7 DEF ReaderInv
<1> QED BY <1>1, <1>2

\* An answer continues where the cursor is: it skips nothing that is retained.
LEMMA ChunksContinue ==
  ASSUME ProcInv, OutputInv, NEW g \in Gens, NEW after \in Nat, NEW max \in Nat, after < run[g].next_seq
  PROVE  LET c == Chunks(g, after, max)
             next == NextSeq(g, c)
         IN /\ c \in Seq(Nat) /\ Increasing(c) /\ next \in Nat /\ after < next /\ next <= run[g].next_seq
            /\ \A i \in DOMAIN c : c[i] > after /\ c[i] < next /\ c[i] \in Retained(g)
            /\ \A seq \in Retained(g) :
                 \/ seq <= after
                 \/ seq >= next /\ Len(c) # Len(Newer(g, after))
                 \/ \E i \in DOMAIN c : c[i] = seq
            /\ c = <<>> => Len(c) = Len(Newer(g, after))
<1> DEFINE output == run[g].output
           newer == Newer(g, after)
           m == IF Len(newer) < (IF max = 0 THEN 1 ELSE max) THEN Len(newer) ELSE (IF max = 0 THEN 1 ELSE max)
           c == Chunks(g, after, max)
           next == NextSeq(g, c)
           top == run[g].next_seq
<1>1. /\ output \in Seq(Nat) /\ top \in Nat /\ Increasing(output)
      /\ \A i \in DOMAIN output : output[i] \in Nat /\ output[i] < top
  <2>1. /\ output \in Seq(Nat) /\ top \in Nat /\ events[g] \in Seq(Event) /\ top = Len(events[g]) + 1
    BY DEF ProcInv, TypeOK, SeqsContiguous, Record
  <2>2. \A i \in DOMAIN output : output[i] \in DOMAIN events[g]
    BY DEF OutputInv, Retained
  <2> QED BY <2>1, <2>2 DEF OutputInv
<1>2. /\ newer \in Seq(Nat) /\ Increasing(newer)
      /\ \A i \in DOMAIN newer : newer[i] > after /\ \E j \in DOMAIN output : output[j] = newer[i]
      /\ \A j \in DOMAIN output : output[j] > after => \E i \in DOMAIN newer : newer[i] = output[j]
  BY <1>1, AfterKeeps DEF Newer
<1>3. c = SubSeq(newer, 1, m)
  BY DEF Chunks
<1> HIDE DEF output, newer, c
<1>4. Len(newer) \in Nat /\ DOMAIN newer = 1 .. Len(newer) /\ m \in 0 .. Len(newer) /\ (m = 0 => Len(newer) = 0)
  BY <1>2
<1> HIDE DEF m
<1>5. /\ c \in Seq(Nat) /\ Increasing(c) /\ Len(c) = m /\ DOMAIN c = 1 .. m
      /\ \A i \in DOMAIN c : i \in DOMAIN newer /\ c[i] = newer[i]
      /\ \A j \in DOMAIN newer : j <= m \/ (m > 0 => newer[j] > c[m])
  BY <1>2, <1>3, <1>4, PrefixKeeps
<1>6. \A i \in DOMAIN c : /\ c[i] \in Nat /\ c[i] > after /\ c[i] < top
                         /\ \E j \in DOMAIN output : output[j] = c[i]
  BY <1>1, <1>2, <1>5
<1>7. CASE m = 0
  <2>1. c = <<>> /\ DOMAIN c = {} /\ Len(newer) = 0 /\ DOMAIN newer = {}
    BY <1>4, <1>5, <1>7
  <2>2. next = top
    BY <2>1 DEF NextSeq
  <2>3. \A j \in DOMAIN output : output[j] <= after
    BY <2>1, <1>1, <1>2
  <2>4. \A seq \in Retained(g) : seq <= after
    BY <2>3 DEF Retained, output
  <2>5. Len(c) = Len(newer)
    BY <2>1
  <2> QED BY <2>1, <2>2, <2>4, <2>5, <1>1, <1>5 DEF c, newer
<1>8. CASE m # 0
  <2>1. m \in DOMAIN c /\ c # <<>> /\ Len(c) = m
    BY <1>4, <1>5, <1>8
  <2>2. next = c[m] + 1 /\ c[m] \in Nat /\ c[m] < top /\ c[m] > after
    BY <2>1, <1>6 DEF NextSeq
  <2>3. \A i \in DOMAIN c : c[i] < next
    <3> SUFFICES ASSUME NEW i \in DOMAIN c PROVE c[i] < next
      OBVIOUS
    <3>1. i <= m /\ i \in Nat /\ m \in Nat /\ c[i] \in Nat
      BY <1>4, <1>5, <1>6
    <3>2. i = m \/ c[i] < c[m]
      BY <3>1, <2>1, <1>5 DEF Increasing
    <3> QED BY <3>1, <3>2, <2>2
  <2>4. ASSUME NEW seq \in Retained(g)
        PROVE  \/ seq <= after
               \/ seq >= next /\ Len(c) # Len(newer)
               \/ \E i \in DOMAIN c : c[i] = seq
    <3>1. PICK j \in DOMAIN output : output[j] = seq
      BY DEF Retained, output
    <3>2. CASE seq > after
      <4>1. PICK i \in DOMAIN newer : newer[i] = seq
        BY <3>1, <3>2, <1>2
      <4>2. CASE i <= m
        <5>1. i \in DOMAIN c
          BY <4>2, <1>4, <1>5
        <5> QED BY <5>1, <4>1, <1>5
      <4>3. CASE ~(i <= m)
        <5>1. newer[i] > c[m]
          BY <4>3, <1>4, <1>5, <1>8
        <5>2. Len(newer) # m
          <6>1. i \in 1 .. Len(newer)
            BY <1>4
          <6>2. i <= Len(newer)
            BY <6>1, <1>4
          <6> QED BY <6>2, <4>3
        <5> QED BY <5>1, <5>2, <4>1, <2>1, <2>2, <3>1, <1>1
      <4> QED BY <4>2, <4>3
    <3>3. seq \in Nat
      BY <3>1, <1>1
    <3> QED BY <3>2, <3>3
  <2>5. \A i \in DOMAIN c : c[i] \in Retained(g)
    BY <1>6 DEF Retained, output
  <2>6. next \in Nat /\ after < next /\ next <= top
    BY <2>2, <1>1
  <2> QED BY <2>1, <2>3, <2>4, <2>5, <2>6, <1>5, <1>6 DEF c, newer
<1> QED BY <1>7, <1>8

\* A read appends what it answers and moves the cursor behind it.
LEMMA ReaderReads ==
  ASSUME ProcInv, ReaderInv, NEW max \in MaxBytes, ExecRead(max)
  PROVE  ReaderInv'
<1> DEFINE g == reader.gen
           after == reader.after
           got == reader.got
           c == Chunks(g, after, max)
           next == NextSeq(g, c)
<1>1. /\ g \in Gens /\ after \in Nat /\ got \in Seq(Nat) /\ ~reader.closed /\ g # None
      /\ after < run[g].next_seq /\ max \in Nat
  BY BoundsAssumption DEF ExecRead, ReaderInv
<1>2. /\ Increasing(got) /\ \A i \in DOMAIN got : got[i] <= after
      /\ \A seq \in Retained(g) : seq <= after => \E i \in DOMAIN got : got[i] = seq
  BY <1>1 DEF ReaderInv, ReaderMissesNothing
<1>3. /\ reader' = [reader EXCEPT !.got = got \o c, !.after = next - 1,
                      !.closed = run[g].closed /\ c = <<>>]
      /\ UNCHANGED <<run, events>>
  BY DEF ExecRead
<1>4. OutputInv
  BY DEF ReaderInv
<1>5. /\ c \in Seq(Nat) /\ Increasing(c) /\ next \in Nat /\ after < next /\ next <= run[g].next_seq
      /\ \A i \in DOMAIN c : c[i] > after /\ c[i] < next /\ c[i] \in Retained(g)
      /\ \A seq \in Retained(g) :
           \/ seq <= after
           \/ seq >= next /\ Len(c) # Len(Newer(g, after))
           \/ \E i \in DOMAIN c : c[i] = seq
      /\ c = <<>> => Len(c) = Len(Newer(g, after))
  BY <1>1, <1>4, ChunksContinue
<1>c. \A i \in DOMAIN c : c[i] > after
  BY <1>5
<1> HIDE DEF c, next, got, after
<1>6. /\ got \o c \in Seq(Nat) /\ Increasing(got \o c)
      /\ \A i \in DOMAIN got : \E j \in DOMAIN (got \o c) : (got \o c)[j] = got[i]
      /\ \A i \in DOMAIN c : \E j \in DOMAIN (got \o c) : (got \o c)[j] = c[i]
      /\ \A j \in DOMAIN (got \o c) :
           \/ \E i \in DOMAIN got : (got \o c)[j] = got[i]
           \/ \E i \in DOMAIN c : (got \o c)[j] = c[i]
  <2>1. got \in Seq(Nat) /\ c \in Seq(Nat) /\ Increasing(got) /\ Increasing(c) /\ after \in Nat
    BY <1>1, <1>2, <1>5
  <2>2. \A i \in DOMAIN got : got[i] <= after
    BY <1>2
  <2> QED BY <2>1, <2>2, <1>c, ConcatKeeps
<1>7. /\ reader'.gen = g /\ reader'.after = next - 1 /\ reader'.got = got \o c
      /\ reader'.closed = (run[g].closed /\ c = <<>>)
      /\ reader' \in [gen : Gens \union {None}, after : Nat, got : Seq(Nat), closed : BOOLEAN]
  <2>1. reader \in [gen : Gens \union {None}, after : Nat, got : Seq(Nat), closed : BOOLEAN]
    BY DEF ReaderInv
  <2>2. next - 1 \in Nat
    BY <1>1, <1>5
  <2> QED BY <2>1, <2>2, <1>3, <1>6
<1>8. \A j \in DOMAIN (got \o c) : (got \o c)[j] <= next - 1
  <2> SUFFICES ASSUME NEW j \in DOMAIN (got \o c) PROVE (got \o c)[j] <= next - 1
    OBVIOUS
  <2>1. CASE \E i \in DOMAIN got : (got \o c)[j] = got[i]
    <3>1. PICK i \in DOMAIN got : (got \o c)[j] = got[i]
      BY <2>1
    <3>2. got[i] \in Nat /\ got[i] <= after
      BY <1>1, <1>2
    <3> QED BY <3>1, <3>2, <1>1, <1>5
  <2>2. CASE \E i \in DOMAIN c : (got \o c)[j] = c[i]
    <3>1. PICK i \in DOMAIN c : (got \o c)[j] = c[i]
      BY <2>2
    <3>2. c[i] \in Nat /\ c[i] < next
      BY <1>5
    <3> QED BY <3>1, <3>2, <1>5
  <2> QED BY <2>1, <2>2, <1>6
<1>9. ASSUME NEW seq \in Retained(g), seq <= next - 1 \/ reader'.closed
      PROVE  \E j \in DOMAIN (got \o c) : (got \o c)[j] = seq
  <2>1. CASE seq <= after
    <3>1. PICK i \in DOMAIN got : got[i] = seq
      BY <2>1, <1>2
    <3> QED BY <3>1, <1>6
  <2>2. CASE \E i \in DOMAIN c : c[i] = seq
    <3>1. PICK i \in DOMAIN c : c[i] = seq
      BY <2>2
    <3> QED BY <3>1, <1>6
  <2>3. CASE seq >= next /\ Len(c) # Len(Newer(g, after))
    <3>1. ~reader'.closed
      BY <2>3, <1>5, <1>7
    <3>2. seq \in Nat
      BY <1>1 DEF ProcInv, TypeOK, Record, Retained
    <3> QED BY <3>1, <3>2, <2>3, <1>5, <1>9
  <2> QED BY <2>1, <2>2, <2>3, <1>5
<1>10. Retained(g)' = Retained(g) /\ OutputInv'
  BY <1>3, <1>4 DEF Retained, OutputInv
<1>11. ReaderMissesNothing'
  BY <1>6, <1>7, <1>9, <1>10 DEF ReaderMissesNothing
<1>12. next - 1 < run[g].next_seq
  <2>1. run[g].next_seq \in Nat
    BY <1>1 DEF ProcInv, TypeOK, Record
  <2> QED BY <2>1, <1>5
<1>13. /\ reader'.after < run'[reader'.gen].next_seq
       /\ reader'.closed => run'[reader'.gen].closed
       /\ \A i \in DOMAIN reader'.got : reader'.got[i] <= reader'.after
  BY <1>3, <1>7, <1>8, <1>12
<1> QED BY <1>7, <1>10, <1>11, <1>13 DEF ReaderInv

\* A reader starts before the first event it may see.
LEMMA ReaderFollows ==
  ASSUME ProcInv, ReaderInv, NEW p \in Pids, Follow(p)
  PROVE  ReaderInv'
<1>1. /\ entry[p] \in Gens /\ UNCHANGED <<run, events>>
      /\ reader' = [gen |-> entry[p], after |-> 0, got |-> <<>>, closed |-> FALSE]
  BY DEF Follow, NoReader
<1>2. OutputInv' /\ \A g \in Gens : Retained(g)' = Retained(g)
  BY <1>1 DEF ReaderInv, OutputInv, Retained
<1>3. run[entry[p]].next_seq > 0 /\ \A seq \in Retained(entry[p]) : seq \in Nat /\ seq > 0
  <2>1. events[entry[p]] \in Seq(Event) /\ run[entry[p]].next_seq = Len(events[entry[p]]) + 1
    BY <1>1 DEF ProcInv, TypeOK, SeqsContiguous
  <2>2. \A seq \in Retained(entry[p]) : seq \in DOMAIN events[entry[p]]
    BY <1>1 DEF ReaderInv, OutputInv
  <2> QED BY <2>1, <2>2
<1>4. ReaderMissesNothing'
  <2>1. \A seq \in Retained(entry[p]) : ~(seq <= 0)
    BY <1>3
  <2>2. reader'.gen = entry[p] /\ reader'.after = 0 /\ reader'.closed = FALSE /\ reader'.got = <<>>
    BY <1>1
  <2>3. Increasing(<<>>)
    BY DEF Increasing
  <2>4. Retained(reader.gen)' = Retained(entry[p])
    BY <1>1, <2>2 DEF Retained
  <2> QED BY <2>1, <2>2, <2>3, <2>4 DEF ReaderMissesNothing
<1>5. reader' \in [gen : Gens \union {None}, after : Nat, got : Seq(Nat), closed : BOOLEAN]
  BY <1>1
<1>6. /\ reader'.after < run'[reader'.gen].next_seq
      /\ reader'.closed => run'[reader'.gen].closed
      /\ \A i \in DOMAIN reader'.got : reader'.got[i] <= reader'.after
  BY <1>1, <1>3
<1> QED BY <1>2, <1>4, <1>5, <1>6 DEF ReaderInv

LEMMA ReaderInit == Init => ReaderInv
<1> SUFFICES ASSUME Init PROVE ReaderInv
  OBVIOUS
<1>1. OutputInv
  BY DEF Init, OutputInv, Increasing, Retained, Fresh
<1>2. /\ reader = [gen |-> None, after |-> 0, got |-> <<>>, closed |-> FALSE] /\ reader.gen = None
      /\ reader \in [gen : Gens \union {None}, after : Nat, got : Seq(Nat), closed : BOOLEAN]
  BY DEF Init, NoReader
<1> QED BY <1>1, <1>2 DEF ReaderInv, ReaderMissesNothing

LEMMA ReaderStep == ProcInv /\ ReaderInv /\ [Next]_vars => ReaderInv'
<1> SUFFICES ASSUME ProcInv, ReaderInv, [Next]_vars PROVE ReaderInv'
  OBVIOUS
<1>1. ASSUME NEW p \in Pids, Follow(p) PROVE ReaderInv'
  BY <1>1, ReaderFollows
<1>2. ASSUME NEW max \in MaxBytes, ExecRead(max) PROVE ReaderInv'
  BY <1>2, ReaderReads
<1>3. CASE UNCHANGED reader
  <2>1. \A h \in Gens : Grows(h) /\ (run[h].closed => run'[h].closed /\ run'[h].output = run[h].output)
    BY LogsGrow
  <2>2. OutputInv
    BY DEF ReaderInv
  <2>3. /\ OutputInv'
        /\ \A h \in Gens : \A seq \in Retained(h)' : seq \in Retained(h) \/ seq = run[h].next_seq
    BY <2>1, <2>2, OutputGrows
  <2> QED BY <2>1, <2>3, <1>3, ReaderKept
<1>4. \/ \E p \in Pids : Follow(p)
      \/ \E max \in MaxBytes : ExecRead(max)
      \/ UNCHANGED reader
  <2>1. ASSUME NEW g \in Gens, NEW t \in Tasks, TaskStep(g, t) PROVE UNCHANGED reader
    BY <2>1 DEF TaskStep, StreamOutput, StreamEof, Notify, FinishOutputStream, MaybeEmitClosed
  <2>2. ASSUME NEW g \in Gens, WatchExit(g) \/ RetentionElapses(g) PROVE UNCHANGED reader
    BY <2>2 DEF WatchExit, RetentionElapses
  <2>3. ASSUME NEW p \in Pids,
               \/ StartProcess(p) \/ SpawnFails(p) \/ CancelStart(p) \/ TerminateProcess(p)
               \/ \E g \in Gens : SpawnSucceeds(p, g)
        PROVE  UNCHANGED reader
    BY <2>3 DEF StartProcess, SpawnFails, CancelStart, TerminateProcess, SpawnSucceeds
  <2>4. ASSUME Shutdown \/ SetNotificationSender \/ Transmit \/ UNCHANGED vars PROVE UNCHANGED reader
    BY <2>4 DEF Shutdown, SetNotificationSender, Transmit, vars
  <2> QED BY <2>1, <2>2, <2>3, <2>4 DEF Next
<1> QED BY <1>1, <1>2, <1>3, <1>4

\* A client that follows a process with exec_read misses no retained chunk and
\* sees none twice, for all answer sizes, retention limits and interleavings.
THEOREM ReaderMissesNothingAlways == Spec => []ReaderMissesNothing
<1>1. ReaderInv => ReaderMissesNothing
  BY DEF ReaderInv
<1> QED BY <1>1, ProcSafety, ReaderInit, ReaderStep, PTL DEF Spec

\* Logs keep their shape: each step of a feed preserves it.
LEMMA ShapeStep ==
  ASSUME ProcInv, ShapeInv, [Next]_vars
  PROVE  ShapeInv'
<1> SUFFICES ASSUME NEW g \in Gens
             PROVE  \A i \in DOMAIN events'[g] :
                      /\ events'[g][i].kind = "closed" =>
                           i = Len(events'[g]) /\ \E j \in 1 .. i - 1 : events'[g][j].kind = "exited"
                      /\ events'[g][i].kind = "exited" =>
                           \A j \in DOMAIN events'[g] : events'[g][j].kind = "exited" => j = i
  BY DEF ShapeInv
<1> DEFINE n == Len(events[g])
<1>1. Grows(g) /\ (Feed(g)!Next \/ UNCHANGED Kinds(g))
  BY LogsGrow, FeedStep
<1>2. n \in Nat /\ DOMAIN events[g] = 1 .. n /\ events[g] \in Seq(Event)
  BY DEF ProcInv, TypeOK
<1>3. CASE events'[g] = events[g]
  BY <1>3 DEF ShapeInv
<1>4. CASE \E kind : Logged(g, kind)
  <2>1. PICK ev \in Event : events'[g] = Append(events[g], ev)
    BY <1>4 DEF Logged
  <2>2. /\ DOMAIN events'[g] = 1 .. n + 1 /\ Len(events'[g]) = n + 1
        /\ \A i \in 1 .. n : events'[g][i] = events[g][i]
    BY <2>1, <1>2
  <2>3. Kinds(g)' # Kinds(g)
    <3>1. DOMAIN Kinds(g)' = 1 .. n + 1 /\ DOMAIN Kinds(g) = 1 .. n
      BY <2>2, <1>2 DEF Kinds
    <3>2. n + 1 \in DOMAIN Kinds(g)' /\ n + 1 \notin DOMAIN Kinds(g)
      BY <3>1, <1>2
    <3> QED BY <3>2
  <2>4. Feed(g)!Next
    BY <1>1, <2>3
  <2>5. \A i \in 1 .. n : events[g][i].kind # "closed"
    BY <2>4, <1>2 DEF Feed!Next, Feed!Output, Feed!Exited, Feed!Closed, Feed!Has, Kinds
  <2>7. Kinds(g)'[n + 1] = events'[g][n + 1].kind
    BY <2>2, <1>2 DEF Kinds
  <2>8. \/ events'[g][n + 1].kind = "output"
        \/ events'[g][n + 1].kind = "exited" /\ \A i \in 1 .. n : events[g][i].kind # "exited"
        \/ events'[g][n + 1].kind = "closed" /\ \E i \in 1 .. n : events[g][i].kind = "exited"
    <3>1. /\ Kinds(g) \in Seq({"output", "exited", "closed"}) /\ Len(Kinds(g)) = n
          /\ \A i \in 1 .. n : Kinds(g)[i] = events[g][i].kind
      <4>1. \A i \in 1 .. n : events[g][i] \in Event
        BY <1>2
      <4>2. \A i \in 1 .. n : events[g][i].kind \in {"output", "exited", "closed"}
        BY <4>1 DEF Event
      <4>3. Kinds(g) \in [1 .. n -> {"output", "exited", "closed"}]
        BY <4>2, <1>2 DEF Kinds
      <4> QED BY <4>3, <1>2 DEF Kinds
    <3>2. \A k : Kinds(g)' = Append(Kinds(g), k) => Kinds(g)'[n + 1] = k
      BY <3>1, <1>2
    <3>3. DOMAIN Kinds(g) = 1 .. n
      BY <1>2 DEF Kinds
    <3> QED BY <3>1, <3>2, <3>3, <2>4, <2>7
            DEF Feed!Next, Feed!Output, Feed!Exited, Feed!Closed, Feed!Emit, Feed!Has
  <2>9. \A i \in 1 .. n : events[g][i].kind = "exited" =>
          \A j \in 1 .. n : events[g][j].kind = "exited" => j = i
    BY <1>2 DEF ShapeInv
  <2>10. \A i \in 1 .. n + 1 : i \in 1 .. n \/ i = n + 1
    BY <1>2
  <2>11. (n + 1) - 1 = n
    BY <1>2
  <2> QED BY <2>2, <2>5, <2>8, <2>9, <2>10, <2>11, <1>2
<1> QED BY <1>1, <1>3, <1>4 DEF Grows
=============================================================================
