-------------------------- MODULE ExecStreamProofs --------------------------
(***************************************************************************)
(* Proofs about ExecStream for any number of chunks and any capacities:    *)
(* the client publishes the server's log in order, and a consumer that     *)
(* subscribes in time has no silent gap, whatever it lags behind.          *)
(***************************************************************************)
EXTENDS ExecStream, LocalProcessProofs

LEMMA OneProcess == P \in Pids /\ G \in Gens
BY OneProcessAssumption DEF P, G

(***************************************************************************)
(* The server's part of a step.                                            *)
(***************************************************************************)
ServerInv == ProcInv /\ OutputInv /\ ShapeInv

ServerGrows ==
  /\ Grows(G)
  /\ run[G].closed => run'[G].closed /\ run'[G].output = run[G].output
  /\ \A seq \in Retained(G)' : seq \in Retained(G) \/ seq = run[G].next_seq

\* The server's steps are steps of the process table.
LEMMA ServerNext == ServerStep => Next
BY OneProcess DEF ServerStep, Next

\* Every step keeps the server's invariants; only its own change its log.
LEMMA ServerKeeps ==
  ASSUME ServerInv, [SNext]_svars
  PROVE  /\ ServerInv' /\ ServerGrows
         /\ ServerStep \/ UNCHANGED <<of, run, events, note, left>>
<1>1. CASE ServerStep
  <2>1. Next
    BY <1>1, ServerNext
  <2>2. /\ \A h \in Gens : Grows(h)
        /\ \A h \in Gens : run[h].closed => run'[h].closed /\ run'[h].output = run[h].output
    BY <2>1, LogsGrow DEF ServerInv
  <2>3. /\ OutputInv'
        /\ \A g \in Gens : \A seq \in Retained(g)' : seq \in Retained(g) \/ seq = run[g].next_seq
    BY <2>2, OutputGrows DEF ServerInv
  <2>4. ProcInv' /\ ShapeInv'
    BY <2>1, ProcStep, ShapeStep DEF ServerInv
  <2> QED BY <1>1, <2>2, <2>3, <2>4, OneProcess DEF ServerInv, ServerGrows
<1>2. CASE UNCHANGED Unrecorded /\ UNCHANGED <<killed, note, left>> /\ sender' \in BOOLEAN
  <2>1. ProcInv'
    BY <1>2, UnrecordedStutter DEF ServerInv, ProcInv, TypeOK
  <2>2. OutputInv' /\ ShapeInv' /\ Retained(G)' = Retained(G) /\ Grows(G)
    BY <1>2 DEF ServerInv, OutputInv, ShapeInv, Retained, Grows, Unrecorded
  <2> QED BY <1>2, <2>1, <2>2 DEF ServerInv, ServerGrows, Unrecorded
<1>3. sender \in BOOLEAN
  BY DEF ServerInv, ProcInv, TypeOK
<1>4. CASE Disconnect
  BY <1>2, <1>4 DEF Disconnect, Unrecorded
<1>5. CASE HandleNotification
  BY <1>2, <1>3, <1>5 DEF HandleNotification, Unrecorded
<1>6. CASE UNCHANGED vars
  BY <1>2, <1>3, <1>6 DEF vars, Unrecorded
<1>7. ServerStep \/ Disconnect \/ HandleNotification \/ UNCHANGED vars
  BY DEF SNext, svars, Subscribe, PublishReady, ReaderDrains, Recv, RecoverRead, RecoverFails, RecoverApply
<1> QED BY <1>1, <1>4, <1>5, <1>6, <1>7

\* The log of G in numbers: it only grows at its end.
LEMMA LogLength ==
  ASSUME ServerInv
  PROVE  /\ Len(events[G]) \in Nat /\ DOMAIN events[G] = 1 .. Len(events[G])
         /\ run[G].next_seq = Len(events[G]) + 1
         /\ run[G].output \in Seq(Nat)
         /\ \A seq \in Retained(G) : seq \in 1 .. Len(events[G]) /\ Kind(seq) = "output"
         /\ \A i \in 1 .. Len(events[G]) : Kind(i) \in {"output", "exited", "closed"}
<1>1. events[G] \in Seq(Event) /\ run[G].next_seq = Len(events[G]) + 1 /\ run[G].output \in Seq(Nat)
  BY OneProcess DEF ServerInv, ProcInv, TypeOK, SeqsContiguous, Record
<1>2. \A i \in 1 .. Len(events[G]) : events[G][i] \in Event
  BY <1>1
<1>3. \A i \in 1 .. Len(events[G]) : Kind(i) \in {"output", "exited", "closed"}
  BY <1>2 DEF Event, Kind
<1>4. \A seq \in Retained(G) : seq \in DOMAIN events[G] /\ Kind(seq) = "output"
  BY OneProcess DEF ServerInv, OutputInv, Kind
<1> QED BY <1>1, <1>3, <1>4

LEMMA LogMonotone ==
  ASSUME ServerInv, ServerGrows
  PROVE  /\ Len(events'[G]) \in Nat /\ Len(events[G]) <= Len(events'[G])
         /\ run'[G].next_seq \in Nat /\ run[G].next_seq <= run'[G].next_seq
         /\ \A i \in 1 .. Len(events[G]) : events'[G][i] = events[G][i]
         /\ \A i \in 1 .. Len(events[G]) : i \in 1 .. Len(events'[G])
<1>1. /\ events[G] \in Seq(Event) /\ run[G].next_seq \in Nat /\ Len(events[G]) \in Nat
  BY OneProcess DEF ServerInv, ProcInv, TypeOK, Record
<1>2. CASE events'[G] = events[G] /\ run'[G].next_seq = run[G].next_seq
  BY <1>1, <1>2
<1>3. CASE \E kind : Logged(G, kind)
  <2>1. PICK ev \in Event : events'[G] = Append(events[G], ev) /\ run'[G].next_seq = run[G].next_seq + 1
    BY <1>3 DEF Logged
  <2>2. /\ Len(events'[G]) = Len(events[G]) + 1
        /\ \A i \in 1 .. Len(events[G]) : events'[G][i] = events[G][i]
    BY <2>1, <1>1
  <2> QED BY <2>1, <2>2, <1>1
<1> QED BY <1>2, <1>3 DEF ServerGrows, Grows

(***************************************************************************)
(* Numbers on their way to the client.                                     *)
(***************************************************************************)
Notes(n) == [gen : Gens \union {None}, seq : 0 .. n]

LEMMA NumberInvSays ==
  NumberInv <=> /\ \A h \in Gens : h # G => of[h] = None
                /\ DOMAIN note = Gens /\ note[G] \in [Tasks -> Notes(Len(events[G]))]
                /\ out \in Seq(Notes(Len(events[G])))
BY DEF NumberInv, Notes

LEMMA NotesGrow ==
  ASSUME ServerInv, ServerGrows
  PROVE  Notes(Len(events[G])) \subseteq Notes(Len(events'[G])) /\ Notes(Len(events[G])) \in SUBSET Notes(Len(events'[G]))
<1>1. /\ Len(events[G]) \in Nat /\ Len(events'[G]) \in Nat /\ Len(events[G]) <= Len(events'[G])
  BY LogLength, LogMonotone
<1>2. 0 .. Len(events[G]) \subseteq 0 .. Len(events'[G])
  BY <1>1
<1> QED BY <1>2 DEF Notes

\* A step that takes no notification and sends none.
LEMMA NumbersKept ==
  ASSUME ServerInv, ServerGrows, NumberInv,
         \A h \in Gens : h # G => of'[h] = of[h],
         UNCHANGED note, out' \in Seq(Notes(Len(events[G])))
  PROVE  NumberInv'
<1>1. Notes(Len(events[G])) \subseteq Notes(Len(events'[G]))
  BY NotesGrow
<1>2. DOMAIN note = Gens /\ note[G] \in [Tasks -> Notes(Len(events[G]))]
  BY NumberInvSays
<1> DEFINE A == Notes(Len(events[G]))
           B == Notes(Len(events'[G]))
<1> HIDE DEF A, B
<1>3. A \subseteq B /\ note[G] \in [Tasks -> A] /\ out' \in Seq(A)
  BY <1>1, <1>2 DEF A, B
<1>4. note[G] \in [Tasks -> B] /\ out' \in Seq(B)
  BY <1>3
<1>5. \A h \in Gens : h # G => of'[h] = None
  BY DEF NumberInv
<1>6. DOMAIN note' = Gens /\ note'[G] \in [Tasks -> Notes(Len(events'[G]))] /\ out' \in Seq(Notes(Len(events'[G])))
  BY <1>2, <1>4 DEF B
<1> QED BY <1>5, <1>6 DEF NumberInv, Notes

\* The process that a task of G finds is G.
LEMMA OnlyG ==
  ASSUME ServerInv, NumberInv, NEW t \in Tasks, task[G][t] # "none", Lookup(G) \in Gens
  PROVE  Lookup(G) = G
<1>1. of[G] \in Pids
  BY TaskStarted, OneProcess DEF ServerInv
<1>2. of[Lookup(G)] = of[G]
  BY <1>1 DEF ServerInv, ProcInv, TableInv, Lookup
<1> QED BY <1>1, <1>2, NoneAssumption DEF NumberInv

\* A task of G that publishes an event takes its number.
LEMMA NumberTaken ==
  ASSUME ServerInv, ServerGrows, NumberInv, NEW t \in Tasks, NEW kind, NEW fields,
         Publish(G, G, kind, fields),
         note' = [note EXCEPT ![G][t] = [gen |-> G, seq |-> run[G].next_seq]],
         UNCHANGED <<of, out>>
  PROVE  NumberInv'
<1> DEFINE A == Notes(Len(events[G]))
           B == Notes(Len(events'[G]))
           x == [gen |-> G, seq |-> run[G].next_seq]
<1>1. A \subseteq B
  BY NotesGrow
<1>2. DOMAIN note = Gens /\ note[G] \in [Tasks -> A] /\ out \in Seq(A)
  BY NumberInvSays
<1>3. x \in B
  <2>1. events' = [events EXCEPT ![G] = Append(@, [kind |-> kind, seq |-> run[G].next_seq, src |-> G])]
    BY DEF Publish
  <2>2. events \in [Gens -> Seq(Event)] /\ G \in Gens
    BY OneProcess DEF ServerInv, ProcInv, TypeOK
  <2>3. Len(events'[G]) = Len(events[G]) + 1
    BY <2>1, <2>2
  <2>4. run[G].next_seq = Len(events[G]) + 1 /\ Len(events[G]) \in Nat
    BY LogLength
  <2> QED BY <2>2, <2>3, <2>4 DEF Notes
<1> HIDE DEF A, B, x
<1>4. note' = [note EXCEPT ![G][t] = x]
  BY DEF x
<1>5. DOMAIN note' = Gens /\ note'[G] = [note[G] EXCEPT ![t] = x]
  BY <1>2, <1>4, OneProcess
<1>6. note'[G] \in [Tasks -> B]
  BY <1>1, <1>2, <1>3, <1>5
<1>7. out' \in Seq(B)
  BY <1>1, <1>2
<1>8. \A h \in Gens : h # G => of'[h] = None
  BY DEF NumberInv
<1>9. note'[G] \in [Tasks -> Notes(Len(events'[G]))] /\ out' \in Seq(Notes(Len(events'[G])))
  BY <1>6, <1>7 DEF B
<1> QED BY <1>5, <1>8, <1>9 DEF NumberInv, Notes

\* Sending hands the number on.
LEMMA NumberSent ==
  ASSUME ServerInv, ServerGrows, NumberInv, NEW t \in Tasks, Notify(G, t)
  PROVE  NumberInv'
<1> DEFINE A == Notes(Len(events[G]))
<1>1. /\ out' = out \/ out' = Append(out, note[G][t])
      /\ note' = [note EXCEPT ![G][t] = NoNote] /\ UNCHANGED <<of, events>>
  BY DEF Notify, Send
<1>2. DOMAIN note = Gens /\ note[G] \in [Tasks -> A] /\ out \in Seq(A)
  BY NumberInvSays
<1>3. NoNote \in A
  BY LogLength DEF Notes, NoNote
<1> HIDE DEF A
<1>4. DOMAIN note' = Gens /\ note'[G] = [note[G] EXCEPT ![t] = NoNote]
  BY <1>1, <1>2, OneProcess
<1>5. note'[G] \in [Tasks -> A]
  BY <1>2, <1>3, <1>4
<1>6. out' \in Seq(A)
  BY <1>1, <1>2
<1>7. \A h \in Gens : h # G => of'[h] = None
  BY <1>1 DEF NumberInv
<1> QED BY <1>1, <1>4, <1>5, <1>6, <1>7 DEF NumberInv, Notes, A

LEMMA NumberStep ==
  ASSUME ServerInv, ServerGrows, NumberInv, [SNext]_svars
  PROVE  NumberInv'
<1>0. out \in Seq(Notes(Len(events[G])))
  BY NumberInvSays
<1>1. ASSUME UNCHANGED <<note, out, of>> PROVE NumberInv'
  BY <1>0, <1>1, NumbersKept
<1>2. ASSUME NEW t \in Tasks, StreamOutput(G, t) PROVE NumberInv'
  <2>1. CASE Lookup(G) \in Gens
    <3>1. Lookup(G) = G
      BY <1>2, <2>1, OnlyG DEF StreamOutput
    <3>2. /\ Publish(G, G, "output", [run[G] EXCEPT !.output = Retain(@, run[G].next_seq)])
          /\ note' = [note EXCEPT ![G][t] = [gen |-> G, seq |-> run[G].next_seq]]
          /\ UNCHANGED <<of, out>>
      BY <1>2, <2>1, <3>1 DEF StreamOutput
    <3> QED BY <3>2, NumberTaken
  <2>2. CASE Lookup(G) \notin Gens
    BY <1>1, <1>2, <2>2 DEF StreamOutput
  <2> QED BY <2>1, <2>2
<1>3. ASSUME WatchExit(G) PROVE NumberInv'
  <2>1. CASE Lookup(G) \in Gens
    <3>0. "exit" \in Tasks
      BY DEF Tasks
    <3>1. Lookup(G) = G
      BY <1>3, <2>1, <3>0, OnlyG DEF WatchExit
    <3>2. /\ Publish(G, G, "exited", [run[G] EXCEPT !.exited = TRUE])
          /\ note' = [note EXCEPT ![G]["exit"] = [gen |-> G, seq |-> run[G].next_seq]]
          /\ UNCHANGED <<of, out>>
      BY <1>3, <2>1, <3>1 DEF WatchExit
    <3> QED BY <3>0, <3>2, NumberTaken
  <2>2. CASE Lookup(G) \notin Gens
    BY <1>1, <1>3, <2>2 DEF WatchExit
  <2> QED BY <2>1, <2>2
<1>4. ASSUME NEW t \in Tasks, MaybeEmitClosed(G, t) PROVE NumberInv'
  <2>1. CASE Lookup(G) \in Gens /\ Closable(Lookup(G))
    <3>1. Lookup(G) = G
      BY <1>4, <2>1, OnlyG DEF MaybeEmitClosed
    <3>2. /\ Publish(G, G, "closed", [run[G] EXCEPT !.closed = TRUE])
          /\ note' = [note EXCEPT ![G][t] = [gen |-> G, seq |-> run[G].next_seq]]
          /\ UNCHANGED <<of, out>>
      BY <1>4, <2>1, <3>1 DEF MaybeEmitClosed
    <3> QED BY <3>2, NumberTaken
  <2>2. CASE ~(Lookup(G) \in Gens /\ Closable(Lookup(G)))
    BY <1>1, <1>4, <2>2 DEF MaybeEmitClosed
  <2> QED BY <2>1, <2>2
<1>5. CASE SpawnSucceeds(P, G)
  <2>1. of \in [Gens -> Pids \union {None}]
    BY DEF ServerInv, ProcInv, TypeOK
  <2>2. (\A h \in Gens : h # G => of'[h] = of[h]) /\ UNCHANGED <<note, out>>
    BY <1>5, <2>1 DEF SpawnSucceeds
  <2> QED BY <2>2, <1>0, NumbersKept
<1>6. CASE ServerStep
  <2>1. ASSUME NEW t \in Tasks, TaskStep(G, t) PROVE NumberInv'
    BY <2>1, <1>1, <1>2, <1>4, NumberSent DEF TaskStep, StreamEof, FinishOutputStream
  <2> QED BY <2>1, <1>1, <1>3, <1>5, <1>6
          DEF ServerStep, StartProcess, TerminateProcess, RetentionElapses
<1>7. CASE Disconnect
  <2>1. PICK n \in 0 .. Len(out) : out' = SubSeq(out, 1, n)
    BY <1>7 DEF Disconnect
  <2> DEFINE A == Notes(Len(events[G]))
  <2> HIDE DEF A
  <2>2. out \in Seq(A)
    BY <1>0 DEF A
  <2>3. out' \in Seq(A)
    BY <2>1, <2>2
  <2>4. UNCHANGED <<note, of>>
    BY <1>7 DEF Disconnect
  <2> QED BY <2>3, <2>4, NumbersKept DEF A
<1>8. CASE HandleNotification
  <2> DEFINE A == Notes(Len(events[G]))
  <2> HIDE DEF A
  <2>1. out \in Seq(A) /\ out # <<>> /\ out' = Tail(out) /\ UNCHANGED <<note, of>>
    BY <1>0, <1>8 DEF A, HandleNotification
  <2>2. out' \in Seq(A)
    BY <2>1
  <2> QED BY <2>1, <2>2, NumbersKept DEF A
<1>9. ServerStep \/ Disconnect \/ HandleNotification \/ UNCHANGED vars
  BY DEF SNext, svars, Subscribe, PublishReady, ReaderDrains, Recv, RecoverRead, RecoverFails, RecoverApply
<1> QED BY <1>1, <1>6, <1>7, <1>8, <1>9 DEF vars

(***************************************************************************)
(* The client's order.                                                     *)
(***************************************************************************)
\* The run of consecutive numbers that a new number completes has an end.
LEMMA RunEnds ==
  ASSUME NEW l \in Nat, NEW m \in Nat, NEW S \in SUBSET ((l + 1) .. m)
  PROVE  /\ RunEnd(l, S) \in S \union {l} /\ RunEnd(l, S) >= l
         /\ (l + 1) .. RunEnd(l, S) \subseteq S
<1> DEFINE D == {x \in S : (l + 1) .. x \subseteq S}
           k == Cardinality(D)
<1>1. IsFiniteSet((l + 1) .. m)
  BY FS_Interval
<1>2. \A x \in S : x \in Nat /\ l + 1 <= x /\ x <= m
  OBVIOUS
<1>3. IsFiniteSet(S)
  BY <1>1, FS_Subset
<1>4. IsFiniteSet(D) /\ k \in Nat
  <2>1. D \in SUBSET S
    OBVIOUS
  <2>2. IsFiniteSet(D)
    BY <2>1, <1>3, FS_Subset
  <2> QED BY <2>2, FS_CardinalityType
<1>5. ASSUME NEW x \in D PROVE x \in (l + 1) .. (l + k)
  <2>0. x \in Nat /\ l + 1 <= x
    BY <1>2
  <2>1. (l + 1) .. x \in SUBSET D
    <3> SUFFICES ASSUME NEW y \in (l + 1) .. x PROVE y \in D
      OBVIOUS
    <3>1. y \in S
      OBVIOUS
    <3>2. (l + 1) .. y \subseteq (l + 1) .. x
      BY <2>0
    <3> QED BY <3>1, <3>2
  <2>2. Cardinality((l + 1) .. x) = x - l
    <3>1. Cardinality((l + 1) .. x) = IF l + 1 > x THEN 0 ELSE x - (l + 1) + 1
      BY <2>0, FS_Interval
    <3> QED BY <3>1, <2>0
  <2>3. Cardinality((l + 1) .. x) <= k
    BY <2>1, <1>4, FS_Subset
  <2> HIDE DEF k
  <2> QED BY <2>0, <2>2, <2>3, <1>4
<1>6. D = (l + 1) .. (l + k)
  <2>1. D \in SUBSET ((l + 1) .. (l + k))
    BY <1>5
  <2>2. IsFiniteSet((l + 1) .. (l + k)) /\ Cardinality((l + 1) .. (l + k)) = k
    <3> HIDE DEF k
    <3>1. /\ IsFiniteSet((l + 1) .. (l + k))
          /\ Cardinality((l + 1) .. (l + k)) = IF l + 1 > l + k THEN 0 ELSE (l + k) - (l + 1) + 1
      <4>1. l + 1 \in Int /\ l + k \in Int
        BY <1>4
      <4> QED BY <4>1, FS_Interval
    <3> QED BY <3>1, <1>4
  <2> QED BY <2>1, <2>2, FS_Subset
<1> DEFINE e == l + k
<1>7. e \in S \union {l} /\ e >= l /\ (l + 1) .. e \subseteq S
  <2> HIDE DEF k, D
  <2>1. D \subseteq S
    BY DEF D
  <2>2. CASE k = 0
    BY <2>2, <2>1, <1>4, <1>6
  <2>3. CASE k # 0
    <3>1. l + k \in (l + 1) .. (l + k)
      BY <2>3, <1>4
    <3> QED BY <3>1, <2>1, <1>4, <1>6
  <2> QED BY <2>2, <2>3
<1>8. e + 1 \notin S
  <2> SUFFICES ASSUME e + 1 \in S PROVE FALSE
    OBVIOUS
  <2>1. (l + 1) .. (e + 1) \subseteq S
    <3> SUFFICES ASSUME NEW y \in (l + 1) .. (e + 1) PROVE y \in S
      OBVIOUS
    <3> HIDE DEF k, D
    <3>1. y = e + 1 \/ y \in (l + 1) .. e
      BY <1>4
    <3> QED BY <3>1, <1>7
  <2>2. e + 1 \in D
    BY <2>1
  <2> HIDE DEF k, D
  <2>3. e + 1 \in (l + 1) .. (l + k)
    BY <2>2, <1>6
  <2> QED BY <2>3, <1>4
<1>9. \E x \in S \union {l} : x >= l /\ (l + 1) .. x \subseteq S /\ x + 1 \notin S
  <2> HIDE DEF e
  <2> QED BY <1>7, <1>8
<1> QED BY <1>9 DEF RunEnd

ordered == <<last, pending, ready, published>>

LEMMA OrderKept ==
  ASSUME ServerInv, ServerGrows, OrderInv, wake' \in Nat, UNCHANGED ordered
  PROVE  OrderInv'
<1>1. /\ Len(events[G]) \in Nat /\ Len(events'[G]) \in Nat /\ Len(events[G]) <= Len(events'[G])
  BY LogLength, LogMonotone
<1>2. last' \in 0 .. Len(events'[G]) /\ pending' \subseteq (last' + 1) .. Len(events'[G])
  BY <1>1 DEF OrderInv, ordered
<1> QED BY <1>2 DEF OrderInv, ordered, PublishedInOrder

LEMMA FailureUnnumbered == SetFailure => UNCHANGED published
BY DEF SetFailure, Log, log, Failed

\* An early number waits, an old one is dropped, and one that continues the
\* run releases it.
LEMMA OrderHandles ==
  ASSUME ServerInv, NumberInv, OrderInv, wake' \in Nat, HandleNotification
  PROVE  OrderInv'
<1> DEFINE seq == Head(out).seq
           end == Releases(last, pending, seq)
           n == Len(events[G])
<1>1. /\ out # <<>> /\ ready = <<>> /\ UNCHANGED <<events, published>>
      /\ ready' = [i \in 1 .. (IF end > last THEN end - last ELSE 0) |-> last + i]
      /\ last' = end /\ pending' = StillPending(last, pending, seq)
  BY DEF HandleNotification, log
<1>2. n \in Nat /\ last \in 0 .. n /\ pending \subseteq (last + 1) .. n
      /\ published \in Seq(Nat) /\ last = Len(published) + Len(ready) /\ PublishedInOrder
  BY LogLength DEF OrderInv
<1>3. Len(ready) = 0 /\ last = Len(published)
  BY <1>1, <1>2
<1>4. seq \in 0 .. n
  <2>1. out \in Seq(Notes(n))
    BY NumberInvSays
  <2>2. Head(out) \in Notes(n)
    BY <2>1, <1>1
  <2> QED BY <2>2 DEF Notes
<1> HIDE DEF seq, n
<1>5. end \in last .. n /\ pending' \subseteq (end + 1) .. n
  <2>1. CASE ~Accepts(last, seq)
    BY <2>1, <1>1, <1>2 DEF Releases, StillPending
  <2>2. CASE Accepts(last, seq)
    <3> DEFINE S == pending \union {seq}
    <3>1. S \in SUBSET ((last + 1) .. n)
      BY <2>2, <1>2, <1>4 DEF Accepts
    <3>2. end = RunEnd(last, S) /\ pending' = {x \in S : x > end}
      BY <2>2, <1>1 DEF Releases, StillPending
    <3> HIDE DEF S, end
    <3>n. n \in Nat /\ last \in Nat /\ last <= n
      BY <1>2
    <3>3. RunEnd(last, S) \in S \union {last} /\ RunEnd(last, S) >= last
      BY <3>1, <3>n, RunEnds
    <3>a. end = last \/ end \in (last + 1) .. n
      BY <3>1, <3>2, <3>3
    <3>4. end \in last .. n
      BY <3>a, <3>n
    <3>5. \A x \in pending' : x \in (last + 1) .. n /\ x > end
      BY <3>1, <3>2
    <3>6. pending' \subseteq (end + 1) .. n
      BY <3>4, <3>5, <3>n
    <3> QED BY <3>4, <3>6
  <2> QED BY <2>1, <2>2
<1> HIDE DEF end
<1>6. ready' = [i \in 1 .. end - last |-> last + i] /\ end - last \in Nat
  BY <1>1, <1>2, <1>5
<1>7. /\ ready' \in Seq(Nat) /\ Len(ready') = end - last /\ DOMAIN ready' = 1 .. end - last
      /\ \A i \in DOMAIN ready' : ready'[i] = last + i
  <2>1. ready' \in [1 .. end - last -> Nat]
    BY <1>2, <1>6
  <2> QED BY <2>1, <1>6
<1>8. last' \in 0 .. n /\ pending' \subseteq (last' + 1) .. n /\ last' = Len(published') + Len(ready')
  BY <1>1, <1>2, <1>3, <1>5, <1>7
<1>9. \A i \in DOMAIN ready' : ready'[i] = Len(published') + i
  BY <1>1, <1>3, <1>7
<1>10. PublishedInOrder' /\ published' \in Seq(Nat) /\ Len(events'[G]) = n
  BY <1>1, <1>2 DEF PublishedInOrder, n
<1> QED BY <1>7, <1>8, <1>9, <1>10 DEF OrderInv

\* The next event to publish is the one after the last published.
LEMMA OrderPublishes ==
  ASSUME ServerInv, OrderInv, PublishReady
  PROVE  /\ OrderInv' /\ Head(ready) = Len(published) + 1 /\ Len(published) \in Nat
         /\ Len(published) + 1 <= last
         /\ published' = Append(published, Len(published) + 1)
         /\ Len(published') = Len(published) + 1
<1> DEFINE k == Len(published)
<1>1. /\ ready # <<>> /\ ready' = Tail(ready) /\ UNCHANGED <<events, last, pending>> /\ Log(Head(ready))
  BY DEF PublishReady, vars
<1>2. /\ ready \in Seq(Nat) /\ published \in Seq(Nat) /\ last = k + Len(ready) /\ last \in Nat
      /\ \A i \in DOMAIN ready : ready[i] = k + i
      /\ \A i \in DOMAIN published : published[i] = i
  BY LogLength DEF OrderInv, PublishedInOrder
<1>3. Len(ready) \in Nat /\ Len(ready) > 0 /\ DOMAIN ready = 1 .. Len(ready) /\ Head(ready) = ready[1] /\ k \in Nat
  BY <1>1, <1>2
<1>4. Head(ready) = k + 1 /\ Head(ready) # Failed
  <2>1. 1 \in DOMAIN ready
    BY <1>3
  <2>2. Head(ready) = k + 1
    BY <2>1, <1>2, <1>3
  <2> QED BY <2>2, <1>3 DEF Failed
<1>5. published' = Append(published, k + 1)
  BY <1>1, <1>4 DEF Log
<1>6. /\ Len(published') = k + 1 /\ published' \in Seq(Nat) /\ DOMAIN published' = 1 .. k + 1
      /\ \A i \in 1 .. k + 1 : published'[i] = IF i = k + 1 THEN k + 1 ELSE published[i]
  BY <1>2, <1>3, <1>5
<1>7. DOMAIN published = 1 .. k
  BY <1>2
<1> HIDE DEF k
<1>8. PublishedInOrder'
  <2> SUFFICES ASSUME NEW i \in 1 .. k + 1 PROVE published'[i] = i
    BY <1>6 DEF PublishedInOrder
  <2>1. i = k + 1 \/ i \in 1 .. k
    BY <1>3
  <2> QED BY <2>1, <1>2, <1>6, <1>7
<1>9. /\ ready' \in Seq(Nat) /\ Len(ready') = Len(ready) - 1 /\ DOMAIN ready' = 1 .. Len(ready) - 1
      /\ \A i \in 1 .. Len(ready) - 1 : ready'[i] = ready[i + 1]
  BY <1>1, <1>2, <1>3
<1>10. \A i \in DOMAIN ready' : ready'[i] = (k + 1) + i
  <2> SUFFICES ASSUME NEW i \in 1 .. Len(ready) - 1 PROVE ready'[i] = (k + 1) + i
    BY <1>9
  <2>1. i + 1 \in DOMAIN ready /\ i \in Nat
    BY <1>3
  <2>2. ready'[i] = k + (i + 1)
    BY <2>1, <1>2, <1>9
  <2> QED BY <2>1, <2>2, <1>3
<1>11. last' = Len(published') + Len(ready')
  BY <1>1, <1>2, <1>3, <1>6, <1>9
<1>12. last' \in 0 .. Len(events'[G]) /\ pending' \subseteq (last' + 1) .. Len(events'[G]) /\ wake' \in Nat
  BY <1>1 DEF OrderInv, PublishReady
<1>13. OrderInv'
  BY <1>6, <1>8, <1>9, <1>10, <1>11, <1>12 DEF OrderInv
<1>14. k + 1 <= last
  BY <1>2, <1>3
<1> QED BY <1>3, <1>4, <1>5, <1>6, <1>13, <1>14 DEF k

LEMMA WakeTyped ==
  ASSUME ServerInv, NumberInv, OrderInv, [SNext]_svars
  PROVE  wake' \in Nat
<1>1. wake \in Nat
  BY DEF OrderInv
<1>2. CASE HandleNotification
  <2>1. out # <<>> /\ wake' = MaxOf(wake, Head(out).seq)
    BY <1>2 DEF HandleNotification
  <2>2. out \in Seq(Notes(Len(events[G]))) /\ Len(events[G]) \in Nat
    BY NumberInvSays, LogLength
  <2>3. Head(out) \in Notes(Len(events[G]))
    BY <2>1, <2>2
  <2>4. Head(out).seq \in Nat
    BY <2>2, <2>3 DEF Notes
  <2> QED BY <2>1, <2>4, <1>1 DEF MaxOf
<1>3. CASE ~HandleNotification
  <2>1. wake' = wake \/ wake' = wake + 1
    BY <1>3 DEF SNext, svars, client, ServerStep, Disconnect, Subscribe, PublishReady, ReaderDrains, Recv, RecoverRead,
                RecoverFails, RecoverApply, SetFailure
  <2> QED BY <2>1, <1>1
<1> QED BY <1>2, <1>3

LEMMA OrderStep ==
  ASSUME ServerInv, ServerGrows, NumberInv, OrderInv, [SNext]_svars
  PROVE  OrderInv'
<1>0. wake' \in Nat
  BY WakeTyped
<1>1. CASE HandleNotification
  BY <1>0, <1>1, OrderHandles
<1>2. CASE PublishReady
  BY <1>2, OrderPublishes
<1>3. CASE UNCHANGED ordered
  BY <1>0, <1>3, OrderKept
<1>4. HandleNotification \/ PublishReady \/ UNCHANGED ordered
  BY FailureUnnumbered
     DEF SNext, svars, client, ServerStep, Disconnect, Subscribe, ReaderDrains, Recv, RecoverRead,
         RecoverFails, RecoverApply, ordered, log
<1> QED BY <1>1, <1>2, <1>3, <1>4

(***************************************************************************)
(* What the client publishes is a feed.                                    *)
(***************************************************************************)
ClientInv == ServerInv /\ NumberInv /\ OrderInv

LEMMA ClientInit == SInit => ClientInv
<1> SUFFICES ASSUME SInit PROVE ClientInv
  OBVIOUS
<1>1. ProcInv
  BY ProcInit DEF SInit
<1>2. OutputInv
  BY ReaderInit DEF SInit, ReaderInv
<1>3. events[G] = <<>> /\ \A g \in Gens : events[g] = <<>>
  BY OneProcess DEF SInit, Init
<1>4. ShapeInv
  BY <1>3 DEF ShapeInv
<1>5. NumberInv
  <2>1. note = [g \in Gens |-> [t \in Tasks |-> NoNote]] /\ out = <<>> /\ of = [g \in Gens |-> None]
    BY DEF SInit, Init
  <2>2. NoNote \in Notes(Len(events[G]))
    BY <1>3 DEF Notes, NoNote
  <2>3. note[G] \in [Tasks -> Notes(Len(events[G]))] /\ DOMAIN note = Gens
    BY <2>1, <2>2, OneProcess
  <2> QED BY <2>1, <2>3, NumberInvSays
<1>6. OrderInv
  BY <1>3 DEF SInit, OrderInv, PublishedInOrder
<1> QED BY <1>1, <1>2, <1>4, <1>5, <1>6 DEF ClientInv, ServerInv

LEMMA ClientStep == ClientInv /\ [SNext]_svars => ClientInv'
<1> SUFFICES ASSUME ClientInv, [SNext]_svars PROVE ClientInv'
  OBVIOUS
<1>1. ServerInv' /\ ServerGrows
  BY ServerKeeps DEF ClientInv
<1> QED BY <1>1, NumberStep, OrderStep DEF ClientInv

THEOREM ClientSafety == SSpec => []ClientInv
BY ClientInit, ClientStep, PTL DEF SSpec

\* Whatever order notifications arrive in, and however often, the client
\* publishes events 1, 2, 3, ... (publish_ordered_event).
THEOREM PublishedInOrderAlways == SSpec => []PublishedInOrder
<1>1. ClientInv => PublishedInOrder
  BY DEF ClientInv, OrderInv
<1> QED BY <1>1, ClientSafety, PTL

DeliveredKinds == [i \in DOMAIN published |-> Kind(published[i])]

\* Publishing the next event is a step of the abstract feed.
LEMMA DeliveredGrows ==
  ASSUME ClientInv, PublishReady
  PROVE  Delivered!Next
<1> DEFINE k == Len(published)
           n == Len(events[G])
           feed == DeliveredKinds
           kind == Kind(k + 1)
<1>1. /\ k \in Nat /\ k + 1 <= last /\ published' = Append(published, k + 1) /\ Len(published') = k + 1
      /\ OrderInv' /\ UNCHANGED events
  BY OrderPublishes DEF ClientInv, PublishReady, vars
<1>2. n \in Nat /\ last \in 0 .. n /\ published \in Seq(Nat) /\ published' \in Seq(Nat)
      /\ DOMAIN published = 1 .. k /\ DOMAIN published' = 1 .. k + 1
  BY <1>1, LogLength DEF ClientInv, OrderInv
<1>3. (\A i \in 1 .. k : published[i] = i) /\ (\A i \in 1 .. k + 1 : published'[i] = i)
  BY <1>1, <1>2 DEF ClientInv, OrderInv, PublishedInOrder
<1>4. k + 1 \in 1 .. n /\ \A i \in 1 .. k : i \in 1 .. n /\ i # n /\ i # k + 1
  BY <1>1, <1>2
<1>5. DOMAIN feed = 1 .. k /\ \A i \in 1 .. k : feed[i] = Kind(i)
  BY <1>2, <1>3 DEF DeliveredKinds
<1>6. feed' = [i \in 1 .. k + 1 |-> Kind(i)]
  BY <1>1, <1>2, <1>3 DEF DeliveredKinds, Kind
<1>7. \A i \in 1 .. n : Kind(i) \in {"output", "exited", "closed"}
  BY LogLength DEF ClientInv
<1>8. feed \in Seq({"output", "exited", "closed"}) /\ Len(feed) = k
  <2>1. feed \in [1 .. k -> {"output", "exited", "closed"}]
    BY <1>2, <1>3, <1>4, <1>7 DEF DeliveredKinds
  <2> QED BY <2>1, <1>1
<1>9. /\ \A i \in 1 .. n : Kind(i) = "closed" => i = n /\ \E j \in 1 .. i - 1 : Kind(j) = "exited"
      /\ \A i \in 1 .. n : Kind(i) = "exited" => \A j \in 1 .. n : Kind(j) = "exited" => j = i
  BY LogLength, OneProcess DEF ClientInv, ServerInv, ShapeInv, Kind
<1>10. \A i \in 1 .. k : feed[i] # "closed"
  BY <1>4, <1>5, <1>9
<1>11. kind = "exited" => \A i \in 1 .. k : feed[i] # "exited"
  BY <1>4, <1>5, <1>9
<1>12. kind = "closed" => \E i \in 1 .. k : feed[i] = "exited"
  <2> SUFFICES ASSUME kind = "closed" PROVE \E i \in 1 .. k : feed[i] = "exited"
    OBVIOUS
  <2>1. PICK j \in 1 .. (k + 1) - 1 : Kind(j) = "exited"
    BY <1>4, <1>9
  <2>2. j \in 1 .. k
    BY <1>1
  <2> QED BY <2>1, <2>2, <1>5
<1> HIDE DEF kind
<1>13. feed' = Append(feed, kind)
  <2>1. Append(feed, kind) = [i \in 1 .. k + 1 |-> IF i = k + 1 THEN kind ELSE feed[i]]
    <3> HIDE DEF feed, k
    <3>1. feed \in Seq({"output", "exited", "closed"}) /\ Len(feed) = k /\ kind \in {"output", "exited", "closed"}
      BY <1>8, <1>4, <1>7 DEF kind
    <3>2. Append(feed, kind) \in [1 .. k + 1 -> {"output", "exited", "closed"}]
      <4>1. Append(feed, kind) \in Seq({"output", "exited", "closed"}) /\ Len(Append(feed, kind)) = k + 1
        BY <3>1
      <4> DEFINE f == Append(feed, kind)
      <4> HIDE DEF f
      <4>2. f \in Seq({"output", "exited", "closed"}) /\ Len(f) = k + 1
        BY <4>1 DEF f
      <4>3. f \in [1 .. Len(f) -> {"output", "exited", "closed"}]
        BY <4>2
      <4> QED BY <4>2, <4>3 DEF f
    <3>3. \A i \in 1 .. k + 1 : Append(feed, kind)[i] = IF i = k + 1 THEN kind ELSE feed[i]
      BY <3>1
    <3> QED BY <3>2, <3>3
  <2>2. \A i \in 1 .. k + 1 : i = k + 1 \/ i \in 1 .. k
    BY <1>1
  <2>3. \A i \in 1 .. k + 1 : Kind(i) = IF i = k + 1 THEN kind ELSE feed[i]
    BY <2>2, <1>5 DEF kind
  <2> QED BY <2>1, <2>3, <1>6
<1>14. kind \in {"output", "exited", "closed"}
  BY <1>4, <1>7 DEF kind
<1> HIDE DEF feed, k
<1>15. Delivered!Next <=>
         \/ ~(\E i \in DOMAIN feed : feed[i] = "closed") /\ feed' = Append(feed, "output")
         \/ /\ ~(\E i \in DOMAIN feed : feed[i] = "closed") /\ ~(\E i \in DOMAIN feed : feed[i] = "exited")
            /\ feed' = Append(feed, "exited")
         \/ /\ \E i \in DOMAIN feed : feed[i] = "exited"
            /\ ~(\E i \in DOMAIN feed : feed[i] = "closed") /\ feed' = Append(feed, "closed")
  BY DEF Delivered!Next, Delivered!Output, Delivered!Exited, Delivered!Closed, Delivered!Has, Delivered!Emit,
         feed, DeliveredKinds
<1> QED BY <1>5, <1>10, <1>11, <1>12, <1>13, <1>14, <1>15

\* No other step changes what was delivered.
LEMMA DeliveredKept ==
  ASSUME ClientInv, [SNext]_svars, UNCHANGED published
  PROVE  UNCHANGED DeliveredKinds
<1>1. ServerGrows
  BY ServerKeeps DEF ClientInv
<1>2. \A i \in 1 .. Len(events[G]) : events'[G][i] = events[G][i]
  BY <1>1, LogMonotone DEF ClientInv
<1>3. \A i \in DOMAIN published : published[i] \in 1 .. Len(events[G])
  BY LogLength DEF ClientInv, OrderInv, PublishedInOrder
<1> QED BY <1>2, <1>3 DEF DeliveredKinds, Kind

\* What the client publishes implements the abstract feed of a process.
THEOREM DeliveredFeedAlways == SSpec => DeliveredFeed
<1>1. SInit => Delivered!Init
  BY DEF SInit, Delivered!Init
<1>2. ClientInv /\ [SNext]_svars => [Delivered!Next]_[i \in DOMAIN published |-> Kind(published[i])]
  <2> SUFFICES ASSUME ClientInv, [SNext]_svars
               PROVE  Delivered!Next \/ UNCHANGED DeliveredKinds
    BY DEF DeliveredKinds
  <2>1. PublishReady \/ UNCHANGED published
    BY FailureUnnumbered
       DEF SNext, svars, client, log, ServerStep, Disconnect, Subscribe, HandleNotification, ReaderDrains, Recv,
           RecoverRead, RecoverFails, RecoverApply
  <2> QED BY <2>1, DeliveredGrows, DeliveredKept
<1> QED BY <1>1, <1>2, ClientSafety, PTL DEF SSpec, DeliveredFeed, Delivered!Spec

(***************************************************************************)
(* The consumer: its queue, its cursor and its recovery reads.             *)
(***************************************************************************)
Follows == CursorInv /\ AnswerInv

LEMMA ItemCounts ==
  ASSUME ClientInv, ChannelInv
  PROVE  /\ Len(published) \in Nat /\ Len(live) \in Nat /\ Len(replay) \in Nat /\ Top \in Nat
         /\ Len(published) <= Len(events[G]) /\ Len(events[G]) \in Nat
         /\ Gone \in Int /\ Gone <= Top /\ Items \subseteq 0 .. Len(published)
         /\ Failed = 0
         /\ (PositionInv => Gone <= Len(published))
<1>1. Len(published) \in Nat /\ Len(live) \in Nat /\ Len(replay) \in Nat
  BY DEF ClientInv, OrderInv, ChannelInv
<1>2. Len(published) <= Len(events[G]) /\ Len(events[G]) \in Nat
  BY LogLength DEF ClientInv, OrderInv
<1>3. Top \in Nat /\ Gone \in Int /\ Gone <= Top
  BY <1>1 DEF Top, Gone, ChannelInv
<1>4. Items \subseteq 0 .. Len(published)
  BY <1>1 DEF Items, Failed
<1>5. PositionInv => Gone <= Len(published)
  <2>1. live # <<>> => Len(live) > 0
    BY <1>1 DEF ChannelInv
  <2>2. replay # <<>> => Len(replay) > 0
    BY <1>1 DEF ChannelInv
  <2> QED BY <2>1, <2>2, <1>1 DEF PositionInv, Top, Gone
<1> QED BY <1>1, <1>2, <1>3, <1>4, <1>5 DEF Failed

\* Outputs stay outputs when the log grows.
LEMMA OutputsKept ==
  ASSUME ServerInv, ServerGrows, NEW s, Outputs(s)
  PROVE  Increasing(s) /\ \A i \in DOMAIN s : s[i] \in DOMAIN events'[G] /\ events'[G][s[i]].kind = "output"
<1>1. DOMAIN events[G] = 1 .. Len(events[G])
  BY LogLength
<1>2. \A i \in 1 .. Len(events[G]) : events'[G][i] = events[G][i] /\ i \in 1 .. Len(events'[G])
  BY LogMonotone
<1>3. DOMAIN events'[G] = 1 .. Len(events'[G])
  <2>1. CASE events'[G] = events[G]
    BY <2>1, <1>1
  <2>2. CASE \E kind : Logged(G, kind)
    <3>1. PICK ev \in Event : events'[G] = Append(events[G], ev)
      BY <2>2 DEF Logged
    <3>2. events[G] \in Seq(Event)
      BY OneProcess DEF ServerInv, ProcInv, TypeOK
    <3> QED BY <3>1, <3>2
  <2> QED BY <2>1, <2>2 DEF ServerGrows, Grows
<1> QED BY <1>1, <1>2, <1>3 DEF Outputs, Kind

\* The server goes on: what it adds lies beyond every cursor.
LEMMA ServerTail ==
  ASSUME ClientInv, ServerGrows, ChannelInv, ~consumer.closed => PositionInv, Follows,
         UNCHANGED <<client, consumer>>
  PROVE  ChannelInv' /\ (~consumer'.closed => PositionInv') /\ Follows'
<1>0. ServerInv
  BY DEF ClientInv
<1>1. ChannelInv'
  BY DEF ChannelInv, Items, client, log
<1>2. ~consumer'.closed => PositionInv'
  BY DEF PositionInv, client, log, Top, Gone
<1>3. Gone' = Gone /\ UNCHANGED <<lagged, consumer>>
  BY DEF client, log, Gone, Top
<1>4. /\ Len(events[G]) \in Nat /\ run[G].next_seq = Len(events[G]) + 1
      /\ Len(events'[G]) \in Nat /\ Len(events[G]) <= Len(events'[G])
      /\ run'[G].next_seq \in Nat /\ run[G].next_seq <= run'[G].next_seq
      /\ \A seq \in Retained(G) : seq \in Nat
  BY <1>0, LogLength, LogMonotone
<1>5. /\ run[G].closed => run'[G].closed /\ Retained(G)' = Retained(G)
      /\ \A seq \in Retained(G)' : seq \in Retained(G) \/ seq = Len(events[G]) + 1
  BY <1>0, LogLength DEF ServerGrows, Retained
<1>6. /\ consumer.last_seq \in Nat /\ (~consumer.failed => consumer.last_seq <= Len(events[G]))
      /\ consumer \in [at : {"recv", "lagged", "answer"}, last_seq : Nat, got : Seq(Nat),
                       closed : BOOLEAN, failed : BOOLEAN, answer : Answer]
  BY <1>4 DEF Follows, CursorInv
<1>7. ~consumer.closed => Len(events[G]) + 1 > Gone /\ Gone \in Int
  BY ItemCounts
<1>8. CursorInv'
  <2>1. consumer' \in [at : {"recv", "lagged", "answer"}, last_seq : Nat, got : Seq(Nat),
                       closed : BOOLEAN, failed : BOOLEAN, answer : Answer]
    BY <1>3, <1>4, <1>6
  <2>2. Outputs(consumer.got)' /\ \A i \in DOMAIN consumer'.got : consumer'.got[i] <= consumer'.last_seq
    BY <1>0, <1>3, OutputsKept DEF Follows, CursorInv, Outputs, Kind, Increasing
  <2>3. NoGap'
    <3> SUFFICES ASSUME ~consumer.failed, NEW seq \in Retained(G)', seq <= consumer.last_seq
                 PROVE  \E i \in DOMAIN consumer.got : consumer.got[i] = seq
      BY <1>3 DEF Follows, CursorInv, NoGap, Increasing
    <3>1. seq \in Retained(G)
      BY <1>4, <1>5, <1>6
    <3> QED BY <3>1 DEF Follows, CursorInv, NoGap
  <2>4. consumer'.closed => consumer'.at = "recv"
    BY <1>3 DEF Follows, CursorInv
  <2>5. consumer'.closed /\ ~consumer'.failed =>
          run'[G].closed /\ \A seq \in Retained(G)' : seq <= consumer'.last_seq
    BY <1>3, <1>5 DEF Follows, CursorInv
  <2>6. ~consumer'.closed /\ consumer'.at = "recv" /\ ~lagged' =>
          \A seq \in Retained(G)' : seq <= consumer'.last_seq \/ seq > Gone'
    BY <1>3, <1>5, <1>7 DEF Follows, CursorInv
  <2>7. (~consumer'.failed => consumer'.last_seq <= Len(events'[G])) /\ (consumer'.failed => consumer'.closed)
    BY <1>3, <1>4, <1>6 DEF Follows, CursorInv
  <2> QED BY <2>1, <2>2, <2>3, <2>4, <2>5, <2>6, <2>7 DEF CursorInv
<1>9. AnswerInv'
  <2> SUFFICES ASSUME consumer.at = "answer" PROVE AnswerInv'
    BY <1>3 DEF AnswerInv
  <2> DEFINE a == consumer.answer
  <2>0. ~consumer.closed
    BY DEF Follows, CursorInv
  <2>1. /\ Outputs(a.chunks) /\ a.next \in 1 .. run[G].next_seq
        /\ \A i \in DOMAIN a.chunks : a.chunks[i] > consumer.last_seq /\ a.chunks[i] < a.next
        /\ a.closed => run[G].closed
        /\ \A seq \in Retained(G) :
             /\ seq <= consumer.last_seq \/ seq >= a.next \/ \E i \in DOMAIN a.chunks : a.chunks[i] = seq
             /\ seq < a.next \/ ~a.closed
             /\ seq < a.next \/ lagged \/ seq > Gone
    BY DEF Follows, AnswerInv
  <2>2. Outputs(a.chunks)' /\ a.next \in 1 .. run'[G].next_seq /\ (a.closed => run'[G].closed)
    <3>1. Outputs(a.chunks)'
      BY <1>0, <1>3, <2>1, OutputsKept DEF Outputs, Kind, Increasing
    <3>2. a.next \in 1 .. run'[G].next_seq
      BY <2>1, <1>4
    <3> QED BY <3>1, <3>2, <2>1, <1>5
  <2>3. ASSUME NEW seq \in Retained(G)'
        PROVE  /\ seq <= consumer.last_seq \/ seq >= a.next \/ \E i \in DOMAIN a.chunks : a.chunks[i] = seq
               /\ seq < a.next \/ ~a.closed
               /\ seq < a.next \/ lagged \/ seq > Gone
    <3>1. CASE seq \in Retained(G)
      BY <3>1, <2>1
    <3>2. CASE seq \notin Retained(G)
      <4>1. seq = Len(events[G]) + 1 /\ ~run[G].closed
        BY <3>2, <1>5
      <4>2. seq >= a.next /\ ~a.closed /\ seq > Gone
        BY <4>1, <2>0, <2>1, <1>4, <1>7
      <4> QED BY <4>2
    <3> QED BY <3>1, <3>2
  <2> HIDE DEF a
  <2>4. consumer'.answer = a
    BY <1>3 DEF a
  <2>5. Outputs(consumer.answer.chunks)'
    BY <2>2 DEF a
  <2> QED BY <2>1, <2>2, <2>3, <2>4, <2>5, <1>3 DEF AnswerInv
<1> QED BY <1>1, <1>2, <1>8, <1>9 DEF Follows

\* The client goes on and the consumer waits: it loses nothing unless it lags.
LEMMA ConsumerKept ==
  ASSUME Follows, UNCHANGED <<run, events, consumer>>,
         ~consumer.closed /\ ~lagged' => ~lagged /\ Gone' = Gone
  PROVE  Follows'
<1>1. Retained(G)' = Retained(G)
  BY DEF Retained
<1>2. CursorInv'
  BY <1>1 DEF Follows, CursorInv, NoGap, Outputs, Kind, Increasing
<1>3. AnswerInv'
  <2>1. consumer.at = "answer" => ~consumer.closed
    BY DEF Follows, CursorInv
  <2> QED BY <1>1, <2>1 DEF Follows, AnswerInv, Outputs, Kind, Increasing
<1> QED BY <1>2, <1>3 DEF Follows

(***************************************************************************)
(* The event log.                                                          *)
(***************************************************************************)
\* A full channel drops its oldest event for the new one.
LEMMA BoundedAppend ==
  ASSUME NEW S, NEW s \in Seq(S), NEW x \in S, Len(s) <= LogCapacity
  PROVE  /\ Bounded(Append(s, x)) \in Seq(S) /\ Len(Bounded(Append(s, x))) \in 1 .. LogCapacity
         /\ Len(s) < LogCapacity => Len(Bounded(Append(s, x))) = Len(s) + 1
         /\ Len(s) = LogCapacity => Len(Bounded(Append(s, x))) = Len(s)
         /\ \A i \in 1 .. Len(Bounded(Append(s, x))) :
              Bounded(Append(s, x))[i] =
                IF i = Len(Bounded(Append(s, x))) THEN x ELSE s[i + (Len(s) + 1 - Len(Bounded(Append(s, x))))]
<1> DEFINE a == Append(s, x)
           r == Bounded(a)
<1>0. Len(s) \in Nat /\ LogCapacity \in Nat /\ LogCapacity > 0
  BY LogCapacityAssumption
<1>1. /\ a \in Seq(S) /\ Len(a) = Len(s) + 1 /\ a # <<>>
      /\ \A i \in 1 .. Len(s) + 1 : a[i] = IF i = Len(s) + 1 THEN x ELSE s[i]
  BY <1>0
<1> HIDE DEF a
<1>2. CASE Len(s) = LogCapacity
  <2>1. r = Tail(a)
    BY <1>0, <1>1, <1>2 DEF Bounded
  <2>2. /\ r \in Seq(S) /\ Len(r) = Len(s)
        /\ \A i \in 1 .. Len(s) : r[i] = a[i + 1]
    BY <2>1, <1>0, <1>1
  <2> HIDE DEF r
  <2>3. \A i \in 1 .. Len(s) : i + 1 \in 1 .. Len(s) + 1 /\ (i + 1 = Len(s) + 1 <=> i = Len(s))
    BY <1>0
  <2>4. \A i \in 1 .. Len(s) : r[i] = IF i = Len(s) THEN x ELSE s[i + 1]
    BY <2>2, <2>3, <1>1
  <2>5. Len(s) + 1 - Len(r) = 1
    BY <2>2, <1>0
  <2> QED BY <2>2, <2>4, <2>5, <1>0, <1>2 DEF r, a
<1>3. CASE Len(s) # LogCapacity
  <2>1. r = a
    BY <1>0, <1>1, <1>3 DEF Bounded
  <2>2. Len(r) = Len(s) + 1 /\ Len(s) + 1 - Len(r) = 0
    BY <2>1, <1>0, <1>1
  <2> HIDE DEF r
  <2>3. \A i \in 1 .. Len(s) + 1 : r[i] = IF i = Len(s) + 1 THEN x ELSE s[i + 0]
    BY <2>1, <1>0, <1>1
  <2> QED BY <2>1, <2>2, <2>3, <1>0, <1>1, <1>3 DEF r, a
<1> QED BY <1>2, <1>3

\* Logging keeps the types of the queue.
LEMMA LogTyped ==
  ASSUME ClientInv, ChannelInv, NEW x, Log(x), Items \subseteq Items', x \in Items', ~evicted'
  PROVE  /\ live' \in Seq(Items') /\ replay' \in Seq(Items') /\ lagged' \in BOOLEAN
         /\ lagged' => live' # <<>>
         /\ Len(live') <= LogCapacity
         /\ ~subscribed => live' = <<>>
<1> DEFINE S == Items'
<1> HIDE DEF S
<1>1. Items \subseteq S /\ x \in S /\ live \in Seq(Items) /\ replay \in Seq(Items)
  BY DEF S, ChannelInv
<1>2. live \in Seq(S) /\ replay \in Seq(S)
  BY <1>1
<1>3. CASE subscribed
  <2>1. live' = Bounded(Append(live, x)) /\ lagged' = (lagged \/ Len(live) = LogCapacity) /\ replay' = replay
    BY <1>3 DEF Log
  <2>2. Len(live) <= LogCapacity /\ lagged \in BOOLEAN
    BY DEF ChannelInv
  <2>3. Bounded(Append(live, x)) \in Seq(S) /\ Len(Bounded(Append(live, x))) \in 1 .. LogCapacity
    BY <1>1, <1>2, <2>2, BoundedAppend
  <2>4. live' \in Seq(S) /\ Len(live') \in 1 .. LogCapacity
    BY <2>1, <2>3
  <2>5. live' # <<>> /\ Len(live') <= LogCapacity
    BY <2>4, LogCapacityAssumption
  <2> QED BY <1>2, <1>3, <2>1, <2>2, <2>4, <2>5 DEF S
<1>4. CASE ~subscribed
  <2>1. replay' = Append(replay, x) /\ live' = live /\ lagged' = lagged
    BY <1>4 DEF Log
  <2>2. live = <<>> /\ lagged \in BOOLEAN /\ (lagged => live # <<>>) /\ Len(live) <= LogCapacity
    BY <1>4 DEF ChannelInv
  <2>3. Append(replay, x) \in Seq(S)
    BY <1>1, <1>2
  <2> QED BY <1>2, <2>1, <2>2, <2>3 DEF S
<1>5. subscribed \in BOOLEAN
  BY DEF ChannelInv
<1> QED BY <1>3, <1>4, <1>5

\* Logging the event at position Top + 1 keeps the positions; what it drops is
\* noticed.
LEMMA LogPlaced ==
  ASSUME ClientInv, ChannelInv, PositionInv, ~evicted', ~failure, consumer.last_seq \in Nat,
         NEW x \in Nat, Log(x), UNCHANGED <<consumer, subscribed>>,
         Top' = Top + 1, Position(x, Len(published')) = Top + 1
  PROVE  /\ \A i \in DOMAIN live' : Position(live'[i], Len(published')) = Top' - Len(live') + i
         /\ replay' # <<>> \/ ~subscribed' =>
              /\ consumer'.at = "recv"
              /\ \A i \in DOMAIN replay' : Position(replay'[i], Len(published')) = consumer'.last_seq + i
              /\ ~lagged' => Gone' = consumer'.last_seq
         /\ ~lagged' => ~lagged /\ Gone' = Gone
         /\ live' # <<>> \/ replay' # <<>>
<1> DEFINE n == Len(published)
           N == Len(published')
           c == consumer.last_seq
<1>1. /\ n \in Nat /\ Len(live) \in Nat /\ Len(replay) \in Nat /\ Top \in Nat /\ Gone \in Int
      /\ Failed = 0 /\ Items = 1 .. n
  BY ItemCounts DEF Items
<1>2. /\ live \in Seq(1 .. n) /\ replay \in Seq(1 .. n) /\ Len(live) <= LogCapacity
      /\ DOMAIN live = 1 .. Len(live) /\ DOMAIN replay = 1 .. Len(replay)
  BY <1>1 DEF ChannelInv
<1>3. \A y \in 1 .. n : Position(y, n) = y /\ Position(y, N) = y
  BY <1>1 DEF Position
<1>4. \A i \in 1 .. Len(live) : live[i] \in Nat \ {0} /\ live[i] = Top - Len(live) + i
  <2>1. \A i \in 1 .. Len(live) : live[i] \in 1 .. n
    BY <1>2
  <2>2. \A i \in 1 .. Len(live) : Position(live[i], n) = Top - Len(live) + i
    BY <1>2 DEF PositionInv
  <2>3. \A i \in 1 .. n : i \in Nat \ {0}
    BY <1>1
  <2> QED BY <2>1, <2>2, <2>3, <1>3
<1>5. CASE subscribed
  <2> DEFINE r == Bounded(Append(live, x))
             S == Nat
  <2>1. live' = r /\ lagged' = (lagged \/ Len(live) = LogCapacity) /\ replay' = replay
    BY <1>5 DEF Log
  <2>2. live \in Seq(S) /\ x \in S
    BY <1>2
  <2> HIDE DEF S
  <2>k. Len(live) <= LogCapacity
    BY <1>2
  <2>3. /\ r \in Seq(S) /\ Len(r) \in 1 .. LogCapacity
        /\ Len(live) < LogCapacity => Len(r) = Len(live) + 1
        /\ Len(live) = LogCapacity => Len(r) = Len(live)
        /\ \A i \in 1 .. Len(r) : r[i] = IF i = Len(r) THEN x ELSE live[i + (Len(live) + 1 - Len(r))]
    BY <2>k, <2>2, BoundedAppend
  <2> HIDE DEF r
  <2>l. LogCapacity \in Nat /\ (Len(live) < LogCapacity \/ Len(live) = LogCapacity)
    BY <1>1, <2>k, LogCapacityAssumption
  <2>4. LogCapacity \in Nat /\ Len(r) \in Nat /\ (Len(r) = Len(live) + 1 \/ (Len(r) = Len(live) /\ Len(live) = LogCapacity))
    BY <2>l, <2>3
  <2>5. ASSUME NEW i \in 1 .. Len(r) PROVE Position(r[i], N) = Top + 1 - Len(r) + i
    <3>1. CASE i = Len(r)
      <4>1. r[i] = x
        BY <3>1, <2>3
      <4> QED BY <3>1, <4>1, <2>4, <1>1
    <3>2. CASE i # Len(r)
      <4> DEFINE j == i + (Len(live) + 1 - Len(r))
      <4>1. j \in 1 .. Len(live)
        BY <3>2, <2>4, <1>1
      <4>2. r[i] = live[j]
        BY <3>2, <2>3
      <4> HIDE DEF j
      <4>3. live[j] = Top - Len(live) + j /\ live[j] # 0
        BY <4>1, <1>4
      <4>4. Position(r[i], N) = Top - Len(live) + j
        BY <4>2, <4>3, <1>1 DEF Position
      <4> QED BY <4>4, <2>4, <1>1 DEF j
    <3> QED BY <3>1, <3>2
  <2>6. DOMAIN live' = 1 .. Len(live') /\ live' # <<>>
    BY <2>1, <2>3, LogCapacityAssumption
  <2>7. \A i \in DOMAIN live' : Position(live'[i], N) = Top' - Len(live') + i
    <3>1. \A i \in 1 .. Len(r) : Position(r[i], N) = Top' - Len(r) + i
      <4>1. Top' = Top + 1
        OBVIOUS
      <4> SUFFICES ASSUME NEW i \in 1 .. Len(r) PROVE Position(r[i], N) = Top' - Len(r) + i
        OBVIOUS
      <4>2. Position(r[i], N) = Top + 1 - Len(r) + i
        BY <2>5
      <4> QED BY <4>1, <4>2, <2>4, <1>1
    <3>2. DOMAIN live' = 1 .. Len(r) /\ live' = r /\ Len(live') = Len(r)
      BY <2>1, <2>6
    <3> HIDE DEF N
    <3> QED BY <3>1, <3>2
  <2>8. ASSUME ~lagged' PROVE ~lagged /\ Gone' = Gone
    <3>1. ~lagged /\ Len(live') = Len(live) + 1 /\ Len(replay') = Len(replay)
      BY <2>1, <2>4, <2>8
    <3> QED BY <3>1, <1>1 DEF Gone
  <2>9. replay' # <<>> \/ ~subscribed' =>
          /\ consumer'.at = "recv"
          /\ \A i \in DOMAIN replay' : Position(replay'[i], N) = consumer'.last_seq + i
          /\ ~lagged' => Gone' = consumer'.last_seq
    <3> SUFFICES ASSUME replay # <<>>
                 PROVE  /\ consumer.at = "recv"
                        /\ \A i \in DOMAIN replay : Position(replay[i], N) = c + i
                        /\ ~lagged' => Gone' = c
      BY <1>5, <2>1
    <3>1. /\ consumer.at = "recv" /\ \A i \in DOMAIN replay : Position(replay[i], n) = c + i
          /\ ~lagged => Gone = c
      BY DEF PositionInv
    <3>2. \A i \in DOMAIN replay : replay[i] \in 1 .. n
      BY <1>2
    <3> QED BY <3>1, <3>2, <2>8, <1>3
  <2> QED BY <2>6, <2>7, <2>8, <2>9
<1>6. CASE ~subscribed
  <2>1. replay' = Append(replay, x) /\ live' = live /\ lagged' = lagged
    BY <1>6 DEF Log
  <2>2. live = <<>> /\ ~lagged /\ Len(live) = 0
    BY <1>6 DEF ChannelInv
  <2>3. /\ consumer.at = "recv" /\ Gone = c
        /\ \A i \in DOMAIN replay : Position(replay[i], n) = c + i
    BY <1>6, <2>2 DEF PositionInv
  <2> DEFINE r == Append(replay, x)
  <2>r. replay \in Seq(Nat)
    BY <1>2
  <2>4. Len(r) = Len(replay) + 1 /\ \A i \in 1 .. Len(replay) + 1 : r[i] = IF i = Len(replay) + 1 THEN x ELSE replay[i]
    BY <1>1, <1>2
  <2>5. DOMAIN r = 1 .. Len(replay) + 1 /\ r # <<>>
    <3>1. DOMAIN r = 1 .. Len(replay) + 1
      BY <1>1, <2>r, SMTT(30)
    <3>2. r # <<>>
      BY <2>4, <1>1
    <3> QED BY <3>1, <3>2
  <2>6. replay' = r
    BY <2>1
  <2> HIDE DEF r
  <2>7. Len(replay) + c = Top
    BY <2>2, <2>3, <1>1 DEF Gone
  <2>8. \A i \in 1 .. Len(replay) + 1 : Position(r[i], N) = c + i
    <3> SUFFICES ASSUME NEW i \in 1 .. Len(replay) + 1 PROVE Position(r[i], N) = c + i
      OBVIOUS
    <3>1. CASE i = Len(replay) + 1
      BY <3>1, <2>4, <2>7, <1>1
    <3>2. CASE i # Len(replay) + 1
      <4>1. i \in 1 .. Len(replay)
        BY <3>2, <1>1
      <4>2. r[i] = replay[i] /\ replay[i] \in 1 .. n
        BY <3>2, <4>1, <2>4, <1>2
      <4> QED BY <4>1, <4>2, <2>3, <1>2, <1>3
    <3> QED BY <3>1, <3>2
  <2>9. Gone' = Gone
    BY <2>1, <2>4, <2>6, <1>1 DEF Gone
  <2> QED BY <2>1, <2>2, <2>3, <2>5, <2>6, <2>8, <2>9
<1>7. subscribed \in BOOLEAN
  BY DEF ChannelInv
<1> QED BY <1>5, <1>6, <1>7

Tails == ChannelInv /\ (~consumer.closed => PositionInv) /\ Follows

\* Steps that leave the event log and its consumer alone.
LEMMA QuietTail ==
  ASSUME ClientInv, Tails,
         UNCHANGED <<run, events, published, failure, replay, live, lagged, consumer>>,
         subscribed' \in BOOLEAN, subscribed => subscribed',
         ~consumer.closed /\ failure => link' = "drained" /\ ready' = <<>>
  PROVE  Tails'
<1>1. Top' = Top /\ Gone' = Gone
  BY DEF Top, Gone
<1>2. ChannelInv'
  BY DEF Tails, ChannelInv, Items
<1>3. ~consumer'.closed => PositionInv'
  BY <1>1 DEF Tails, PositionInv
<1>4. Follows'
  BY <1>1, ConsumerKept DEF Tails
<1> QED BY <1>2, <1>3, <1>4 DEF Tails

\* Publishing the next event.
LEMMA PublishTail ==
  ASSUME ClientInv, Tails, ~evicted', PublishReady
  PROVE  Tails'
<1> DEFINE k == Len(published)
<1>1. /\ k \in Nat /\ Len(published') = k + 1 /\ Head(ready) = k + 1
  BY OrderPublishes DEF ClientInv
<1>2. /\ ready # <<>> /\ Log(Head(ready)) /\ ready' = Tail(ready)
      /\ UNCHANGED <<run, events, link, failure, subscribed, consumer>>
  BY DEF PublishReady, vars
<1>3. PICK x \in Nat : x = k + 1
  BY <1>1
<1>4. Log(x)
  BY <1>1, <1>2, <1>3
<1> HIDE DEF k
<1>5. ChannelInv /\ failure \in BOOLEAN /\ consumer.last_seq \in Nat
  BY DEF Tails, Follows, CursorInv, ChannelInv
<1>6. Items \subseteq Items' /\ x \in Items'
  BY <1>1, <1>2, <1>3 DEF Items, Failed, k
<1>7. /\ live' \in Seq(Items') /\ replay' \in Seq(Items') /\ lagged' \in BOOLEAN
      /\ lagged' => live' # <<>>
      /\ Len(live') <= LogCapacity
      /\ ~subscribed => live' = <<>>
  BY <1>4, <1>5, <1>6, LogTyped
<1>8. ChannelInv'
  BY <1>2, <1>5, <1>7 DEF ChannelInv
<1>9. ASSUME ~consumer.closed
      PROVE  PositionInv' /\ (~lagged' => ~lagged /\ Gone' = Gone)
  <2>1. PositionInv /\ ~failure
    BY <1>2, <1>9 DEF Tails, PositionInv
  <2>2. Top' = Top + 1 /\ Position(x, Len(published')) = Top + 1
    BY <2>1, <1>1, <1>2, <1>3 DEF Top, Position, Failed, k
  <2>3. /\ \A i \in DOMAIN live' : Position(live'[i], Len(published')) = Top' - Len(live') + i
        /\ replay' # <<>> \/ ~subscribed' =>
             /\ consumer'.at = "recv"
             /\ \A i \in DOMAIN replay' : Position(replay'[i], Len(published')) = consumer'.last_seq + i
             /\ ~lagged' => Gone' = consumer'.last_seq
        /\ ~lagged' => ~lagged /\ Gone' = Gone
    BY <2>1, <2>2, <1>2, <1>4, <1>5, LogPlaced
  <2> QED BY <2>1, <2>3, <1>2 DEF PositionInv
<1>10. Follows'
  BY <1>2, <1>9, ConsumerKept DEF Tails
<1> QED BY <1>2, <1>8, <1>9, <1>10 DEF Tails

\* Failed ends the log; a consumer that has not ended will find it there.
LEMMA FailureLogged ==
  ASSUME ClientInv, Tails, ~evicted', SetFailure, subscribed' = subscribed,
         UNCHANGED <<run, events>>, ~subscribed => ~consumer'.closed
  PROVE  /\ ChannelInv' /\ failure'
         /\ ~consumer.closed /\ consumer' = consumer /\ link' = "drained" /\ ready' = <<>> => PositionInv'
         /\ ~consumer.closed /\ ~lagged' /\ ~failure => ~lagged /\ Gone' = Gone
<1>1. failure' = TRUE /\ UNCHANGED published
  BY FailureUnnumbered DEF SetFailure
<1>2. ChannelInv /\ failure \in BOOLEAN /\ consumer.last_seq \in Nat /\ Len(published) \in Nat
  <2>1. consumer.last_seq \in Nat
    BY DEF Tails, Follows, CursorInv
  <2>2. ChannelInv
    BY DEF Tails
  <2> QED BY <2>1, <2>2, ItemCounts DEF ChannelInv
<1>3. CASE failure
  <2>1. UNCHANGED <<published, replay, live, lagged, failure>>
    BY <1>1, <1>3 DEF SetFailure, log
  <2>2. ChannelInv'
    BY <2>1, <1>2 DEF ChannelInv, Items
  <2>3. Top' = Top /\ Gone' = Gone
    BY <2>1 DEF Top, Gone
  <2>4. ~consumer.closed /\ consumer' = consumer /\ link' = "drained" /\ ready' = <<>> => PositionInv'
    BY <2>1, <2>3 DEF Tails, PositionInv
  <2> QED BY <1>1, <1>3, <2>2, <2>4
<1>4. CASE ~failure
  <2> DEFINE x == Failed
  <2>1. Log(x) /\ x \in Nat
    BY <1>4 DEF SetFailure, Failed
  <2>2. Items \subseteq Items' /\ x \in Items'
    BY <1>1, <1>2, <1>4 DEF Items, Failed
  <2>4. /\ live' \in Seq(Items') /\ replay' \in Seq(Items') /\ lagged' \in BOOLEAN
        /\ lagged' => live' # <<>>
        /\ Len(live') <= LogCapacity
        /\ ~subscribed => live' = <<>>
    BY <2>1, <2>2, <1>2, LogTyped
  <2>5. ChannelInv'
    BY <2>4, <1>1, <1>2 DEF ChannelInv
  <2>6. Top' = Top + 1 /\ Position(x, Len(published')) = Top + 1 /\ Top = Len(published)
    BY <1>1, <1>2, <1>4 DEF Top, Position
  <2>7. ASSUME ~consumer.closed, consumer' = consumer
        PROVE  /\ \A i \in DOMAIN live' : Position(live'[i], Len(published')) = Top' - Len(live') + i
               /\ replay' # <<>> \/ ~subscribed' =>
                    /\ consumer'.at = "recv"
                    /\ \A i \in DOMAIN replay' : Position(replay'[i], Len(published')) = consumer'.last_seq + i
                    /\ ~lagged' => Gone' = consumer'.last_seq
               /\ ~lagged' => ~lagged /\ Gone' = Gone
               /\ live' # <<>> \/ replay' # <<>>
    <3>1. PositionInv /\ UNCHANGED <<consumer, subscribed>>
      BY <2>7 DEF Tails
    <3> HIDE DEF x
    <3> QED BY <3>1, <2>1, <2>6, <1>2, <1>4, LogPlaced
  <2>8. ~consumer.closed /\ consumer' = consumer /\ link' = "drained" /\ ready' = <<>> => PositionInv'
    BY <2>7 DEF PositionInv
  <2>9. ~consumer.closed /\ ~lagged' => ~lagged /\ Gone' = Gone
    <3> SUFFICES ASSUME ~consumer.closed, ~lagged' PROVE ~lagged /\ Gone' = Gone
      OBVIOUS
    <3>0. Len(live) \in Nat /\ Len(replay) \in Nat /\ Top \in Nat
      BY <1>2, ItemCounts
    <3>1. CASE subscribed
      <4>1. live' = Bounded(Append(live, x)) /\ lagged' = (lagged \/ Len(live) = LogCapacity) /\ replay' = replay
        BY <3>1, <2>1 DEF Log
      <4>2. ~lagged /\ Len(live) < LogCapacity
        BY <4>1, <3>0, <1>2, LogCapacityAssumption DEF ChannelInv
      <4>3. live' = Append(live, x)
        BY <4>1, <4>2, <3>0, <1>2, LogCapacityAssumption DEF Bounded, ChannelInv
      <4>4. Len(live') = Len(live) + 1
        BY <4>3, <1>2 DEF ChannelInv
      <4> QED BY <4>1, <4>2, <4>4, <3>0, <2>6 DEF Gone
    <3>2. CASE ~subscribed
      <4>1. replay' = Append(replay, x) /\ live' = live /\ lagged' = lagged
        BY <3>2, <2>1 DEF Log
      <4>3. Len(replay') = Len(replay) + 1
        BY <4>1, <1>2 DEF ChannelInv
      <4> QED BY <4>1, <4>3, <3>0, <2>6 DEF Gone
    <3> QED BY <3>1, <3>2, <1>2 DEF ChannelInv
  <2> QED BY <1>1, <2>5, <2>8, <2>9
<1> QED BY <1>2, <1>3, <1>4

\* The reader task fails the session at the end of its queue.
LEMMA DrainTail ==
  ASSUME ClientInv, Tails, ~evicted', ReaderDrains
  PROVE  Tails'
<1>1. /\ link = "down" /\ ready = <<>> /\ link' = "drained"
      /\ UNCHANGED <<run, events, ready, subscribed, consumer>>
  BY DEF ReaderDrains, vars
<1>2. CASE UNCHANGED <<failure, published, replay, live, lagged>>
  <2>1. subscribed' \in BOOLEAN
    BY <1>1 DEF Tails, ChannelInv
  <2> QED BY <1>1, <1>2, <2>1, QuietTail
<1>3. CASE SetFailure
  <2>1. ~consumer.closed => ~failure
    BY <1>1 DEF Tails, PositionInv
  <2>2. ~subscribed => ~consumer'.closed
    BY <1>1 DEF Tails, ChannelInv
  <2>3. /\ ChannelInv'
        /\ ~consumer.closed /\ consumer' = consumer /\ link' = "drained" /\ ready' = <<>> => PositionInv'
        /\ ~consumer.closed /\ ~lagged' /\ ~failure => ~lagged /\ Gone' = Gone
    BY <1>1, <1>3, <2>2, FailureLogged
  <2>4. Follows'
    BY <1>1, <2>1, <2>3, ConsumerKept DEF Tails
  <2> QED BY <1>1, <2>3, <2>4 DEF Tails
<1> QED BY <1>2, <1>3 DEF ReaderDrains, log

(***************************************************************************)
(* The consumer's own steps.                                               *)
(***************************************************************************)
\* Receiving event x: nothing retained lies between the cursor and x.
LEMMA Received ==
  ASSUME ClientInv, Follows, consumer.at = "recv", ~consumer.closed, NEW x \in 0 .. Len(events[G]),
         consumer' = Receive(consumer, x), UNCHANGED <<run, events, lagged>>,
         x # Failed => \A seq \in Retained(G) : seq <= x => seq <= consumer.last_seq \/ seq = x,
         x # Failed /\ ~lagged => Gone' = x
  PROVE  /\ Follows' /\ consumer'.at = "recv"
         /\ x = Failed => consumer'.closed
         /\ x # Failed => consumer'.last_seq = MaxOf(consumer.last_seq, x)
<1> DEFINE C == [at : {"recv", "lagged", "answer"}, last_seq : Nat, got : Seq(Nat),
                 closed : BOOLEAN, failed : BOOLEAN, answer : Answer]
           c == consumer.last_seq
           got == consumer.got
<1>1. /\ consumer \in C /\ Outputs(got) /\ (\A i \in DOMAIN got : got[i] <= c) /\ ~consumer.failed /\ c <= Len(events[G])
      /\ \A seq \in Retained(G) : seq <= c => \E i \in DOMAIN got : got[i] = seq
  BY DEF Follows, CursorInv, NoGap
<1>2. /\ ServerInv /\ Len(events[G]) \in Nat /\ DOMAIN events[G] = 1 .. Len(events[G])
      /\ \A seq \in Retained(G) : seq \in 1 .. Len(events[G]) /\ Kind(seq) = "output"
  BY LogLength DEF ClientInv
<1>3. Retained(G)' = Retained(G) /\ \A seq : Kind(seq)' = Kind(seq)
  BY DEF Retained, Kind
<1>4. c \in Nat /\ got \in Seq(Nat) /\ x \in Nat /\ Failed = 0
  BY <1>1, <1>2 DEF Failed
<1>5. CASE x = Failed
  <2>1. consumer' = [consumer EXCEPT !.closed = TRUE, !.failed = TRUE]
    BY <1>5 DEF Receive
  <2>2. /\ consumer' \in C /\ consumer'.at = "recv" /\ consumer'.closed /\ consumer'.failed
        /\ consumer'.got = got /\ consumer'.last_seq = c
    BY <2>1, <1>1
  <2> HIDE DEF C
  <2>3. CursorInv'
    BY <2>2, <1>1, <1>3 DEF CursorInv, NoGap, Outputs, C, Kind
  <2>4. AnswerInv'
    BY <2>2 DEF AnswerInv
  <2> QED BY <2>2, <2>3, <2>4, <1>5 DEF Follows
<1>6. CASE x # Failed
  <2> DEFINE more == IF Kind(x) = "output" /\ x > c THEN Append(got, x) ELSE got
  <2>1. consumer' = [consumer EXCEPT !.got = more, !.last_seq = MaxOf(c, x), !.closed = (Kind(x) = "closed")]
    BY <1>6 DEF Receive
  <2>2. /\ MaxOf(c, x) \in 0 .. Len(events[G]) /\ MaxOf(c, x) \in Nat /\ c <= MaxOf(c, x) /\ x <= MaxOf(c, x)
        /\ (MaxOf(c, x) = c \/ MaxOf(c, x) = x) /\ x \in 1 .. Len(events[G])
    BY <1>1, <1>2, <1>4, <1>6 DEF MaxOf
  <2>3. /\ more \in Seq(Nat) /\ Increasing(more)
        /\ \A i \in DOMAIN more : (more[i] = x /\ Kind(x) = "output") \/ \E j \in DOMAIN got : more[i] = got[j]
        /\ \A j \in DOMAIN got : \E i \in DOMAIN more : more[i] = got[j]
        /\ Kind(x) = "output" /\ x > c => \E i \in DOMAIN more : more[i] = x
    <3>1. CASE Kind(x) = "output" /\ x > c
      <4>1. /\ more = Append(got, x) /\ Len(got) \in Nat /\ DOMAIN got = 1 .. Len(got)
        BY <3>1, <1>4
      <4>2. more \in Seq(Nat) /\ DOMAIN more = 1 .. Len(got) + 1
        BY <4>1, <1>4
      <4>3. \A i \in 1 .. Len(got) + 1 : more[i] = IF i = Len(got) + 1 THEN x ELSE got[i]
        BY <4>1, <1>4
      <4>4. \A i \in 1 .. Len(got) : i \in 1 .. Len(got) + 1 /\ i # Len(got) + 1
        BY <4>1
      <4>5. \A i \in 1 .. Len(got) + 1 : i = Len(got) + 1 \/ i \in 1 .. Len(got)
        BY <4>1
      <4>6. Increasing(more)
        <5> SUFFICES ASSUME NEW i \in DOMAIN more, NEW j \in DOMAIN more, i < j PROVE more[i] < more[j]
          BY DEF Increasing
        <5> HIDE DEF more
        <5>1. i \in 1 .. Len(got) /\ more[i] = got[i] /\ got[i] \in Nat
          BY <4>1, <4>2, <4>3, <1>4
        <5>2. CASE j = Len(got) + 1
          <6>1. more[j] = x /\ got[i] <= c
            BY <5>1, <5>2, <4>1, <4>2, <4>3, <1>1
          <6> QED BY <6>1, <5>1, <3>1, <1>4
        <5>3. CASE j \in 1 .. Len(got)
          <6>1. more[j] = got[j]
            BY <5>3, <4>3, <4>4
          <6> QED BY <6>1, <5>1, <5>3, <4>1, <1>1 DEF Outputs, Increasing
        <5> QED BY <5>2, <5>3, <4>2, <4>5
      <4> HIDE DEF more
      <4>7. \A j \in DOMAIN got : more[j] = got[j] /\ j \in DOMAIN more
        BY <4>1, <4>2, <4>3, <4>4
      <4>8. more[Len(got) + 1] = x /\ Len(got) + 1 \in DOMAIN more
        BY <4>1, <4>2, <4>3
      <4>9. \A i \in DOMAIN more : more[i] = x \/ (i \in DOMAIN got /\ more[i] = got[i])
        BY <4>1, <4>2, <4>5, <4>7, <4>8
      <4> QED BY <3>1, <4>2, <4>6, <4>7, <4>8, <4>9
    <3>2. CASE ~(Kind(x) = "output" /\ x > c)
      <4>1. more = got
        BY <3>2
      <4> QED BY <4>1, <3>2, <1>1, <1>4 DEF Outputs
    <3> QED BY <3>1, <3>2
  <2> HIDE DEF more
  <2>4. consumer' \in C
    <3>1. PICK m, k : m = more /\ k = MaxOf(c, x) /\ m \in Seq(Nat) /\ k \in Nat
      BY <2>2, <2>3
    <3>2. consumer' = [consumer EXCEPT !.got = m, !.last_seq = k, !.closed = (Kind(x) = "closed")]
      BY <3>1, <2>1
    <3>3. consumer \in C
      BY <1>1
    <3> QED BY <3>1, <3>2, <3>3
  <2>5. /\ consumer'.at = "recv" /\ consumer'.got = more /\ consumer'.last_seq = MaxOf(c, x)
        /\ consumer'.closed = (Kind(x) = "closed") /\ consumer'.failed = consumer.failed
    BY <2>1, <1>1
  <2> HIDE DEF C
  <2>6. Outputs(consumer.got)' /\ \A i \in DOMAIN more : more[i] <= MaxOf(c, x)
    <3>1. ASSUME NEW i \in DOMAIN more
          PROVE  more[i] \in DOMAIN events[G] /\ Kind(more[i]) = "output" /\ more[i] <= MaxOf(c, x)
      <4>1. CASE more[i] = x /\ Kind(x) = "output"
        BY <4>1, <2>2, <1>2
      <4>2. CASE \E j \in DOMAIN got : more[i] = got[j]
        <5>1. PICK j \in DOMAIN got : more[i] = got[j]
          BY <4>2
        <5>2. got[j] \in Nat /\ got[j] <= c /\ got[j] \in DOMAIN events[G] /\ Kind(got[j]) = "output"
          BY <1>1, <1>4 DEF Outputs
        <5> QED BY <5>1, <5>2, <2>2, <1>4
      <4> QED BY <4>1, <4>2, <2>3
    <3>2. Outputs(more)
      BY <3>1, <2>3 DEF Outputs
    <3> QED BY <3>1, <3>2, <2>5, <1>3 DEF Outputs, Kind, Increasing
  <2>7. ASSUME NEW seq \in Retained(G), seq <= MaxOf(c, x)
        PROVE  \E i \in DOMAIN more : more[i] = seq
    <3>1. seq \in Nat /\ Kind(seq) = "output"
      BY <1>2
    <3>2. CASE seq <= c
      <4>1. PICK j \in DOMAIN got : got[j] = seq
        BY <3>2, <1>1
      <4> QED BY <4>1, <2>3
    <3>3. CASE ~(seq <= c)
      <4>1. seq <= x
        BY <3>1, <3>3, <2>2, <2>7, <1>4
      <4>2. seq = x
        BY <4>1, <3>3, <1>6
      <4> QED BY <3>1, <3>3, <4>2, <2>3, <1>4
    <3> QED BY <3>2, <3>3
  <2>8. NoGap'
    BY <2>3, <2>5, <2>7, <1>3 DEF NoGap, Increasing
  <2>9. Kind(x) = "closed" => run[G].closed /\ \A seq \in Retained(G) : seq <= MaxOf(c, x)
    <3> SUFFICES ASSUME Kind(x) = "closed" PROVE run[G].closed /\ \A seq \in Retained(G) : seq <= MaxOf(c, x)
      OBVIOUS
    <3>1. x \in DOMAIN events[G] /\ events[G][x].kind = "closed"
      BY <2>2, <1>2 DEF Kind
    <3>2. run[G].closed
      BY <3>1, <1>2, OneProcess DEF ServerInv, ProcInv, LogInv
    <3>3. x = Len(events[G])
      BY <3>1, <1>2, OneProcess DEF ServerInv, ShapeInv
    <3>4. \A seq \in Retained(G) : seq \in Nat /\ seq <= x
      BY <3>3, <1>2
    <3> QED BY <3>2, <3>4, <2>2, <1>4
  <2>10. ~lagged => \A seq \in Retained(G) : seq <= MaxOf(c, x) \/ seq > Gone'
    <3> SUFFICES ASSUME ~lagged, NEW seq \in Retained(G) PROVE seq <= MaxOf(c, x) \/ seq > Gone'
      OBVIOUS
    <3>1. Gone' = x /\ seq \in Nat
      BY <1>2, <1>6
    <3> QED BY <3>1, <2>2, <1>4
  <2>11. \A i \in DOMAIN consumer'.got : consumer'.got[i] <= consumer'.last_seq
    BY <2>5, <2>6
  <2>12. CursorInv'
    <3>1. consumer'.closed /\ ~consumer'.failed => run'[G].closed /\ \A seq \in Retained(G)' : seq <= consumer'.last_seq
      BY <2>5, <2>9, <1>3
    <3>2. ~lagged' => \A seq \in Retained(G)' : seq <= consumer'.last_seq \/ seq > Gone'
      BY <2>5, <2>10, <1>3
    <3>3. consumer' \in C'
      BY <2>4 DEF C
    <3>4. ~consumer'.failed /\ consumer'.last_seq <= Len(events'[G])
      BY <2>2, <2>5, <1>1, <1>2
    <3> QED BY <3>1, <3>2, <3>3, <3>4, <2>5, <2>6, <2>8, <2>11 DEF CursorInv, C
  <2>13. AnswerInv'
    BY <2>5 DEF AnswerInv
  <2> QED BY <2>5, <2>12, <2>13, <1>6 DEF Follows
<1> QED BY <1>5, <1>6

\* The next event is taken from the replay, from the channel, or is the news
\* that the channel dropped some.
LEMMA RecvTail ==
  ASSUME ClientInv, Tails, Recv
  PROVE  Tails'
<1> DEFINE n == Len(published)
           c == consumer.last_seq
<1>1. /\ subscribed /\ consumer.at = "recv" /\ ~consumer.closed
      /\ UNCHANGED <<run, events, link, ready, published, failure, subscribed>>
  BY DEF Recv, vars
<1>2. ChannelInv /\ PositionInv /\ Follows
  BY <1>1 DEF Tails
<1>3. /\ n \in Nat /\ Len(live) \in Nat /\ Len(replay) \in Nat /\ Top \in Nat /\ Gone \in Int
      /\ n <= Len(events[G]) /\ Len(events[G]) \in Nat /\ Items \subseteq 0 .. n /\ Failed = 0
  BY <1>2, ItemCounts
<1>4. /\ live \in Seq(Items) /\ replay \in Seq(Items) /\ lagged \in BOOLEAN /\ failure \in BOOLEAN
      /\ Len(live) <= LogCapacity /\ (lagged => live # <<>>)
  BY <1>2 DEF ChannelInv
<1>5. c \in 0 .. Len(events[G]) /\ c \in Nat
  <2>1. c \in Nat /\ c <= Len(events[G])
    BY <1>1, <1>2 DEF Follows, CursorInv
  <2> QED BY <2>1, <1>3
<1>6. Top' = Top /\ Items' = Items
  BY <1>1 DEF Top, Items
<1>7. \A y \in Items : y \in 0 .. Len(events[G]) /\ y \in Nat /\ (y # Failed => Position(y, n) = y /\ y <= n)
  BY <1>3 DEF Position
<1>8. \A seq \in Retained(G) : seq \in Nat
  BY LogLength DEF ClientInv
<1>9. CASE /\ replay # <<>>
           /\ consumer' = Receive(consumer, Head(replay))
           /\ replay' = Tail(replay)
           /\ UNCHANGED <<live, lagged>>
  <2>1. PICK x \in Items : x = Head(replay)
    BY <1>4, <1>9
  <2>2. /\ replay' \in Seq(Items) /\ Len(replay') = Len(replay) - 1 /\ Len(replay) >= 1
        /\ replay[1] = x
        /\ \A i \in 1 .. Len(replay) - 1 : replay'[i] = replay[i + 1]
    BY <1>4, <1>9, <2>1
  <2>3. /\ \A i \in 1 .. Len(replay) : Position(replay[i], n) = c + i
        /\ ~lagged => Gone = c
    BY <1>2, <1>4, <1>9 DEF PositionInv
  <2>4. Position(x, n) = c + 1
    BY <2>2, <2>3, <1>3
  <2>5. x # Failed => x = c + 1
    BY <2>1, <2>4, <1>7
  <2>6. Gone' = Gone + 1
    BY <2>2, <1>3, <1>6, <1>9 DEF Gone
  <2>7. x # Failed => \A seq \in Retained(G) : seq <= x => seq <= c \/ seq = x
    BY <2>5, <1>5, <1>8
  <2>8. x # Failed /\ ~lagged => Gone' = x
    BY <2>3, <2>5, <2>6
  <2>9. /\ Follows' /\ consumer'.at = "recv" /\ (x = Failed => consumer'.closed)
        /\ x # Failed => consumer'.last_seq = MaxOf(c, x)
    BY <2>1, <2>7, <2>8, <1>1, <1>2, <1>7, <1>9, Received
  <2>10. ChannelInv'
    BY <2>2, <1>1, <1>4, <1>6, <1>9 DEF ChannelInv
  <2>11. ASSUME ~consumer'.closed PROVE PositionInv'
    <3>1. x # Failed /\ consumer'.last_seq = c + 1
      BY <2>5, <2>9, <2>11, <1>5 DEF MaxOf
    <3>2. DOMAIN replay' = 1 .. Len(replay) - 1
      BY <2>2, <1>3
    <3>3. \A i \in DOMAIN replay' : Position(replay'[i], n) = consumer'.last_seq + i
      <4> SUFFICES ASSUME NEW i \in 1 .. Len(replay) - 1 PROVE Position(replay'[i], n) = c + 1 + i
        BY <3>1, <3>2
      <4>1. i + 1 \in 1 .. Len(replay)
        BY <1>3
      <4>2. Position(replay'[i], n) = c + (i + 1)
        BY <4>1, <2>2, <2>3
      <4> QED BY <4>2, <1>5
    <3>4. ~lagged => Gone' = consumer'.last_seq
      BY <2>3, <2>6, <3>1
    <3>5. failure => live # <<>> \/ replay' # <<>>
      <4> SUFFICES ASSUME failure, live = <<>>, replay' = <<>> PROVE FALSE
        OBVIOUS
      <4>1. Len(replay) = 1 /\ Len(live) = 0 /\ ~lagged /\ Top = n + 1
        BY <2>2, <1>3, <1>4 DEF Top
      <4>2. Gone = n /\ Gone = c
        BY <4>1, <2>3, <1>3 DEF Gone
      <4>3. x = n + 1 /\ x <= n
        BY <4>2, <3>1, <2>1, <2>5, <1>7
      <4> QED BY <4>3, <1>3
    <3>6. failure => link = "drained" /\ ready = <<>>
      BY <1>2 DEF PositionInv
    <3>7. \A i \in DOMAIN live : Position(live[i], n) = Top - Len(live) + i
      BY <1>2 DEF PositionInv
    <3> QED BY <3>3, <3>4, <3>5, <3>6, <3>7, <2>9, <1>1, <1>6, <1>9 DEF PositionInv
  <2> QED BY <2>9, <2>10, <2>11 DEF Tails
<1>10. CASE /\ replay = <<>> /\ lagged
            /\ consumer' = [consumer EXCEPT !.at = "lagged"]
            /\ lagged' = FALSE
            /\ UNCHANGED <<replay, live>>
  <2>1. CursorInv /\ PositionInv
    BY <1>2 DEF Follows
  <2>2. /\ consumer \in [at : {"recv", "lagged", "answer"}, last_seq : Nat, got : Seq(Nat),
                         closed : BOOLEAN, failed : BOOLEAN, answer : Answer]
    BY <2>1 DEF CursorInv
  <2>3. /\ consumer' \in [at : {"recv", "lagged", "answer"}, last_seq : Nat, got : Seq(Nat),
                          closed : BOOLEAN, failed : BOOLEAN, answer : Answer]
        /\ consumer'.at = "lagged" /\ consumer'.last_seq = c /\ consumer'.got = consumer.got
        /\ consumer'.closed = consumer.closed /\ consumer'.failed = consumer.failed
    BY <2>2, <1>10
  <2>4. Retained(G)' = Retained(G)
    BY <1>1 DEF Retained
  <2>5. CursorInv'
    BY <2>1, <2>3, <2>4, <1>1 DEF CursorInv, NoGap, Outputs, Kind, Increasing
  <2>6. AnswerInv'
    BY <2>3 DEF AnswerInv
  <2>7. ChannelInv'
    BY <2>3, <1>1, <1>4, <1>6, <1>10 DEF ChannelInv
  <2>8. PositionInv'
    BY <2>1, <1>1, <1>6, <1>10 DEF PositionInv
  <2> QED BY <2>5, <2>6, <2>7, <2>8 DEF Tails, Follows
<1>11. CASE /\ replay = <<>> /\ ~lagged /\ live # <<>>
            /\ consumer' = Receive(consumer, Head(live))
            /\ live' = Tail(live)
            /\ UNCHANGED <<replay, lagged>>
  <2>1. PICK x \in Items : x = Head(live)
    BY <1>4, <1>11
  <2>2. /\ live' \in Seq(Items) /\ Len(live') = Len(live) - 1 /\ Len(live) >= 1
        /\ live[1] = x
        /\ \A i \in 1 .. Len(live) - 1 : live'[i] = live[i + 1]
    BY <1>4, <1>11, <2>1
  <2>3. \A i \in 1 .. Len(live) : Position(live[i], n) = Top - Len(live) + i
    BY <1>2, <1>4 DEF PositionInv
  <2>r. Len(replay) = 0
    BY <1>11
  <2>4. Position(x, n) = Gone + 1
    BY <2>2, <2>3, <2>r, <1>3 DEF Gone
  <2>5. x # Failed => x = Gone + 1
    BY <2>1, <2>4, <1>7
  <2>6. Gone' = Gone + 1
    BY <2>2, <1>3, <1>6, <1>11 DEF Gone
  <2>7. x # Failed => \A seq \in Retained(G) : seq <= x => seq <= c \/ seq = x
    <3>1. \A seq \in Retained(G) : seq <= c \/ seq > Gone
      BY <1>1, <1>2, <1>11 DEF Follows, CursorInv
    <3> QED BY <3>1, <2>5, <1>3, <1>8
  <2>8. x # Failed /\ ~lagged => Gone' = x
    BY <2>5, <2>6
  <2>9. /\ Follows' /\ consumer'.at = "recv" /\ (x = Failed => consumer'.closed)
    BY <2>1, <2>7, <2>8, <1>1, <1>2, <1>7, <1>11, Received
  <2>10. ChannelInv'
    <3>1. Len(live') <= LogCapacity
      BY <2>2, <1>3, <1>4, LogCapacityAssumption
    <3> QED BY <3>1, <2>2, <1>1, <1>4, <1>6, <1>11 DEF ChannelInv
  <2>11. ASSUME ~consumer'.closed PROVE PositionInv'
    <3>1. x # Failed
      BY <2>9, <2>11
    <3>2. DOMAIN live' = 1 .. Len(live) - 1
      BY <2>2, <1>3
    <3>3. \A i \in DOMAIN live' : Position(live'[i], n) = Top - Len(live') + i
      <4> SUFFICES ASSUME NEW i \in 1 .. Len(live) - 1 PROVE Position(live'[i], n) = Top - (Len(live) - 1) + i
        BY <2>2, <3>2
      <4>1. i + 1 \in 1 .. Len(live)
        BY <1>3
      <4>2. Position(live'[i], n) = Top - Len(live) + (i + 1)
        BY <4>1, <2>2, <2>3
      <4> QED BY <4>2, <1>3
    <3>5. failure => live' # <<>>
      <4> SUFFICES ASSUME failure, live' = <<>> PROVE FALSE
        OBVIOUS
      <4>1. Len(live) = 1 /\ Top = n + 1
        BY <2>2, <1>3 DEF Top
      <4>2. x = n + 1 /\ x <= n
        BY <4>1, <3>1, <2>1, <2>5, <2>r, <1>3, <1>7 DEF Gone
      <4> QED BY <4>2, <1>3
    <3>6. failure => link = "drained" /\ ready = <<>>
      BY <1>2 DEF PositionInv
    <3> QED BY <3>3, <3>5, <3>6, <2>9, <1>1, <1>6, <1>11 DEF PositionInv
  <2> QED BY <2>9, <2>10, <2>11 DEF Tails
<1> QED BY <1>9, <1>10, <1>11 DEF Recv

\* A consumer that recovers has no replay left, and its stream has not ended.
LEMMA Recovering ==
  ASSUME ClientInv, Tails, consumer.at # "recv"
  PROVE  /\ ~consumer.closed /\ PositionInv /\ ChannelInv /\ CursorInv /\ AnswerInv
         /\ subscribed /\ replay = <<>>
         /\ consumer \in [at : {"recv", "lagged", "answer"}, last_seq : Nat, got : Seq(Nat),
                          closed : BOOLEAN, failed : BOOLEAN, answer : Answer]
         /\ consumer.last_seq \in Nat /\ Len(events[G]) \in Nat /\ run[G].next_seq = Len(events[G]) + 1
         /\ ~consumer.failed /\ consumer.last_seq <= Len(events[G])
<1>1. CursorInv /\ AnswerInv /\ ChannelInv
  BY DEF Tails, Follows
<1>2. /\ ~consumer.closed /\ ~consumer.failed /\ consumer.last_seq <= Len(events[G])
      /\ consumer \in [at : {"recv", "lagged", "answer"}, last_seq : Nat, got : Seq(Nat),
                       closed : BOOLEAN, failed : BOOLEAN, answer : Answer]
  BY <1>1 DEF CursorInv
<1>3. PositionInv
  BY <1>2 DEF Tails
<1>4. subscribed /\ replay = <<>>
  BY <1>3 DEF PositionInv
<1>5. Len(events[G]) \in Nat /\ run[G].next_seq = Len(events[G]) + 1
  BY LogLength DEF ClientInv
<1>7. consumer.last_seq \in Nat
  BY <1>2
<1> QED BY <1>1, <1>2, <1>3, <1>4, <1>5, <1>7

\* The consumer's recovery leaves the event log alone.
LEMMA RecoveryQuiet ==
  ASSUME ClientInv, Tails, consumer.at # "recv", UNCHANGED <<vars, client>>
  PROVE  /\ ChannelInv' /\ PositionInv'
         /\ Top' = Top /\ Gone' = Gone /\ Retained(G)' = Retained(G)
         /\ \A seq : Kind(seq)' = Kind(seq)
<1>0. PositionInv /\ ChannelInv /\ subscribed /\ replay = <<>>
  BY Recovering
<1>1. UNCHANGED <<run, events, link, ready, published, failure, subscribed, replay, live, lagged>>
  BY DEF vars, client, log
<1>2. Top' = Top /\ Gone' = Gone /\ Items' = Items /\ Retained(G)' = Retained(G) /\ \A seq : Kind(seq)' = Kind(seq)
  BY <1>1 DEF Top, Gone, Items, Retained, Kind
<1>3. ChannelInv'
  BY <1>0, <1>1, <1>2 DEF ChannelInv
<1>4. PositionInv'
  BY <1>0, <1>1, <1>2 DEF PositionInv
<1> QED BY <1>2, <1>3, <1>4

\* An unlimited read from a cursor answers with all that is retained after it.
LEMMA NewerContinues ==
  ASSUME ServerInv, NEW c \in Nat, c < run[G].next_seq
  PROVE  LET chunks == Newer(G, c)
             next == NextSeq(G, chunks)
         IN /\ chunks \in Seq(Nat) /\ Increasing(chunks) /\ next \in Nat /\ c < next /\ next <= run[G].next_seq
            /\ \A i \in DOMAIN chunks : chunks[i] > c /\ chunks[i] < next /\ chunks[i] \in Retained(G)
            /\ \A seq \in Retained(G) : seq <= c \/ \E i \in DOMAIN chunks : chunks[i] = seq
<1> DEFINE chunks == Newer(G, c)
<1>1. chunks \in Seq(Nat)
  <2>1. run[G].output \in Seq(Nat) /\ Increasing(run[G].output)
    BY LogLength, OneProcess DEF ServerInv, OutputInv
  <2> QED BY <2>1, AfterKeeps DEF Newer
<1>2. PICK max \in Nat : max = Len(chunks) + 1
  BY <1>1
<1>3. Chunks(G, c, max) = chunks
  <2> HIDE DEF chunks
  <2>1. Len(chunks) \in Nat /\ SubSeq(chunks, 1, Len(chunks)) = chunks
    BY <1>1
  <2>2. max # 0 /\ Len(chunks) < max
    BY <2>1, <1>2
  <2> QED BY <2>1, <2>2 DEF Chunks, chunks
<1>4. LET k == Chunks(G, c, max)
          next == NextSeq(G, k)
      IN /\ k \in Seq(Nat) /\ Increasing(k) /\ next \in Nat /\ c < next /\ next <= run[G].next_seq
         /\ \A i \in DOMAIN k : k[i] > c /\ k[i] < next /\ k[i] \in Retained(G)
         /\ \A seq \in Retained(G) :
              \/ seq <= c
              \/ seq >= next /\ Len(k) # Len(Newer(G, c))
              \/ \E i \in DOMAIN k : k[i] = seq
  BY OneProcess, ChunksContinue DEF ServerInv
<1> QED BY <1>3, <1>4

\* The recovery read is answered, or the process is gone and the stream ends.
LEMMA RecoverReadTail ==
  ASSUME ClientInv, Tails, RecoverRead
  PROVE  Tails'
<1> DEFINE C == [at : {"recv", "lagged", "answer"}, last_seq : Nat, got : Seq(Nat),
                 closed : BOOLEAN, failed : BOOLEAN, answer : Answer]
           c == consumer.last_seq
<1>1. consumer.at = "lagged" /\ consumer.at # "recv" /\ UNCHANGED <<vars, client>> /\ UNCHANGED <<run, events, lagged>>
  BY DEF RecoverRead, vars, client, log
<1>2. /\ ~consumer.closed /\ CursorInv /\ consumer \in C /\ subscribed /\ ~consumer.failed /\ c <= Len(events[G])
      /\ c \in Nat /\ Len(events[G]) \in Nat /\ run[G].next_seq = Len(events[G]) + 1
  BY <1>1, Recovering
<1>3. /\ ChannelInv' /\ PositionInv' /\ Retained(G)' = Retained(G) /\ Gone' = Gone
  BY <1>1, RecoveryQuiet
<1>4. CASE entry[P] = G
  <2> DEFINE chunks == Newer(G, c)
             next == NextSeq(G, chunks)
             a == [chunks |-> chunks, next |-> next, closed |-> run[G].closed]
  <2>1. consumer' = [consumer EXCEPT !.at = "answer", !.answer = a]
    BY <1>4 DEF RecoverRead
  <2>2. c < run[G].next_seq
    BY <1>2
  <2>3. /\ chunks \in Seq(Nat) /\ Increasing(chunks) /\ next \in Nat /\ c < next /\ next <= run[G].next_seq
        /\ \A i \in DOMAIN chunks : chunks[i] > c /\ chunks[i] < next /\ chunks[i] \in Retained(G)
        /\ \A seq \in Retained(G) : seq <= c \/ \E i \in DOMAIN chunks : chunks[i] = seq
    BY <1>2, <2>2, NewerContinues DEF ClientInv
  <2>4. run[G].closed \in BOOLEAN
    BY OneProcess DEF ClientInv, ServerInv, ProcInv, TypeOK, Record
  <2> HIDE DEF chunks, next
  <2>5. a \in Answer
    BY <2>3, <2>4 DEF Answer
  <2>6. a.chunks = chunks /\ a.next = next /\ a.closed = run[G].closed
    OBVIOUS
  <2> HIDE DEF a
  <2>7. /\ consumer' \in C /\ consumer'.at = "answer" /\ consumer'.answer = a
        /\ consumer'.last_seq = c /\ consumer'.got = consumer.got
        /\ consumer'.closed = consumer.closed /\ consumer'.failed = consumer.failed
    BY <2>1, <2>5, <1>2
  <2>8. CursorInv'
    BY <2>7, <1>1, <1>2, <1>3 DEF CursorInv, NoGap, Outputs, Kind, Increasing
  <2>9. \A seq \in Retained(G) : seq \in Nat /\ seq \in DOMAIN events[G] /\ Kind(seq) = "output"
    BY LogLength DEF ClientInv
  <2>10. Outputs(consumer.answer.chunks)'
    <3>1. Outputs(chunks)
      BY <2>3, <2>9 DEF Outputs
    <3> QED BY <3>1, <2>6, <2>7, <1>1 DEF Outputs, Kind, Increasing
  <2>11. \A seq \in Retained(G) : seq < next
    <3> SUFFICES ASSUME NEW seq \in Retained(G) PROVE seq < next
      OBVIOUS
    <3>1. CASE seq <= c
      BY <3>1, <2>3, <2>9, <1>2
    <3>2. CASE \E i \in DOMAIN chunks : chunks[i] = seq
      BY <3>2, <2>3
    <3> QED BY <3>1, <3>2, <2>3
  <2>12. AnswerInv'
    <3>1. next \in 1 .. run[G].next_seq
      BY <2>3, <1>2
    <3>2. /\ consumer'.answer.chunks = chunks /\ consumer'.answer.next = next
          /\ consumer'.answer.closed = run[G].closed
      BY <2>6, <2>7
    <3> QED BY <3>1, <3>2, <2>3, <2>7, <2>10, <2>11, <1>1, <1>3 DEF AnswerInv
  <2> QED BY <2>8, <2>12, <1>3 DEF Tails, Follows
<1>5. CASE entry[P] # G
  <2>1. consumer' = [consumer EXCEPT !.at = "recv", !.closed = TRUE, !.failed = TRUE]
    BY <1>5 DEF RecoverRead
  <2>2. /\ consumer' \in C /\ consumer'.at = "recv" /\ consumer'.closed /\ consumer'.failed
        /\ consumer'.got = consumer.got /\ consumer'.last_seq = c
    BY <2>1, <1>2
  <2>3. CursorInv'
    BY <2>2, <1>1, <1>2, <1>3 DEF CursorInv, NoGap, Outputs, Kind, Increasing
  <2>4. AnswerInv'
    BY <2>2 DEF AnswerInv
  <2> QED BY <2>2, <2>3, <2>4, <1>3 DEF Tails, Follows
<1> QED BY <1>4, <1>5

\* A recovery over a lost connection fails the session and ends the stream.
LEMMA RecoverFailsTail ==
  ASSUME ClientInv, Tails, ~evicted', RecoverFails
  PROVE  Tails'
<1> DEFINE C == [at : {"recv", "lagged", "answer"}, last_seq : Nat, got : Seq(Nat),
                 closed : BOOLEAN, failed : BOOLEAN, answer : Answer]
<1>1. /\ consumer.at # "recv" /\ UNCHANGED <<run, events, subscribed>>
      /\ (failure /\ UNCHANGED <<wake, failure, log>>) \/ SetFailure
      /\ consumer' = [consumer EXCEPT !.at = "recv", !.closed = TRUE, !.failed = TRUE, !.answer = NoAnswer,
                                      !.last_seq = MaxOf(@, wake')]
  BY DEF RecoverFails, vars
<1>2. CursorInv /\ consumer \in C /\ subscribed
  BY <1>1, Recovering
<1>3. NoAnswer \in Answer
  BY DEF NoAnswer, Answer
<1>w. wake' \in Nat
  BY <1>1 DEF ClientInv, OrderInv, SetFailure
<1>m. PICK m \in Nat : m = MaxOf(consumer.last_seq, wake') /\ consumer.last_seq <= m
  BY <1>2, <1>w DEF MaxOf
<1>c. consumer' = [consumer EXCEPT !.at = "recv", !.closed = TRUE, !.failed = TRUE, !.answer = NoAnswer, !.last_seq = m]
  BY <1>1, <1>2, <1>m
<1>4. /\ consumer' \in C /\ consumer'.at = "recv" /\ consumer'.closed /\ consumer'.failed
      /\ consumer'.got = consumer.got /\ consumer'.last_seq = m
  BY <1>c, <1>2, <1>3
<1>5. ChannelInv'
  <2>1. CASE SetFailure
    BY <2>1, <1>1, <1>2, FailureLogged
  <2>2. CASE UNCHANGED <<wake, failure, log>>
    BY <2>2, <1>1, <1>2 DEF Tails, ChannelInv, Items, log
  <2> QED BY <2>1, <2>2, <1>1
<1>6. Retained(G)' = Retained(G)
  BY <1>1 DEF Retained
<1>7. CursorInv'
  <2>1. \A i \in DOMAIN consumer.got : consumer.got[i] \in Nat /\ consumer.got[i] <= consumer.last_seq
    BY <1>2 DEF CursorInv
  <2>2. \A i \in DOMAIN consumer'.got : consumer'.got[i] <= consumer'.last_seq
    BY <2>1, <1>2, <1>4, <1>m
  <2> QED BY <1>1, <1>2, <1>4, <1>6, <2>2 DEF CursorInv, NoGap, Outputs, Kind, Increasing
<1>8. AnswerInv'
  BY <1>4 DEF AnswerInv
<1> QED BY <1>4, <1>5, <1>7, <1>8 DEF Tails, Follows

\* Applying the answer moves the cursor past everything the answer covered.
LEMMA RecoverApplyTail ==
  ASSUME ClientInv, Tails, RecoverApply
  PROVE  Tails'
<1> DEFINE C == [at : {"recv", "lagged", "answer"}, last_seq : Nat, got : Seq(Nat),
                 closed : BOOLEAN, failed : BOOLEAN, answer : Answer]
           c == consumer.last_seq
           got == consumer.got
           chunks == consumer.answer.chunks
           next == consumer.answer.next
           more == After(chunks, c)
           d == MaxOf(c, next - 1)
<1>1. /\ consumer.at = "answer" /\ consumer.at # "recv" /\ UNCHANGED <<vars, client>> /\ UNCHANGED <<run, events, lagged>>
      /\ consumer' = [consumer EXCEPT !.at = "recv", !.answer = NoAnswer, !.got = got \o more,
                                      !.last_seq = d, !.closed = consumer.answer.closed]
  BY DEF RecoverApply, vars, client, log
<1>2. /\ CursorInv /\ AnswerInv /\ consumer \in C /\ ~consumer.failed /\ c <= Len(events[G])
      /\ c \in Nat /\ Len(events[G]) \in Nat /\ run[G].next_seq = Len(events[G]) + 1
  BY <1>1, Recovering
<1>3. /\ ChannelInv' /\ PositionInv' /\ Retained(G)' = Retained(G) /\ Gone' = Gone
  BY <1>1, RecoveryQuiet
<1>4. /\ Outputs(got) /\ \A i \in DOMAIN got : got[i] <= c
      /\ \A seq \in Retained(G) : seq <= c => \E i \in DOMAIN got : got[i] = seq
  BY <1>2 DEF CursorInv, NoGap
<1>5. /\ Outputs(chunks) /\ next \in 1 .. run[G].next_seq
      /\ \A i \in DOMAIN chunks : chunks[i] > c /\ chunks[i] < next
      /\ consumer.answer.closed => run[G].closed
      /\ \A seq \in Retained(G) :
           /\ seq <= c \/ seq >= next \/ \E i \in DOMAIN chunks : chunks[i] = seq
           /\ seq < next \/ ~consumer.answer.closed
           /\ seq < next \/ lagged \/ seq > Gone
  BY <1>1, <1>2 DEF AnswerInv
<1>6. chunks \in Seq(Nat) /\ got \in Seq(Nat) /\ consumer.answer.closed \in BOOLEAN /\ NoAnswer \in Answer
  BY <1>2 DEF Answer, NoAnswer
<1>7. /\ more \in Seq(Nat) /\ Increasing(more)
      /\ \A i \in DOMAIN more : more[i] > c /\ \E j \in DOMAIN chunks : chunks[j] = more[i]
      /\ \A j \in DOMAIN chunks : chunks[j] > c => \E i \in DOMAIN more : more[i] = chunks[j]
  <2>1. Increasing(chunks)
    BY <1>5 DEF Outputs
  <2> HIDE DEF c, chunks
  <2> QED BY <2>1, <1>2, <1>6, AfterKeeps
<1>8. /\ next \in Nat /\ d \in 0 .. Len(events[G]) /\ d \in Nat /\ c <= d /\ next - 1 <= d /\ (d = c \/ d = next - 1)
  BY <1>2, <1>5 DEF MaxOf
<1>9. \A seq \in Retained(G) : seq \in Nat
  BY LogLength DEF ClientInv
<1> HIDE DEF chunks, next, more, d
<1> DEFINE r == got \o more
<1>10. /\ r \in Seq(Nat) /\ Increasing(r)
       /\ \A i \in DOMAIN got : \E j \in DOMAIN r : r[j] = got[i]
       /\ \A i \in DOMAIN more : \E j \in DOMAIN r : r[j] = more[i]
       /\ \A j \in DOMAIN r : (\E i \in DOMAIN got : r[j] = got[i]) \/ (\E i \in DOMAIN more : r[j] = more[i])
  BY <1>2, <1>4, <1>6, <1>7, ConcatKeeps DEF Outputs
<1> HIDE DEF r
<1>11. consumer' = [consumer EXCEPT !.at = "recv", !.answer = NoAnswer, !.got = r,
                                    !.last_seq = d, !.closed = consumer.answer.closed]
  BY <1>1 DEF r
<1>12. /\ consumer' \in C /\ consumer'.at = "recv" /\ consumer'.got = r /\ consumer'.last_seq = d
       /\ consumer'.closed = consumer.answer.closed /\ ~consumer'.failed
  BY <1>11, <1>2, <1>6, <1>8, <1>10
<1>13. ASSUME NEW j \in DOMAIN r
       PROVE  r[j] \in DOMAIN events[G] /\ Kind(r[j]) = "output" /\ r[j] <= d
  <2>1. CASE \E i \in DOMAIN got : r[j] = got[i]
    <3>1. PICK i \in DOMAIN got : r[j] = got[i]
      BY <2>1
    <3>2. got[i] \in Nat /\ got[i] <= c /\ got[i] \in DOMAIN events[G] /\ Kind(got[i]) = "output"
      BY <1>4, <1>6 DEF Outputs
    <3> QED BY <3>1, <3>2, <1>2, <1>8
  <2>2. CASE \E i \in DOMAIN more : r[j] = more[i]
    <3>1. PICK i \in DOMAIN chunks : r[j] = chunks[i]
      BY <2>2, <1>7
    <3>2. chunks[i] \in Nat /\ chunks[i] < next /\ chunks[i] \in DOMAIN events[G] /\ Kind(chunks[i]) = "output"
      BY <1>5, <1>6 DEF Outputs
    <3> QED BY <3>1, <3>2, <1>8
  <2> QED BY <2>1, <2>2, <1>10
<1>14. Outputs(consumer.got)' /\ \A i \in DOMAIN consumer'.got : consumer'.got[i] <= consumer'.last_seq
  <2>1. Outputs(r) /\ \A i \in DOMAIN r : r[i] <= d
    BY <1>10, <1>13 DEF Outputs
  <2>2. consumer'.got = r /\ consumer'.last_seq = d /\ UNCHANGED events
    BY <1>1, <1>12
  <2>3. Outputs(consumer.got)'
    BY <2>1, <2>2 DEF Outputs, Kind, Increasing
  <2> QED BY <2>1, <2>2, <2>3
<1>15. ASSUME NEW seq \in Retained(G), seq <= d
       PROVE  \E j \in DOMAIN r : r[j] = seq
  <2>1. CASE seq <= c
    <3>1. PICK i \in DOMAIN got : got[i] = seq
      BY <2>1, <1>4
    <3> QED BY <3>1, <1>10
  <2>2. CASE ~(seq <= c)
    <3>1. ~(seq >= next)
      BY <2>2, <1>2, <1>8, <1>9, <1>15
    <3>2. PICK i \in DOMAIN chunks : chunks[i] = seq
      BY <2>2, <3>1, <1>5
    <3>3. PICK k \in DOMAIN more : more[k] = chunks[i]
      BY <1>5, <1>7
    <3> QED BY <3>2, <3>3, <1>10
  <2> QED BY <2>1, <2>2
<1>16. NoGap'
  BY <1>3, <1>10, <1>12, <1>15 DEF NoGap, Increasing
<1>17. \A seq \in Retained(G) : seq < next => seq <= d
  BY <1>8, <1>9
<1>18. consumer'.closed => run'[G].closed /\ \A seq \in Retained(G)' : seq <= consumer'.last_seq
  BY <1>1, <1>3, <1>5, <1>12, <1>17
<1>19. ~lagged' => \A seq \in Retained(G)' : seq <= consumer'.last_seq \/ seq > Gone'
  BY <1>1, <1>3, <1>5, <1>12, <1>17
<1>20. CursorInv'
  <2>1. consumer' \in C'
    BY <1>1, <1>12
  <2>2. consumer'.last_seq <= Len(events'[G])
    BY <1>1, <1>2, <1>8, <1>12
  <2> QED BY <2>1, <2>2, <1>12, <1>14, <1>16, <1>18, <1>19 DEF CursorInv
<1>21. AnswerInv'
  BY <1>12 DEF AnswerInv
<1> QED BY <1>3, <1>20, <1>21 DEF Tails, Follows

LEMMA TailInit == SInit => Tails
<1> SUFFICES ASSUME SInit PROVE Tails
  OBVIOUS
<1>1. /\ failure = FALSE /\ subscribed = FALSE /\ lagged = FALSE
      /\ replay = <<>> /\ live = <<>> /\ published = <<>> /\ ready = <<>>
      /\ consumer = [at |-> "recv", last_seq |-> 0, got |-> <<>>, closed |-> FALSE,
                     failed |-> FALSE, answer |-> NoAnswer]
  BY DEF SInit
<1>2. ServerInv /\ Len(events[G]) \in Nat /\ Retained(G) = {}
  <2>1. ServerInv /\ Len(events[G]) \in Nat
    BY ClientInit, LogLength DEF ClientInv
  <2>2. run[G].output = <<>>
    BY OneProcess DEF SInit, Init, Fresh
  <2> QED BY <2>1, <2>2 DEF Retained
<1>3. Top = 0 /\ Gone = 0
  BY <1>1 DEF Top, Gone
<1>4. ChannelInv
  <2>1. Len(live) = 0 /\ LogCapacity \in Nat /\ live \in Seq(Items) /\ replay \in Seq(Items)
    BY <1>1, LogCapacityAssumption
  <2>2. Len(live) <= LogCapacity
    BY <2>1
  <2> QED BY <2>1, <2>2, <1>1 DEF ChannelInv
<1>5. PositionInv
  BY <1>1, <1>3 DEF PositionInv
<1>6. NoAnswer \in Answer /\ Outputs(<<>>)
  BY DEF NoAnswer, Answer, Outputs, Increasing
<1>7. CursorInv
  BY <1>1, <1>2, <1>6 DEF CursorInv, NoGap, Increasing
<1>8. AnswerInv
  BY <1>1 DEF AnswerInv
<1> QED BY <1>4, <1>5, <1>7, <1>8 DEF Tails, Follows

LEMMA TailStep ==
  ASSUME ClientInv, Tails, ~evicted', [SNext]_svars
  PROVE  Tails'
<1>0. subscribed \in BOOLEAN /\ (~consumer.closed /\ failure => link = "drained" /\ ready = <<>>)
  BY DEF Tails, ChannelInv, PositionInv
<1>1. CASE ServerStep
  <2>1. ServerGrows
    BY ServerKeeps DEF ClientInv
  <2>2. UNCHANGED <<client, consumer>>
    BY <1>1 DEF ServerStep
  <2> QED BY <2>1, <2>2, ServerTail DEF Tails
<1>2. CASE Disconnect
  <2>1. ~(~consumer.closed /\ failure)
    BY <1>0, <1>2 DEF Disconnect
  <2> QED BY <2>1, <1>0, <1>2, QuietTail DEF Disconnect, log
<1>3. CASE Subscribe
  BY <1>0, <1>3, QuietTail DEF Subscribe, vars, log
<1>4. CASE HandleNotification
  <2>1. ~(~consumer.closed /\ failure)
    BY <1>0, <1>4 DEF HandleNotification
  <2> QED BY <2>1, <1>0, <1>4, QuietTail DEF HandleNotification, log
<1>5. CASE UNCHANGED svars
  BY <1>0, <1>5, QuietTail DEF svars, vars, client, log
<1> QED BY <1>1, <1>2, <1>3, <1>4, <1>5, PublishTail, DrainTail, RecvTail, RecoverReadTail, RecoverFailsTail,
           RecoverApplyTail DEF SNext

\* Nothing takes back that the history dropped an event.
LEMMA EvictionStays == ASSUME [SNext]_svars, ~evicted' PROVE ~evicted
  BY DEF SNext, svars, client, log, ServerStep, Disconnect, Subscribe, HandleNotification, PublishReady,
         ReaderDrains, Recv, RecoverRead, RecoverFails, RecoverApply, SetFailure, Log

\* The whole stream, from the server's tasks to the consumer, keeps its
\* inductive invariant, for any capacity and any number of chunks: the events
\* the consumer has not received are in its channel, in a replay or known to
\* be dropped (publish, subscribe, recv, recover_lagged_events).  Of a consumer
\* that subscribes after the history dropped an event only the client's half
\* is said.
THEOREM StreamSafety == SSpec => []StreamInv
<1>1. SInit => (~evicted => Tails)
  BY TailInit
<1>2. ClientInv /\ (~evicted => Tails) /\ [SNext]_svars => (~evicted' => Tails')
  BY TailStep, EvictionStays
<1>3. ClientInv /\ (~evicted => Tails) => StreamInv
  BY DEF ClientInv, Tails, ServerInv, Follows, StreamInv
<1> QED BY <1>1, <1>2, <1>3, ClientInit, ClientStep, PTL DEF SSpec

\* A consumer across lag, recovery reads that overtake notifications, replays
\* and a lost connection has every chunk up to its cursor that the server
\* retains, in order and once, unless its stream failed or the history had
\* dropped events before it subscribed (receive_message, recover_lagged_events).
THEOREM NoSilentGapAlways == SSpec => []NoSilentGap
<1>1. StreamInv => NoSilentGap
  BY DEF StreamInv, CursorInv, NoSilentGap
<1> QED BY <1>1, StreamSafety, PTL

(***************************************************************************)
(* End of stream means end of output.                                      *)
(***************************************************************************)
\* A process writes at most MaxChunks chunks, one step each.
LEMMA ChunksLeft ==
  ASSUME left \in [Gens -> Nat], [SNext]_svars
  PROVE  left' \in [Gens -> Nat] /\ left'[G] <= left[G]
<1>1. CASE UNCHANGED left
  BY <1>1, OneProcess
<1>2. CASE left[G] > 0 /\ left' = [left EXCEPT ![G] = @ - 1]
  BY <1>2, OneProcess
<1>3. CASE ServerStep
  <2>1. ASSUME NEW t \in Tasks, TaskStep(G, t)
        PROVE  UNCHANGED left \/ (left[G] > 0 /\ left' = [left EXCEPT ![G] = @ - 1])
    BY <2>1 DEF TaskStep, StreamOutput, StreamEof, Notify, FinishOutputStream, MaybeEmitClosed
  <2>2. \/ UNCHANGED left
        \/ left[G] > 0 /\ left' = [left EXCEPT ![G] = @ - 1]
    BY <2>1, <1>3 DEF ServerStep, StartProcess, SpawnSucceeds, TerminateProcess, WatchExit, RetentionElapses
  <2> QED BY <2>2, <1>1, <1>2
<1>4. CASE ~ServerStep
  BY <1>1, <1>4 DEF SNext, svars, vars, Disconnect, Subscribe, HandleNotification, PublishReady, ReaderDrains, Recv,
                    RecoverRead, RecoverFails, RecoverApply
<1> QED BY <1>3, <1>4

LEMMA CompleteInit == SInit => CompleteInv
<1> SUFFICES ASSUME SInit PROVE CompleteInv
  OBVIOUS
<1>1. run[G].output = <<>> /\ events[G] = <<>> /\ left = [g \in Gens |-> MaxChunks]
  BY OneProcess DEF SInit, Init, Fresh
<1>2. MaxChunks \in Nat /\ left[G] = MaxChunks /\ left \in [Gens -> Nat]
  BY <1>1, BoundsAssumption, OneProcess
<1>3. Len(run[G].output) = 0 /\ DOMAIN events[G] = {}
  BY <1>1
<1>4. Len(run[G].output) + left[G] <= MaxChunks
  BY <1>2, <1>3
<1> QED BY <1>2, <1>3, <1>4 DEF CompleteInv

\* Nothing is evicted: the retained output never exceeds its limit.
LEMMA CompleteStep ==
  ASSUME MaxChunks <= RetainedChunks, ServerInv, CompleteInv, [SNext]_svars
  PROVE  CompleteInv'
<1> DEFINE output == run[G].output
           n == Len(events[G])
<1>1. ServerGrows /\ Grows(G)
  BY ServerKeeps DEF ServerGrows
<1>2. /\ n \in Nat /\ DOMAIN events[G] = 1 .. n /\ run[G].next_seq = n + 1 /\ output \in Seq(Nat)
      /\ events[G] \in Seq(Event)
  BY LogLength, OneProcess DEF ServerInv, ProcInv, TypeOK
<1>3. /\ left \in [Gens -> Nat] /\ Len(output) + left[G] <= MaxChunks
      /\ \A i \in 1 .. n : events[G][i].kind = "output" => i \in Retained(G)
  BY <1>2 DEF CompleteInv, Kind
<1>4. left' \in [Gens -> Nat] /\ left'[G] <= left[G] /\ left'[G] \in Nat /\ left[G] \in Nat
  BY <1>3, ChunksLeft, OneProcess
<1>5. Len(output) \in Nat /\ MaxChunks \in Nat /\ RetainedChunks \in Nat
  BY <1>2, BoundsAssumption
<1>6. CASE run'[G].output = output
  <2>1. Len(run'[G].output) + left'[G] <= MaxChunks
    BY <1>3, <1>4, <1>5, <1>6
  <2>2. Retained(G)' = Retained(G)
    BY <1>6 DEF Retained
  <2>3. CASE events'[G] = events[G]
    BY <2>1, <2>2, <2>3, <1>2, <1>3, <1>4 DEF CompleteInv, Kind
  <2>4. CASE \E kind \in {"exited", "closed"} : Logged(G, kind)
    <3>1. PICK ev \in Event : ev.kind # "output" /\ events'[G] = Append(events[G], ev)
      BY <2>4 DEF Logged
    <3>2. DOMAIN events'[G] = 1 .. n + 1
      BY <3>1, <1>2
    <3>3. \A i \in 1 .. n + 1 : events'[G][i] = IF i = n + 1 THEN ev ELSE events[G][i]
      BY <3>1, <1>2
    <3>4. \A i \in 1 .. n + 1 : i = n + 1 \/ i \in 1 .. n
      BY <1>2
    <3>5. \A i \in DOMAIN events'[G] : events'[G][i].kind = "output" => i \in Retained(G)
      BY <3>1, <3>2, <3>3, <3>4, <1>3
    <3> QED BY <3>5, <2>1, <2>2, <1>4 DEF CompleteInv, Kind
  <2>5. CASE Logged(G, "output") /\ run'[G].output = Retain(output, run[G].next_seq)
             /\ left[G] > 0 /\ left' = [left EXCEPT ![G] = @ - 1]
    <3>1. Retain(output, n + 1) = Append(output, n + 1)
      BY <2>5, <1>3, <1>4, <1>5 DEF Retain
    <3>2. Len(Append(output, n + 1)) = Len(output) + 1
      BY <1>2
    <3> QED BY <3>1, <3>2, <2>5, <1>2, <1>5, <1>6
  <2> QED BY <2>3, <2>4, <2>5, <1>1 DEF Grows
<1>7. CASE run'[G].output # output
  <2>1. /\ Logged(G, "output") /\ run'[G].output = Retain(output, run[G].next_seq)
        /\ left[G] > 0 /\ left' = [left EXCEPT ![G] = @ - 1]
    BY <1>1, <1>7 DEF Grows
  <2>2. run'[G].output = Append(output, n + 1) /\ n + 1 \in Nat
    <3>1. Len(output) # RetainedChunks
      BY <2>1, <1>3, <1>4, <1>5
    <3> QED BY <3>1, <2>1, <1>2 DEF Retain
  <2>3. /\ Len(run'[G].output) = Len(output) + 1 /\ DOMAIN run'[G].output = 1 .. Len(output) + 1
        /\ \A i \in 1 .. Len(output) + 1 : run'[G].output[i] = IF i = Len(output) + 1 THEN n + 1 ELSE output[i]
    BY <2>2, <1>2
  <2>4. left'[G] = left[G] - 1
    BY <2>1, <1>3, OneProcess
  <2>5. Len(run'[G].output) + left'[G] <= MaxChunks
    BY <2>3, <2>4, <1>3, <1>4, <1>5
  <2>6. DOMAIN output = 1 .. Len(output) /\ \A i \in 1 .. Len(output) : i \in 1 .. Len(output) + 1 /\ i # Len(output) + 1
    BY <1>2, <1>5
  <2>7. Retained(G) \subseteq Retained(G)' /\ n + 1 \in Retained(G)'
    <3>1. Len(output) + 1 \in 1 .. Len(output) + 1
      BY <1>5
    <3> QED BY <3>1, <2>3, <2>6 DEF Retained
  <2>8. PICK ev \in Event : events'[G] = Append(events[G], ev)
    BY <2>1 DEF Logged
  <2>9. DOMAIN events'[G] = 1 .. n + 1
    BY <2>8, <1>2
  <2>10. \A i \in 1 .. n : events'[G][i] = events[G][i]
    BY <2>8, <1>2
  <2>11. \A i \in 1 .. n + 1 : i = n + 1 \/ i \in 1 .. n
    BY <1>2
  <2>12. \A i \in DOMAIN events'[G] : events'[G][i].kind = "output" => i \in Retained(G)'
    BY <2>7, <2>9, <2>10, <2>11, <1>3
  <2> QED BY <2>5, <2>12, <1>4 DEF CompleteInv, Kind
<1> QED BY <1>6, <1>7

\* What a consumer has at the end of its stream is, number by number, what the
\* process wrote.
LEMMA ClosedIsComplete ==
  ASSUME ServerInv, ~evicted => CursorInv, CompleteInv
  PROVE  ClosedMeansComplete
<1> SUFFICES ASSUME consumer.closed /\ ~consumer.failed, CursorInv
             PROVE  /\ run[G].closed
                    /\ Len(consumer.got) = Cardinality({i \in DOMAIN events[G] : events[G][i].kind = "output"})
  BY DEF ClosedMeansComplete
<1> DEFINE got == consumer.got
           T == {i \in DOMAIN events[G] : events[G][i].kind = "output"}
           S == 1 .. Len(got)
<1>1. run[G].closed /\ \A seq \in Retained(G) : seq <= consumer.last_seq
  BY DEF CursorInv
<1>2. got \in Seq(Nat) /\ Outputs(got) /\ NoGap
  BY DEF CursorInv
<1>3. Len(got) \in Nat /\ DOMAIN got = S
  BY <1>2
<1>4. got \in [S -> T]
  <2>1. \A i \in S : got[i] \in T
    BY <1>2, <1>3 DEF Outputs, Kind
  <2>2. got \in [S -> Nat]
    BY <1>2
  <2> QED BY <2>1, <2>2
<1>5. \A i, j \in S : got[i] = got[j] => i = j
  <2> SUFFICES ASSUME NEW i \in S, NEW j \in S, got[i] = got[j] PROVE i = j
    OBVIOUS
  <2>1. got[i] \in Nat /\ got[j] \in Nat /\ i \in Nat /\ j \in Nat
    BY <1>2, <1>3
  <2>2. \A k, l \in S : k < l => got[k] < got[l]
    BY <1>2, <1>3 DEF Outputs, Increasing
  <2>3. ~(i < j) /\ ~(j < i)
    <3> HIDE DEF S, got
    <3> QED BY <2>1, <2>2
  <2> QED BY <2>1, <2>3
<1>6. \A t \in T : \E i \in S : got[i] = t
  <2> SUFFICES ASSUME NEW t \in T PROVE \E i \in S : got[i] = t
    OBVIOUS
  <2>1. t \in Retained(G)
    BY DEF CompleteInv, Kind
  <2> QED BY <2>1, <1>1, <1>2, <1>3 DEF NoGap
<1> HIDE DEF T, S
<1>7. got \in Injection(S, T)
  BY <1>4, <1>5 DEF Injection, IsInjective
<1>8. got \in Surjection(S, T)
  BY <1>4, <1>6 DEF Surjection
<1>9. ExistsBijection(S, T)
  BY <1>7, <1>8 DEF ExistsBijection, Bijection
<1>10. IsFiniteSet(S) /\ Cardinality(S) = Len(got)
  BY <1>3, IntervalSize DEF S
<1>11. Cardinality(T) = Cardinality(S)
  BY <1>9, <1>10, FS_Bijection
<1> QED BY <1>1, <1>10, <1>11 DEF T

\* End of stream means end of output: a consumer told that the process closed,
\* with no failure, has every chunk the process wrote, as long as the process
\* wrote no more than the server retains (receive_message; Closed is ordered
\* last by publish_ordered_event and reported by recover_lagged_events).
THEOREM ClosedMeansCompleteAlways ==
  MaxChunks <= RetainedChunks /\ SSpec => []ClosedMeansComplete
<1>1. ASSUME MaxChunks <= RetainedChunks PROVE StreamInv /\ CompleteInv /\ [SNext]_svars => CompleteInv'
  BY <1>1, CompleteStep DEF StreamInv, ServerInv
<1>2. StreamInv /\ CompleteInv => ClosedMeansComplete
  BY ClosedIsComplete DEF StreamInv, ServerInv
<1>3. CASE MaxChunks <= RetainedChunks
  <2>1. StreamInv /\ CompleteInv /\ [SNext]_svars => CompleteInv'
    BY <1>1, <1>3
  <2> QED BY <2>1, <1>2, CompleteInit, StreamSafety, PTL DEF SSpec
<1>4. CASE ~(MaxChunks <= RetainedChunks)
  BY <1>4
<1> QED BY <1>3, <1>4
=============================================================================
