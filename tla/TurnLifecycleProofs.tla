------------------------ MODULE TurnLifecycleProofs -------------------------
(***************************************************************************)
(* Proofs about TurnLifecycle, for every number of tasks, turns, items and *)
(* interrupts.                                                             *)
(***************************************************************************)
EXTENDS TurnLifecycle, TLAPS

USE DEF Tasks, Turns, NoTask, NoTurn

(***************************************************************************)
(* Types.                                                                  *)
(***************************************************************************)

\* The variables other than `thread' keep their types.
ValuesOK ==
    /\ active \in Turns \cup {NoTurn}
    /\ turns \in [Turns -> TurnRows]
    /\ mailbox \subseteq TriggerMail \cup PlainMail
    /\ idle \subseteq Items
    /\ cancelled \subseteq Tasks
    /\ doomed \subseteq cancelled
    /\ followUps \in [Tasks -> 0..MaxFollowUps]
    /\ sent \subseteq Items /\ history \subseteq Items /\ dropped \subseteq Items
    /\ events \in [Tasks -> Seq({"started", "complete", "aborted"})]
    /\ numTasks \in 0..MaxTasks
    /\ numTurns \in 0..MaxTurns
    /\ interrupts \in 0..MaxInterrupts

\* The threads do what a spawner or a task does, with locals of their types.
ThreadsOK ==
    /\ thread \in [Threads -> Locals]
    /\ \A p \in Spawners : Pc(p) \in PcsOfSpawner
    /\ \A k \in Tasks : Pc(k) \in PcsOfTask

\* The type invariant consists of these two.
LEMMA TypeParts == TypeOK <=> ValuesOK /\ ThreadsOK
BY DEF TypeOK, ValuesOK, ThreadsOK

\* Nobody is a spawner and a task.
LEMMA ThreadSorts ==
    /\ Loop \in Threads /\ Guardian \in Threads /\ Tasks \subseteq Threads
    /\ Spawners \subseteq Threads /\ Spawners \cap Tasks = {} /\ Loop # Guardian
    /\ Loop \notin Tasks /\ Guardian \notin Tasks
    /\ MaxTasks \in Nat /\ MaxTurns \in Nat
BY SpawnersAssumption, BoundsAssumption DEF Threads, Spawners

\* A thread that goes on with locals of its type keeps the threads well typed.
LEMMA BecomeType ==
    ASSUME ThreadsOK, NEW p \in Threads, NEW local \in Locals, Become(p, local),
           p \in Spawners => local.pc \in PcsOfSpawner,
           p \in Tasks => local.pc \in PcsOfTask
    PROVE  /\ ThreadsOK' /\ thread'[p] = local
           /\ \A q \in Threads : q # p => thread'[q] = thread[q]
<1>1. /\ thread' \in [Threads -> Locals] /\ thread'[p] = local
      /\ \A q \in Threads : q # p => thread'[q] = thread[q]
  BY DEF Become, ThreadsOK
<1>2. /\ \A q \in Spawners : thread'[q].pc \in PcsOfSpawner
      /\ \A k \in Tasks : thread'[k].pc \in PcsOfTask
  BY <1>1, ThreadSorts DEF ThreadsOK, Pc
<1> QED BY <1>1, <1>2 DEF ThreadsOK, Pc

\* A thread that only moves on.
LEMMA GoToType ==
    ASSUME ThreadsOK, NEW p \in Threads, NEW pc, GoTo(p, pc),
           p \in Spawners => pc \in PcsOfSpawner,
           p \in Tasks => pc \in PcsOfTask
    PROVE  /\ ThreadsOK' /\ thread'[p] = [thread[p] EXCEPT !.pc = pc]
           /\ \A q \in Threads : q # p => thread'[q] = thread[q]
<1> DEFINE local == [thread[p] EXCEPT !.pc = pc]
<1>1. thread[p] \in Locals /\ pc \in PcsOfSpawner \cup PcsOfTask
  BY DEF ThreadsOK, Threads
<1>2. local \in Locals /\ local.pc = pc
  BY <1>1 DEF Locals
<1>3. Become(p, local)
  BY DEF GoTo
<1> HIDE DEF local
<1>4. /\ ThreadsOK' /\ thread'[p] = local
      /\ \A q \in Threads : q # p => thread'[q] = thread[q]
  BY <1>2, <1>3, BecomeType
<1> QED BY <1>4 DEF local

\* What a thread at rest, or an ended task, holds.
LEMMA RestType ==
    /\ Rest \in Locals /\ Rest.pc = "idle" /\ Rest.new = NoTask /\ Rest.turn = NoTurn
    /\ Rest.victims = {} /\ Rest.victim = NoTask /\ Rest.own = {} /\ Rest.items = {}
    /\ \A p \in Threads : /\ Returned(p) \in Locals /\ Returned(p).new = NoTask
                          /\ Returned(p).turn = NoTurn /\ Returned(p).victims = {}
                          /\ Returned(p).victim = NoTask /\ Returned(p).own = {}
                          /\ Returned(p).items = {}
                          /\ p \in Spawners => Returned(p).pc = "idle"
                          /\ p \in Tasks => Returned(p).pc = "done"
<1>1. Rest \in Locals
  BY DEF Rest, Locals, PcsOfSpawner
<1>2. [Rest EXCEPT !.pc = "done"] \in Locals
  BY DEF Rest, Locals, PcsOfTask
<1> QED BY <1>1, <1>2, ThreadSorts DEF Rest, Returned

\* Entering a turn keeps the turn counter in range.
LEMMA EnterTurnType ==
    ASSUME ValuesOK, EnterTurn
    PROVE  /\ TurnHere \in Turns /\ active' = TurnHere /\ numTurns' \in 0..MaxTurns
           /\ numTurns <= numTurns' /\ (active = NoTurn => TurnHere = numTurns')
           /\ (active = NoTurn => TurnHere = numTurns + 1)
           /\ (active # NoTurn => TurnHere = active /\ numTurns' = numTurns)
BY ThreadSorts DEF EnterTurn, TurnHere, ValuesOK

\* The session starts well typed.
LEMMA InitType == Init => TypeOK
<1> SUFFICES ASSUME Init PROVE TypeOK
  OBVIOUS
<1>1. FreshTurn \in TurnRows
  BY DEF FreshTurn, TurnRows, Phases
<1>2. ValuesOK
  BY <1>1, BoundsAssumption DEF Init, ValuesOK
<1>3. ThreadsOK
  BY RestType, ThreadSorts DEF Init, ThreadsOK, Pc, PcsOfSpawner, PcsOfTask
<1> QED BY <1>2, <1>3, TypeParts

\* Input goes into a turn object, out of it, or its tasks change.
LEMMA TurnRowType ==
    ASSUME ValuesOK, NEW t \in Turns
    PROVE  /\ \A more \in SUBSET Items : PushInput(t, more) \in [Turns -> TurnRows]
           /\ [turns EXCEPT ![t].input = {}] \in [Turns -> TurnRows]
           /\ \A some \in SUBSET Tasks : [turns EXCEPT ![t].tasks = some] \in [Turns -> TurnRows]
           /\ \A phase \in Phases : [turns EXCEPT ![t].phase = phase] \in [Turns -> TurnRows]
           /\ turns[t].input \subseteq Items /\ turns[t].tasks \subseteq Tasks
BY DEF ValuesOK, TurnRows, PushInput

\* And nothing else of the turn objects.
LEMMA TurnRowTasks ==
    ASSUME ValuesOK, NEW t \in Turns
    PROVE  \A u \in Turns :
             /\ \A more \in SUBSET Items : PushInput(t, more)[u].tasks = turns[u].tasks
             /\ [turns EXCEPT ![t].input = {}][u].tasks = turns[u].tasks
             /\ \A phase \in Phases : [turns EXCEPT ![t].phase = phase][u].tasks = turns[u].tasks
             /\ \A some \in SUBSET Tasks :
                  [turns EXCEPT ![t].tasks = some][u].tasks = IF u = t THEN some ELSE turns[u].tasks
BY DEF ValuesOK, TurnRows, PushInput

\* Input that goes into a turn object leaves its tasks alone.
LEMMA PushType ==
    ASSUME ValuesOK, NEW t \in Turns, NEW more \in SUBSET Items
    PROVE  /\ PushInput(t, more) \in [Turns -> TurnRows]
           /\ \A u \in Turns : PushInput(t, more)[u].tasks = turns[u].tasks
BY TurnRowType, TurnRowTasks, ZenonT(60)

\* The tasks of a turn object change, and those of no other.
LEMMA TasksType ==
    ASSUME ValuesOK, NEW t \in Turns, NEW some \in SUBSET Tasks,
           turns' = [turns EXCEPT ![t].tasks = some]
    PROVE  \A u \in Turns : turns'[u].tasks = IF u = t THEN some ELSE turns[u].tasks
BY TurnRowTasks

\* Only a turn that is there has tasks or input.
LEMMA ActiveType ==
    ASSUME ValuesOK
    PROVE  /\ ActiveTasks \subseteq Tasks /\ ActiveInput \subseteq Items
           /\ ActiveTasks # {} => active \in Turns
           /\ active # NoTurn => /\ active \in Turns /\ ActiveTasks = turns[active].tasks
                                 /\ ActiveInput = turns[active].input
BY TurnRowType DEF ActiveTasks, ActiveInput, ValuesOK

\* A steered turn.
LEMMA SteerType ==
    ASSUME ValuesOK, CanSteer, NEW i \in Items, SteerIn(i)
    PROVE  /\ turns' \in [Turns -> TurnRows]
           /\ \A t \in Turns : turns'[t].tasks = turns[t].tasks
BY ActiveType, ZenonT(60) DEF ValuesOK, TurnRows, SteerIn, CanSteer, Phases

\* What comes from outside is typed.
LEMMA InputValues ==
    ASSUME TypeOK, Input
    PROVE  ValuesOK'
<1>0. ValuesOK /\ ThreadsOK
  BY TypeParts
<1>1. ASSUME NEW i \in Items, Steer(i) \/ UserInputSteered(i) PROVE ValuesOK'
  <2>1. turns' \in [Turns -> TurnRows]
    BY <1>0, <1>1, SteerType DEF Steer, UserInputSteered
  <2> QED BY <1>0, <1>1, <2>1 DEF Steer, UserInputSteered, Submit, ValuesOK
<1>2. ASSUME NEW i \in Items, UserInputSpawns(i) PROVE ValuesOK'
  BY <1>0, <1>2, ThreadSorts DEF UserInputSpawns, Submit, ValuesOK
<1>3. ASSUME NEW i \in TriggerMail \cup PlainMail, Mail(i) PROVE ValuesOK'
  BY <1>0, <1>3 DEF Mail, Submit, ValuesOK, Items
<1>4. ASSUME NEW i \in Items, Approve(i) \/ Inject(i) PROVE ValuesOK'
  <2>1. turns' \in [Turns -> TurnRows]
    <3>1. {i} \in SUBSET Items
      OBVIOUS
    <3>2. turns' = turns \/ (active # NoTurn /\ turns' = PushInput(active, {i}))
      BY <1>4 DEF Approve, Inject
    <3>3. active # NoTurn => active \in Turns
      BY <1>0 DEF ValuesOK
    <3>4. turns \in [Turns -> TurnRows]
      BY <1>0 DEF ValuesOK
    <3> QED BY <1>0, <3>1, <3>2, <3>3, <3>4, PushType
  <2> QED BY <1>0, <1>4, <2>1 DEF Approve, Inject, Submit, ValuesOK
<1>5. CASE Interrupt
  BY <1>0, <1>5, BoundsAssumption DEF Interrupt, ValuesOK
<1>6. ASSUME NEW k \in Tasks, AbortTurnIfActive(k) PROVE ValuesOK'
  <2>1. turns' \in [Turns -> TurnRows] /\ active' = NoTurn
    BY <1>0, <1>6, TurnRowType, ActiveType DEF AbortTurnIfActive, TakeTurn, ValuesOK
  <2> QED BY <1>0, <1>6, <2>1, BoundsAssumption, SMTT(40) DEF AbortTurnIfActive, ValuesOK
<1> QED BY <1>1, <1>2, <1>3, <1>4, <1>5, <1>6 DEF Input, Items, Fresh

\* What is in a thread's hands is typed.
LEMMA LocalType ==
    ASSUME ThreadsOK, NEW p \in Threads
    PROVE  /\ thread[p] \in Locals
           /\ thread[p].own \subseteq Items /\ thread[p].items \subseteq Items
           /\ thread[p].new \in Tasks \cup {NoTask} /\ thread[p].turn \in Turns \cup {NoTurn}
           /\ thread[p].victims \subseteq Tasks /\ thread[p].victim \in Tasks \cup {NoTask}
BY DEF ThreadsOK, Locals

\* Starting a task keeps the types.
LEMMA StartValues ==
    ASSUME TypeOK, NewTasksAreUnborn, NEW p \in Threads, StartStep(p)
    PROVE  ValuesOK'
<1>0. ValuesOK /\ ThreadsOK
  BY TypeParts
<1>1. CASE CheckPendingWork(p)
  BY <1>0, <1>1 DEF CheckPendingWork, ValuesOK
<1>2. CASE ReserveTurn(p)
  <2>1. active # NoTurn \/ EnterTurn
    BY <1>2 DEF ReserveTurn
  <2>2. /\ active' \in Turns \cup {NoTurn} /\ numTurns' \in 0..MaxTurns
        /\ numTasks' \in 0..MaxTasks
    BY <1>0, <1>2, <2>1, EnterTurnType, ThreadSorts DEF ReserveTurn, ValuesOK
  <2> QED BY <1>0, <1>2, <2>2 DEF ReserveTurn, ValuesOK
<1>3. CASE TakeQueuedItems(p)
  BY <1>0, <1>3 DEF TakeQueuedItems, ValuesOK
<1>4. CASE GatherPending(p)
  <2>1. turns' \in [Turns -> TurnRows]
    BY <1>0, <1>4, TurnRowType, ActiveType DEF GatherPending, TakePendingInput, ValuesOK
  <2> QED BY <1>0, <1>4, <2>1 DEF GatherPending, TakePendingInput, ValuesOK
<1>5. CASE GatherMail(p)
  BY <1>0, <1>5 DEF GatherMail, DrainMailbox, ValuesOK
<1>6. CASE AttachInput(p)
  <2>1. turns' \in [Turns -> TurnRows]
    BY <1>0, <1>6, TurnRowType, EnterTurnType, LocalType DEF AttachInput
  <2>2. active' \in Turns \cup {NoTurn} /\ numTurns' \in 0..MaxTurns
    BY <1>0, <1>6, EnterTurnType DEF AttachInput
  <2> QED BY <1>0, <1>6, <2>1, <2>2 DEF AttachInput, ValuesOK
<1>7. CASE LaunchTask(p)
  <2>1. thread[p].new \in Tasks /\ EnterTurn
    BY <1>0, <1>7, LocalType DEF LaunchTask, NewTasksAreUnborn, Starting, Pc
  <2>2. turns' \in [Turns -> TurnRows]
    <3>1. TurnHere \in Turns
      BY <1>0, <2>1, EnterTurnType
    <3>2. turns[TurnHere].tasks \cup {thread[p].new} \in SUBSET Tasks
      BY <1>0, <2>1, <3>1, TurnRowType
    <3>3. turns' = [turns EXCEPT ![TurnHere].tasks = turns[TurnHere].tasks \cup {thread[p].new}]
      BY <1>0, <1>7, <3>1 DEF LaunchTask, ValuesOK
    <3> QED BY <1>0, <3>1, <3>2, <3>3, TurnRowType
  <2>3. active' \in Turns \cup {NoTurn} /\ numTurns' \in 0..MaxTurns
    BY <1>0, <2>1, EnterTurnType
  <2> QED BY <1>0, <1>7, <2>2, <2>3 DEF LaunchTask, ValuesOK
<1> QED BY <1>1, <1>2, <1>3, <1>4, <1>5, <1>6, <1>7 DEF StartStep

\* Aborting keeps the types.
LEMMA AbortValues ==
    ASSUME TypeOK, VictimsAreHeld, NEW p \in Spawners,
           \/ p = Loop /\ (QueueForNextTurn \/ AbortAllTasks)
           \/ \E k \in Tasks : CancelVictim(p, k)
           \/ KillVictim(p)
           \/ ClearPending(p)
    PROVE  ValuesOK'
<1>0. ValuesOK /\ ThreadsOK /\ p \in Threads /\ Loop \in Threads
  BY TypeParts, ThreadSorts
<1>1. CASE QueueForNextTurn
  BY <1>0, <1>1, LocalType DEF QueueForNextTurn, ValuesOK
<1>2. CASE AbortAllTasks
  <2>1. turns' \in [Turns -> TurnRows] /\ active' = NoTurn
    BY <1>0, <1>2, TurnRowType, ActiveType DEF AbortAllTasks, TakeTurn, ValuesOK
  <2> QED BY <1>0, <1>2, <2>1 DEF AbortAllTasks, ValuesOK
<1>3. ASSUME NEW k \in Tasks, CancelVictim(p, k) PROVE ValuesOK'
  BY <1>0, <1>3 DEF CancelVictim, ValuesOK
<1>4. CASE KillVictim(p)
  <2>1. thread[p].victim \in cancelled /\ thread[p].victim \in Tasks
    BY <1>0, <1>4, LocalType DEF KillVictim, VictimsAreHeld, ValuesOK, Pc
  <2>2. events' \in [Tasks -> Seq({"started", "complete", "aborted"})]
    BY <1>0, <1>4, <2>1 DEF KillVictim, Emit, ValuesOK
  <2> QED BY <1>0, <1>4, <2>1, <2>2 DEF KillVictim, ValuesOK
<1>5. CASE ClearPending(p)
  <2>1. thread[p].turn \in Turns
    BY <1>0, <1>5, LocalType DEF ClearPending, VictimsAreHeld, Aborting, Pc
  <2>2. turns' \in [Turns -> TurnRows] /\ dropped' \subseteq Items
    BY <1>0, <1>5, <2>1, TurnRowType DEF ClearPending, ValuesOK
  <2> QED BY <1>0, <1>5, <2>2 DEF ClearPending, ValuesOK
<1> QED BY <1>1, <1>2, <1>3, <1>4, <1>5

\* So does a task.
LEMMA TaskValues ==
    ASSUME TypeOK, VictimsAreHeld, NewTasksAreUnborn, NEW k \in Tasks,
           TaskStep(k) \/ ModelStep(k)
    PROVE  ValuesOK'
<1>0. ValuesOK /\ ThreadsOK /\ k \in Threads
  BY TypeParts, ThreadSorts
<1>1. CASE StartTurn(k) \/ CompleteTurn(k)
  <2>1. events' \in [Tasks -> Seq({"started", "complete", "aborted"})]
    <3>1. events \in [Tasks -> Seq({"started", "complete", "aborted"})]
      BY <1>0 DEF ValuesOK
    <3>2. Emit(k, "started") \/ Emit(k, "complete")
      BY <1>1 DEF StartTurn, CompleteTurn
    <3> QED BY <3>1, <3>2 DEF Emit
  <2> QED BY <1>0, <1>1, <2>1 DEF StartTurn, CompleteTurn, ValuesOK
<1>2. CASE Prewarm(k) \/ SampleEnds(k) \/ SampleFails(k) \/ RunAgain(k) \/ CheckCancelled(k)
  BY <1>0, <1>2 DEF Prewarm, SampleEnds, SampleFails, RunAgain, CheckCancelled, ValuesOK
<1>3. CASE \/ PrewarmCancelled(k) \/ RunTurn(k) \/ RunTurnFails(k) \/ RecordPendingInput(k)
           \/ Die(k)
  <2>1. history' \subseteq Items /\ dropped' \subseteq Items
    BY <1>0, <1>3, LocalType DEF PrewarmCancelled, RunTurn, RunTurnFails, RecordPendingInput,
       Die, ValuesOK
  <2>2. CASE RunTurnFails(k)
    <3>1. followUps' \in [Tasks -> 0..MaxFollowUps]
      BY <1>0, <2>2, BoundsAssumption DEF RunTurnFails, ValuesOK
    <3> QED BY <1>0, <2>1, <2>2, <3>1 DEF RunTurnFails, ValuesOK
  <2> QED BY <1>0, <1>3, <2>1, <2>2 DEF PrewarmCancelled, RunTurn, RecordPendingInput, Die,
          ValuesOK
<1>4. CASE DrainPendingInput(k)
  <2>1. turns' \in [Turns -> TurnRows]
    BY <1>0, <1>4, TurnRowType, ActiveType DEF DrainPendingInput, TakePendingInput, ValuesOK
  <2> QED BY <1>0, <1>4, <2>1 DEF DrainPendingInput, TakePendingInput, ValuesOK
<1>5. CASE DrainMail(k)
  BY <1>0, <1>5 DEF DrainMail, DrainMailbox, ValuesOK
<1>6. CASE RemoveTask(k)
  <2>1. CASE k \in ActiveTasks
    <3>1. active \in Turns /\ turns[active].tasks \ {k} \in SUBSET Tasks
      BY <1>0, <2>1, ActiveType, TurnRowType
    <3>2. turns' = [turns EXCEPT ![active].tasks = turns[active].tasks \ {k}]
      BY <1>0, <1>6, <2>1, <3>1 DEF RemoveTask, ValuesOK
    <3>3. turns' \in [Turns -> TurnRows]
      BY <1>0, <3>1, <3>2, TurnRowType
    <3> QED BY <1>0, <1>6, <3>3 DEF RemoveTask, ValuesOK
  <2>2. CASE k \notin ActiveTasks
    BY <1>0, <1>6, <2>2 DEF RemoveTask, ValuesOK
  <2> QED BY <2>1, <2>2
<1>7. CASE RecordLeftovers(k)
  <2>1. thread[k].turn \in Turns
    BY <1>0, <1>7, LocalType DEF RecordLeftovers, VictimsAreHeld, Pc
  <2>2. /\ turns' \in [Turns -> TurnRows]
        /\ history' \subseteq Items /\ dropped' \subseteq Items
    BY <1>0, <1>7, <2>1, TurnRowType DEF RecordLeftovers, ValuesOK
  <2> QED BY <1>0, <1>7, <2>2 DEF RecordLeftovers, ValuesOK
<1>8. CASE ClearTurn(k)
  BY <1>0, <1>8 DEF ClearTurn, ValuesOK
<1>9. CASE StartStep(k)
  BY <1>0, <1>9, StartValues
<1>10. CASE BlockPendingInput(k)
  <2> PICK i \in thread[k].items \cap UserMessages :
           \E accepted \in SUBSET (thread[k].items \ {i}) :
             LET rest == thread[k].items \ (accepted \cup {i})
             IN  /\ history' = history \cup accepted
                 /\ IF active = NoTurn
                    THEN dropped' = dropped \cup {i} \cup rest /\ UNCHANGED turns
                    ELSE dropped' = dropped \cup {i} /\ turns' = PushInput(active, rest)
    BY <1>10 DEF BlockPendingInput
  <2> PICK accepted \in SUBSET (thread[k].items \ {i}) :
             LET rest == thread[k].items \ (accepted \cup {i})
             IN  /\ history' = history \cup accepted
                 /\ IF active = NoTurn
                    THEN dropped' = dropped \cup {i} \cup rest /\ UNCHANGED turns
                    ELSE dropped' = dropped \cup {i} /\ turns' = PushInput(active, rest)
    OBVIOUS
  <2>1. thread[k].items \subseteq Items
    BY <1>0, LocalType
  <2>2. history' \subseteq Items /\ dropped' \subseteq Items
    BY <1>0, <2>1 DEF ValuesOK
  <2>3. turns' \in [Turns -> TurnRows]
    <3> DEFINE rest == thread[k].items \ (accepted \cup {i})
    <3>1. rest \in SUBSET Items /\ turns \in [Turns -> TurnRows]
      BY <1>0, <2>1 DEF ValuesOK
    <3>2. turns' = turns \/ (active # NoTurn /\ turns' = PushInput(active, rest))
      OBVIOUS
    <3> QED BY <1>0, <3>1, <3>2, ActiveType, PushType
  <2> QED BY <1>0, <1>10, <2>2, <2>3 DEF BlockPendingInput, ValuesOK
<1>11. CASE DeferMailbox(k) \/ ReopenMailbox(k)
  <2>1. turns' \in [Turns -> TurnRows]
    BY <1>0, <1>11, ActiveType, TurnRowType DEF DeferMailbox, ReopenMailbox, Phases
  <2> QED BY <1>0, <1>11, <2>1 DEF DeferMailbox, ReopenMailbox, ValuesOK
<1>12. CASE FollowUp(k)
  BY <1>0, <1>12, BoundsAssumption DEF FollowUp, ValuesOK
<1> QED BY <1>1, <1>2, <1>3, <1>4, <1>5, <1>6, <1>7, <1>8, <1>9, <1>10, <1>11, <1>12
        DEF TaskStep, ModelStep

(***************************************************************************)
(* Steps that change nothing about who runs, aborts and owns what.         *)
(***************************************************************************)

\* The tasks, the turns and what is aborted stay as they are.
Quiet ==
    /\ active' = active /\ cancelled' = cancelled /\ doomed' = doomed
    /\ numTasks' = numTasks /\ numTurns' = numTurns
    /\ \A t \in Turns : turns'[t].tasks = turns[t].tasks

\* What a thread may do next in a quiet step: it aborts nobody, it starts no
\* work that was not under way, and it does not let go of a turn it owes something.
Harmless(p, local) ==
    /\ local \in Locals
    /\ p \in Spawners => local.pc \in PcsOfSpawner
    /\ p \in Tasks => local.pc \in PcsOfTask \ {"idle"} /\ Pc(p) # "idle"
    /\ Pc(p) \notin {"cancel", "grace"}
    /\ local.pc \notin Aborting \cup {"flush input"}
    /\ local.pc = "clear" => local.turn # NoTurn
    /\ local.victims = {} /\ local.victim = NoTask
    /\ local.new \in {NoTask, thread[p].new}
    /\ local.pc \in Starting => local.new # NoTask
    /\ local.pc = "abort" => local.reason = "Interrupted"
    /\ p \in Tasks => (Free(local) => Free(thread[p]))
    /\ local.pc \in WorkingPcs => Pc(p) \in WorkingPcs
    /\ p \in Tasks /\ local.pc \in WorkingPcs \cup {"flushed", "remove"} => local.turn = NoTurn
    /\ Pc(p) \in Starting => local.pc \in Starting
    /\ Pc(p) \in Finishing /\ thread[p].turn = active /\ active # NoTurn /\ ActiveTasks = {}
         => local.pc \in Finishing /\ local.turn = thread[p].turn

\* The active turn has the same tasks after a quiet step.
LEMMA QuietTasks ==
    ASSUME ValuesOK, Quiet
    PROVE  ActiveTasks' = ActiveTasks
BY ActiveType DEF Quiet, ActiveTasks, ValuesOK

\* The invariant survives a quiet step in which a thread goes on harmlessly.
LEMMA QuietStep ==
    ASSUME TurnsInv, ValuesOK', Quiet, NEW p \in Threads, NEW local,
           Become(p, local), Harmless(p, local)
    PROVE  TurnsInv'
<1>0. ValuesOK /\ ThreadsOK
  BY TypeParts DEF TurnsInv
<1>1. /\ ThreadsOK' /\ thread'[p] = local
      /\ \A q \in Threads : q # p => thread'[q] = thread[q]
  BY <1>0, BecomeType DEF Harmless
<1>2. ActiveTasks' = ActiveTasks
  BY <1>0, QuietTasks
<1>3. thread[p].victims = {} /\ thread[p].victim = NoTask
  BY DEF TurnsInv, VictimsAreHeld, Harmless, Pc
<1>4. /\ \A q \in Threads : thread'[q].victims = thread[q].victims
      /\ \A q \in Threads : thread'[q].victim = thread[q].victim
  BY <1>1, <1>3 DEF Harmless
<1>5. TypeOK'
  BY <1>1 DEF TypeOK, ValuesOK, ThreadsOK
<1>6. TasksAreInActiveTurn'
  BY DEF TurnsInv, TasksAreInActiveTurn, Quiet
<1>7. NewTasksAreUnborn'
  <2>1. \A q \in Threads : thread'[q].new \in {NoTask, thread[q].new}
    BY <1>1 DEF Harmless
  <2>2. \A k \in Tasks : Pc(k) = "idle" => thread'[k].pc = "idle"
    BY <1>1, ThreadSorts DEF Harmless, Pc
  <2>3. \A q \in Threads : thread[q].new \in Tasks \cup {NoTask}
    BY <1>0, LocalType
  <2>4. \A q \in Threads : thread'[q].new # NoTask =>
          thread'[q].new <= numTasks' /\ thread'[thread'[q].new].pc = "idle"
    BY <2>1, <2>2, <2>3 DEF TurnsInv, NewTasksAreUnborn, Quiet, Pc
  <2>5. \A q, r \in Threads : q # r /\ thread'[q].new = thread'[r].new
                                => thread'[q].new = NoTask
    BY <2>1 DEF TurnsInv, NewTasksAreUnborn
  <2>6. \A k \in Tasks : k > numTasks' => thread'[k].pc = "idle"
    BY <2>2 DEF TurnsInv, NewTasksAreUnborn, Quiet
  <2>7. \A q \in Threads : thread'[q].pc \in Starting => thread'[q].new # NoTask
    BY <1>1 DEF TurnsInv, NewTasksAreUnborn, Harmless, Pc
  <2>8. \A q \in Spawners :
          thread'[q].pc \in {"abort"} \cup Aborting /\ thread'[q].reason = "Replaced"
            => thread'[q].new # NoTask
    BY <1>1, ThreadSorts, ZenonT(60) DEF TurnsInv, NewTasksAreUnborn, Harmless, Pc
  <2> QED BY <2>4, <2>5, <2>6, <2>7, <2>8 DEF NewTasksAreUnborn, Pc
<1>8. UnbornAreUntouched'
  <2>1. \A k \in Tasks : thread'[k].pc = "idle" => thread'[k] = thread[k]
    BY <1>1, ThreadSorts DEF Harmless
  <2> QED BY <1>2, <1>4, <2>1, ThreadSorts DEF TurnsInv, UnbornAreUntouched, Quiet, Pc
<1>9. VictimsAreHeld'
  BY <1>1, <1>3, <1>4, ZenonT(60) DEF TurnsInv, VictimsAreHeld, Harmless, Aborting, Pc, Quiet
<1>10. FinishersAreFree'
  <2>1. \A k \in Tasks : Free(thread'[k]) => Free(thread[k])
    BY <1>1, ThreadSorts DEF Harmless
  <2>2. \A k \in Tasks : Free(thread'[k]) =>
          /\ k \notin cancelled' \cup ActiveTasks'
          /\ \A q \in Spawners : k \notin thread'[q].victims
    BY <1>2, <1>4, <2>1, ThreadSorts DEF TurnsInv, FinishersAreFree, Quiet
  <2>3. \A k \in Tasks : thread'[k].pc \in WorkingPcs \cup {"flushed", "remove"}
                           => thread'[k].turn = NoTurn
    BY <1>1, ThreadSorts DEF TurnsInv, FinishersAreFree, Working, Harmless, Pc
  <2> QED BY <2>2, <2>3 DEF FinishersAreFree, Free, Working, Pc
<1>11. TokensFireOnce'
  BY <1>2, <1>4, ThreadSorts DEF TurnsInv, TokensFireOnce, Quiet
<1>12. WorkingTasksAreReachable'
  <2>1. \A k \in Tasks : Working(k)' => Working(k)
    BY <1>1, ThreadSorts DEF Harmless, Working, WorkingPcs, Pc
  <2> QED BY <1>2, <1>4, <2>1, ThreadSorts DEF TurnsInv, WorkingTasksAreReachable, Quiet
<1>13. EmptyTurnHasAnOwner'
  <2> SUFFICES ASSUME active # NoTurn, ActiveTasks = {}
               PROVE  \E q \in Threads :
                        \/ thread'[q].pc \in Starting
                        \/ thread'[q].pc \in Finishing /\ thread'[q].turn = active
    BY <1>2 DEF EmptyTurnHasAnOwner, Quiet, Pc
  <2>1. PICK q \in Threads : \/ Pc(q) \in Starting
                             \/ Pc(q) \in Finishing /\ thread[q].turn = active
    BY DEF TurnsInv, EmptyTurnHasAnOwner
  <2> QED BY <1>1, <2>1 DEF Harmless, Pc
<1> QED BY <1>5, <1>6, <1>7, <1>8, <1>9, <1>10, <1>11, <1>12, <1>13 DEF TurnsInv

\* The same when the threads stay where they are.
LEMMA StillStep ==
    ASSUME TurnsInv, ValuesOK', Quiet, thread' = thread
    PROVE  TurnsInv'
<1>0. ValuesOK /\ ThreadsOK
  BY TypeParts DEF TurnsInv
<1>1. ActiveTasks' = ActiveTasks
  BY <1>0, QuietTasks
<1>2. TypeOK'
  BY <1>0 DEF TypeOK, ValuesOK, ThreadsOK, Pc
<1>3. TasksAreInActiveTurn' /\ NewTasksAreUnborn'
  BY DEF TurnsInv, TasksAreInActiveTurn, NewTasksAreUnborn, Quiet, Pc
<1>4. UnbornAreUntouched' /\ VictimsAreHeld' /\ FinishersAreFree'
  BY <1>1 DEF TurnsInv, UnbornAreUntouched, VictimsAreHeld, FinishersAreFree, Free, Working,
     Quiet, Pc
<1>5. TokensFireOnce' /\ WorkingTasksAreReachable' /\ EmptyTurnHasAnOwner'
  BY <1>1 DEF TurnsInv, TokensFireOnce, WorkingTasksAreReachable, EmptyTurnHasAnOwner,
     Working, Quiet, Pc
<1> QED BY <1>2, <1>3, <1>4, <1>5 DEF TurnsInv

\* A task that works on its turn, or ends its work, is harmless.
LEMMA TaskGoes ==
    ASSUME TurnsInv, ValuesOK', Quiet, NEW k \in Tasks, NEW local \in Locals, Become(k, local),
           Pc(k) \in WorkingPcs \cup {"flushed"},
           local.pc \in WorkingPcs \cup {"flushed", "remove", "done"},
           local.pc \in WorkingPcs => Pc(k) \in WorkingPcs,
           local.new = thread[k].new, local.victims = thread[k].victims,
           local.victim = thread[k].victim, local.turn = thread[k].turn
    PROVE  TurnsInv'
<1>1. k \in Threads /\ k \notin Spawners
  BY ThreadSorts
<1>2. thread[k].victims = {} /\ thread[k].victim = NoTask /\ thread[k].turn = NoTurn
  BY <1>1 DEF TurnsInv, VictimsAreHeld, FinishersAreFree, Working, WorkingPcs, Pc
<1>3. Harmless(k, local)
  BY <1>1, <1>2 DEF Harmless, WorkingPcs, Starting, Aborting, Finishing, Free, PcsOfTask, Pc
<1> QED BY <1>1, <1>3, QuietStep

\* The steps of a task in its turn.
TurnStep(k) ==
    \/ StartTurn(k) \/ Prewarm(k) \/ PrewarmCancelled(k) \/ RunTurn(k)
    \/ DrainPendingInput(k) \/ DrainMail(k) \/ RecordPendingInput(k) \/ SampleEnds(k)
    \/ SampleFails(k) \/ RunAgain(k) \/ CheckCancelled(k)
    \/ RunTurnFails(k) \/ BlockPendingInput(k) \/ FollowUp(k)

\* They keep the invariant.
LEMMA TurnSteps ==
    ASSUME TurnsInv, ValuesOK', NEW k \in Tasks, TurnStep(k)
    PROVE  TurnsInv'
<1>0. /\ ValuesOK /\ ThreadsOK /\ k \in Threads /\ thread[k] \in Locals
      /\ thread[k].own \subseteq Items /\ thread[k].items \subseteq Items
  BY TypeParts, ThreadSorts, LocalType DEF TurnsInv
<1>1. CASE \/ StartTurn(k) \/ Prewarm(k) \/ SampleEnds(k) \/ SampleFails(k) \/ RunAgain(k)
           \/ CheckCancelled(k) \/ FollowUp(k)
  <2>1. Quiet
    BY <1>1 DEF StartTurn, Prewarm, SampleEnds, SampleFails, RunAgain, CheckCancelled,
       FollowUp, Quiet
  <2>2. Pc(k) \in WorkingPcs \cup {"flushed"}
    BY <1>1 DEF StartTurn, Prewarm, SampleEnds, SampleFails, RunAgain, CheckCancelled,
       FollowUp, WorkingPcs
  <2>3. PICK pc \in WorkingPcs \cup {"flushed", "remove", "done"} :
          GoTo(k, pc) /\ (pc \in WorkingPcs => Pc(k) \in WorkingPcs)
    <3>1. CASE StartTurn(k)
      BY <3>1 DEF StartTurn, WorkingPcs
    <3>2. CASE Prewarm(k)
      BY <3>2 DEF Prewarm, WorkingPcs
    <3>3. CASE SampleEnds(k)
      BY <3>3 DEF SampleEnds, WorkingPcs
    <3>4. CASE SampleFails(k)
      BY <3>4 DEF SampleFails, WorkingPcs
    <3>5. CASE RunAgain(k)
      BY <3>5 DEF RunAgain, WorkingPcs
    <3>6. CASE CheckCancelled(k)
      BY <3>6 DEF CheckCancelled, WorkingPcs
    <3>7. CASE FollowUp(k)
      BY <3>7 DEF FollowUp, WorkingPcs
    <3> QED BY <1>1, <3>1, <3>2, <3>3, <3>4, <3>5, <3>6, <3>7
  <2> DEFINE local == [thread[k] EXCEPT !.pc = pc]
  <2>4. /\ local \in Locals /\ local.pc = pc /\ local.new = thread[k].new
        /\ local.victims = thread[k].victims /\ local.victim = thread[k].victim
        /\ local.turn = thread[k].turn
    BY <1>0, <2>3, ZenonT(60) DEF Locals, PcsOfTask, WorkingPcs
  <2>5. Become(k, local)
    BY <2>3 DEF GoTo
  <2> HIDE DEF local
  <2> QED BY <2>1, <2>2, <2>3, <2>4, <2>5, TaskGoes
<1>2. CASE PrewarmCancelled(k) \/ RunTurn(k) \/ RunTurnFails(k)
  <2>1. Quiet
    BY <1>2 DEF PrewarmCancelled, RunTurn, RunTurnFails, Quiet
  <2>2. PICK pc \in WorkingPcs \cup {"flushed"} :
          Become(k, [thread[k] EXCEPT !.own = {}, !.pc = pc]) /\ Pc(k) \in WorkingPcs
    BY <1>2 DEF PrewarmCancelled, RunTurn, RunTurnFails, WorkingPcs
  <2> DEFINE local == [thread[k] EXCEPT !.own = {}, !.pc = pc]
  <2>3. /\ local \in Locals /\ local.pc = pc /\ local.new = thread[k].new
        /\ local.victims = thread[k].victims /\ local.victim = thread[k].victim
        /\ local.turn = thread[k].turn
    BY <1>0, <2>2, ZenonT(60) DEF Locals, PcsOfTask, WorkingPcs
  <2> HIDE DEF local
  <2> QED BY <2>1, <2>2, <2>3, TaskGoes DEF local
<1>3. CASE \/ DrainPendingInput(k) \/ DrainMail(k) \/ RecordPendingInput(k)
           \/ BlockPendingInput(k)
  <2>1. Quiet
    <3>1. CASE DrainPendingInput(k)
      BY <1>0, <3>1, ActiveType, TurnRowTasks DEF DrainPendingInput, TakePendingInput, Quiet
    <3>2. CASE DrainMail(k) \/ RecordPendingInput(k)
      BY <3>2 DEF DrainMail, DrainMailbox, RecordPendingInput, Quiet
    <3>3. CASE BlockPendingInput(k)
      <4>1. PICK rest \in SUBSET Items :
              turns' = turns \/ (active # NoTurn /\ turns' = PushInput(active, rest))
        BY <1>0, <3>3 DEF BlockPendingInput
      <4>2. \A t \in Turns : turns'[t].tasks = turns[t].tasks
        BY <1>0, <4>1, ActiveType, PushType
      <4> QED BY <3>3, <4>2 DEF BlockPendingInput, Quiet
    <3> QED BY <1>3, <3>1, <3>2, <3>3
  <2>2. PICK pc \in WorkingPcs, items \in SUBSET Items :
          Become(k, [thread[k] EXCEPT !.items = items, !.pc = pc]) /\ Pc(k) \in WorkingPcs
    <3>1. CASE DrainPendingInput(k)
      <4>1. thread[k].items \cup ActiveInput \in SUBSET Items
        BY <1>0, ActiveType
      <4>2. Become(k, [thread[k] EXCEPT !.items = thread[k].items \cup ActiveInput,
                         !.pc = IF AcceptsMail THEN "drain mail" ELSE "record"])
        BY <1>0, <3>1 DEF DrainPendingInput, TakePendingInput, Locals
      <4> QED BY <3>1, <4>1, <4>2 DEF DrainPendingInput, TakePendingInput, WorkingPcs
    <3>2. CASE DrainMail(k)
      <4>1. thread[k].items \cup mailbox \in SUBSET Items
        BY <1>0 DEF ValuesOK, Items
      <4>2. Become(k, [thread[k] EXCEPT !.items = thread[k].items \cup mailbox,
                                        !.pc = "record"])
        BY <1>0, <3>2 DEF DrainMail, DrainMailbox, Locals
      <4> QED BY <3>2, <4>1, <4>2 DEF DrainMail, DrainMailbox, WorkingPcs
    <3>3. CASE RecordPendingInput(k) \/ BlockPendingInput(k)
      BY <3>3, ZenonT(60) DEF RecordPendingInput, BlockPendingInput, WorkingPcs
    <3> QED BY <1>3, <3>1, <3>2, <3>3
  <2> DEFINE local == [thread[k] EXCEPT !.items = items, !.pc = pc]
  <2>3. /\ local \in Locals /\ local.pc = pc /\ local.new = thread[k].new
        /\ local.victims = thread[k].victims /\ local.victim = thread[k].victim
        /\ local.turn = thread[k].turn
    BY <1>0, <2>2, ZenonT(60) DEF Locals, PcsOfTask, WorkingPcs
  <2> HIDE DEF local
  <2> QED BY <2>1, <2>2, <2>3, TaskGoes DEF local
<1> QED BY <1>1, <1>2, <1>3 DEF TurnStep

\* Deciding where mail goes changes no thread.
LEMMA MailPhaseSteps ==
    ASSUME TurnsInv, ValuesOK', NEW k \in Tasks, DeferMailbox(k) \/ ReopenMailbox(k)
    PROVE  TurnsInv'
<1>0. ValuesOK
  BY TypeParts DEF TurnsInv
<1>1. Quiet
  <2>1. PICK phase \in Phases : active \in Turns /\ turns' = [turns EXCEPT ![active].phase = phase]
    BY <1>0, ActiveType DEF DeferMailbox, ReopenMailbox, Phases
  <2>2. \A t \in Turns : turns'[t].tasks = turns[t].tasks
    BY <1>0, <2>1, TurnRowTasks
  <2> QED BY <2>2 DEF DeferMailbox, ReopenMailbox, Quiet
<1> QED BY <1>1, StillStep DEF DeferMailbox, ReopenMailbox

\* A task that returns owes nobody anything.
LEMMA TaskReturns ==
    ASSUME TurnsInv, ValuesOK', Quiet, NEW k \in Tasks, Become(k, Returned(k)),
           Pc(k) \notin {"idle"} \cup Starting,
           Pc(k) \in Finishing /\ thread[k].turn = active /\ active # NoTurn
             => ActiveTasks # {}
    PROVE  TurnsInv'
<1>1. k \in Threads /\ k \notin Spawners
  BY ThreadSorts
<1>2. /\ Returned(k) \in Locals /\ Returned(k).pc = "done" /\ Returned(k).new = NoTask
      /\ Returned(k).victims = {} /\ Returned(k).victim = NoTask
  BY <1>1, RestType
<1>3. Pc(k) \notin {"cancel", "grace"}
  BY TypeParts DEF TurnsInv, ThreadsOK, PcsOfTask
<1>4. Harmless(k, Returned(k))
  BY <1>1, <1>2, <1>3
     DEF Harmless, WorkingPcs, Starting, Aborting, Finishing, Free, PcsOfTask, Pc
<1> QED BY <1>1, <1>4, QuietStep

\* The end of a task, short of leaving and of clearing its turn.
LEMMA EndSteps ==
    ASSUME TurnsInv, ValuesOK', NEW k \in Tasks,
           \/ RecordLeftovers(k) \/ CompleteTurn(k) \/ Die(k)
           \/ (ClearTurn(k) /\ active' = active)
    PROVE  TurnsInv'
<1>0. /\ ValuesOK /\ ThreadsOK /\ k \in Threads /\ k \notin Spawners /\ thread[k] \in Locals
      /\ thread[k].turn \in Turns \cup {NoTurn}
  BY TypeParts, ThreadSorts, LocalType DEF TurnsInv
<1>1. Quiet
  <2>1. CASE RecordLeftovers(k)
    <3>1. thread[k].turn \in Turns
      BY <1>0, <2>1 DEF RecordLeftovers, TurnsInv, VictimsAreHeld, Pc
    <3>2. \A t \in Turns : turns'[t].tasks = turns[t].tasks
      BY <1>0, <2>1, <3>1, TurnRowTasks DEF RecordLeftovers
    <3> QED BY <2>1, <3>2 DEF RecordLeftovers, Quiet
  <2>2. CASE CompleteTurn(k) \/ Die(k)
    BY <2>2 DEF CompleteTurn, Die, Quiet
  <2>3. CASE ClearTurn(k) /\ active' = active
    BY <2>3 DEF ClearTurn, Quiet
  <2> QED BY <2>1, <2>2, <2>3
<1>2. ASSUME NEW pc \in {"complete", "clear"}, GoTo(k, pc), Pc(k) \in {"flush input", "complete"},
             pc = "clear" => Pc(k) = "complete" /\ thread[k].turn # NoTurn,
             pc = "complete" => Pc(k) = "flush input"
      PROVE  TurnsInv'
  <2> DEFINE local == [thread[k] EXCEPT !.pc = pc]
  <2>1. /\ local \in Locals /\ local.pc = pc /\ local.new = thread[k].new
        /\ local.victims = thread[k].victims /\ local.victim = thread[k].victim
        /\ local.turn = thread[k].turn
    BY <1>0, <1>2 DEF Locals, PcsOfTask
  <2>2. Become(k, local)
    BY <1>2 DEF GoTo
  <2>3. thread[k].victims = {} /\ thread[k].victim = NoTask
    BY <1>0, <1>2 DEF TurnsInv, VictimsAreHeld, Pc
  <2> HIDE DEF local
  <2>4. Harmless(k, local)
    BY <1>0, <1>2, <2>1, <2>3
       DEF Harmless, WorkingPcs, Starting, Aborting, Finishing, Free, PcsOfTask, Pc
  <2> QED BY <1>0, <1>1, <2>2, <2>4, QuietStep
<1>3. CASE RecordLeftovers(k)
  BY <1>2, <1>3 DEF RecordLeftovers
<1>4. CASE CompleteTurn(k) /\ thread[k].turn # NoTurn
  BY <1>2, <1>4 DEF CompleteTurn, GoTo
<1>5. CASE CompleteTurn(k) /\ thread[k].turn = NoTurn
  BY <1>1, <1>5, TaskReturns DEF CompleteTurn, Starting
<1>6. CASE ClearTurn(k) /\ active' = active
  <2>1. Pc(k) = "clear" /\ ~(active = thread[k].turn /\ turns[active].tasks = {} /\ active # NoTurn)
    BY <1>6 DEF ClearTurn
  <2>2. active # NoTurn => Become(k, Returned(k))
    BY <1>6 DEF ClearTurn
  <2>3. CASE active # NoTurn
    BY <1>0, <1>1, <2>1, <2>2, <2>3, TaskReturns, ActiveType DEF Starting
  <2>4. CASE active = NoTurn /\ Become(k, Returned(k))
    BY <1>1, <2>1, <2>4, TaskReturns DEF Starting
  <2>5. CASE active = NoTurn /\ Become(k, [Rest EXCEPT !.pc = "check"])
    <3>1. thread[k].turn # NoTurn
      BY <1>0, <2>1 DEF TurnsInv, VictimsAreHeld, Pc, Aborting
    <3>2. Become(k, Returned(k))
      BY <1>6, <2>5, <3>1 DEF ClearTurn
    <3> QED BY <2>4, <2>5, <3>2
  <2> QED BY <1>6, <2>3, <2>4, <2>5 DEF ClearTurn
<1>7. CASE Die(k)
  <2>1. k \in cancelled
    BY <1>0, <1>7 DEF Die, ValuesOK
  <2>2. ~Free(thread[k]) /\ Pc(k) # "idle"
    BY <2>1 DEF TurnsInv, FinishersAreFree, UnbornAreUntouched
  <2> QED BY <1>1, <1>7, <2>2, TaskReturns DEF Die, Free, Finishing, Pc
<1> QED BY <1>3, <1>4, <1>5, <1>6, <1>7

\* Looking for pending work and gathering input for a task are harmless.
LEMMA GatherSteps ==
    ASSUME TurnsInv, ValuesOK', NEW p \in Threads,
           \/ CheckPendingWork(p) \/ (ReserveTurn(p) /\ active # NoTurn) \/ TakeQueuedItems(p)
           \/ GatherPending(p) \/ GatherMail(p)
    PROVE  TurnsInv'
<1>0. /\ ValuesOK /\ ThreadsOK /\ thread[p] \in Locals /\ thread[p].items \subseteq Items
      /\ p \in Tasks <=> p \notin Spawners
  BY TypeParts, ThreadSorts, LocalType DEF TurnsInv, Threads
<1>1. Quiet
  <2>1. CASE CheckPendingWork(p) \/ (ReserveTurn(p) /\ active # NoTurn) \/ TakeQueuedItems(p)
    BY <2>1 DEF CheckPendingWork, ReserveTurn, TakeQueuedItems, Quiet
  <2>2. CASE GatherPending(p)
    BY <1>0, <2>2, ActiveType, TurnRowTasks DEF GatherPending, TakePendingInput, Quiet
  <2>3. CASE GatherMail(p)
    BY <2>3 DEF GatherMail, DrainMailbox, Quiet
  <2> QED BY <2>1, <2>2, <2>3
<1>2. ASSUME Pc(p) \in {"check", "reserve"}, Become(p, Returned(p)) PROVE TurnsInv'
  <2>1. Harmless(p, Returned(p))
    BY <1>0, <1>2, RestType DEF Harmless, WorkingPcs, Starting, Aborting, Finishing, Free,
       PcsOfTask, PcsOfSpawner, Pc
  <2> QED BY <1>1, <1>2, <2>1, QuietStep
<1>3. CASE CheckPendingWork(p) \/ (ReserveTurn(p) /\ active # NoTurn)
  <2>1. CASE Become(p, Returned(p))
    BY <1>2, <1>3, <2>1 DEF CheckPendingWork, ReserveTurn
  <2>2. CASE CheckPendingWork(p) /\ Become(p, [Rest EXCEPT !.pc = "reserve"])
    <3> DEFINE local == [Rest EXCEPT !.pc = "reserve"]
    <3>1. /\ local \in Locals /\ local.pc = "reserve" /\ local.new = NoTask
          /\ local.victims = {} /\ local.victim = NoTask
      BY RestType DEF Rest, Locals, PcsOfTask
    <3>2. Pc(p) = "check" /\ Become(p, local)
      BY <2>2 DEF CheckPendingWork
    <3> HIDE DEF local
    <3>3. Harmless(p, local)
      BY <1>0, <3>1, <3>2 DEF Harmless, WorkingPcs, Starting, Aborting, Finishing, Free,
         PcsOfTask, PcsOfSpawner, Pc
    <3> QED BY <1>1, <3>2, <3>3, QuietStep
  <2> QED BY <1>3, <2>1, <2>2 DEF CheckPendingWork, ReserveTurn
<1>4. CASE TakeQueuedItems(p) \/ GatherPending(p) \/ GatherMail(p)
  <2>1. Pc(p) \in {"gather", "pending", "mail"}
    BY <1>4 DEF TakeQueuedItems, GatherPending, TakePendingInput, GatherMail, DrainMailbox
  <2>2. PICK pc \in {"pending", "mail", "attach"}, items \in SUBSET Items,
             turn \in Turns \cup {NoTurn} :
          Become(p, [thread[p] EXCEPT !.pc = pc, !.items = items, !.turn = turn])
    <3>1. CASE TakeQueuedItems(p)
      <4>1. Become(p, [thread[p] EXCEPT !.pc = "pending", !.items = idle, !.turn = NoTurn])
        BY <1>0, <3>1 DEF TakeQueuedItems, Locals
      <4> QED BY <1>0, <4>1 DEF ValuesOK
    <3>2. CASE GatherPending(p)
      <4>1. Become(p, [thread[p] EXCEPT !.pc = IF AcceptsMail THEN "mail" ELSE "attach",
                         !.items = thread[p].items \cup ActiveInput, !.turn = thread[p].turn])
        BY <1>0, <3>2 DEF GatherPending, TakePendingInput, Locals
      <4>2. thread[p].items \cup ActiveInput \in SUBSET Items
        BY <1>0, ActiveType
      <4> QED BY <1>0, <4>1, <4>2, LocalType
    <3>3. CASE GatherMail(p)
      <4>1. Become(p, [thread[p] EXCEPT !.pc = "attach",
                         !.items = thread[p].items \cup mailbox, !.turn = thread[p].turn])
        BY <1>0, <3>3 DEF GatherMail, DrainMailbox, Locals
      <4>2. thread[p].items \cup mailbox \in SUBSET Items
        BY <1>0 DEF ValuesOK, Items
      <4> QED BY <1>0, <4>1, <4>2, LocalType
    <3> QED BY <1>4, <3>1, <3>2, <3>3
  <2> DEFINE local == [thread[p] EXCEPT !.pc = pc, !.items = items, !.turn = turn]
  <2>3. /\ local \in Locals /\ local.pc = pc /\ local.new = thread[p].new
        /\ local.victims = thread[p].victims /\ local.victim = thread[p].victim
    BY <1>0, <2>2, ZenonT(60) DEF Locals, PcsOfTask
  <2>4. thread[p].victims = {} /\ thread[p].victim = NoTask /\ thread[p].new # NoTask
    BY <2>1 DEF TurnsInv, VictimsAreHeld, NewTasksAreUnborn, Starting, Pc
  <2>5. Become(p, local)
    BY <2>2
  <2> HIDE DEF local
  <2>6. Harmless(p, local)
    BY <1>0, <2>1, <2>2, <2>3, <2>4 DEF Harmless, WorkingPcs, Starting, Aborting, Finishing,
       Free, PcsOfTask, PcsOfSpawner, Pc
  <2> QED BY <1>1, <2>5, <2>6, QuietStep
<1> QED BY <1>3, <1>4

\* So are the steps of the submission loop that neither start nor abort a task,
\* and clearing a turn that has been aborted.
LEMMA LoopSteps ==
    ASSUME TurnsInv, ValuesOK',
           \/ \E i \in Items : Steer(i) \/ UserInputSteered(i) \/ Approve(i) \/ Inject(i)
           \/ \E i \in TriggerMail \cup PlainMail : Mail(i)
           \/ Interrupt \/ QueueForNextTurn
           \/ \E p \in Spawners : ClearPending(p)
    PROVE  TurnsInv'
<1>0. ValuesOK /\ ThreadsOK
  BY TypeParts DEF TurnsInv
<1>a. /\ Loop \in Threads /\ Loop \in Spawners /\ Loop \notin Tasks
      /\ thread[Loop] \in Locals
  BY <1>0, ThreadSorts, LocalType DEF Spawners
<1>1. ASSUME NEW i \in Items, Steer(i) \/ UserInputSteered(i) PROVE TurnsInv'
  <2>1. \A t \in Turns : turns'[t].tasks = turns[t].tasks
    BY <1>0, <1>1, SteerType DEF Steer, UserInputSteered
  <2>2. Quiet /\ thread' = thread
    BY <1>1, <2>1 DEF Steer, UserInputSteered, Quiet
  <2> QED BY <2>2, StillStep
<1>2. ASSUME Quiet, NEW local \in Locals, Become(Loop, local), Pc(Loop) \in {"idle", "queue"},
             local.pc \in {"idle", "check", "queue", "abort"}, local.new \in {NoTask, thread[Loop].new},
             local.victims = {}, local.victim = NoTask,
             local.pc = "abort" => local.reason = "Interrupted"
      PROVE  TurnsInv'
  <2>1. Harmless(Loop, local)
    BY <1>a, <1>2 DEF Harmless, WorkingPcs, Starting, Aborting, Finishing, PcsOfSpawner, Pc
  <2> QED BY <1>a, <1>2, <2>1, QuietStep
<1>3. ASSUME NEW i \in Items, Approve(i) \/ Inject(i) PROVE TurnsInv'
  <2>1. turns' = turns \/ (active # NoTurn /\ turns' = PushInput(active, {i}))
    BY <1>3 DEF Approve, Inject
  <2>2. {i} \in SUBSET Items
    OBVIOUS
  <2>3. \A t \in Turns : turns'[t].tasks = turns[t].tasks
    BY <1>0, <2>1, <2>2, ActiveType, PushType
  <2>4. Quiet
    BY <1>3, <2>3 DEF Approve, Inject, Quiet
  <2>5. CASE thread' = thread
    BY <2>4, <2>5, StillStep
  <2>6. CASE Approve(i) /\ Become(Loop, [Rest EXCEPT !.pc = "queue", !.items = {i}])
    <3> DEFINE local == [Rest EXCEPT !.pc = "queue", !.items = {i}]
    <3>1. /\ local \in Locals /\ local.pc = "queue" /\ local.new = NoTask
          /\ local.victims = {} /\ local.victim = NoTask
      BY DEF Rest, Locals, PcsOfSpawner
    <3>2. Become(Loop, local) /\ Pc(Loop) = "idle"
      BY <2>6 DEF Approve
    <3> HIDE DEF local
    <3> QED BY <1>2, <2>4, <3>1, <3>2
  <2> QED BY <1>3, <2>5, <2>6 DEF Approve, Inject
<1>4. ASSUME NEW i \in TriggerMail \cup PlainMail, Mail(i) PROVE TurnsInv'
  <2>1. Quiet
    BY <1>4 DEF Mail, Quiet
  <2>2. CASE thread' = thread
    BY <2>1, <2>2, StillStep
  <2>3. CASE GoTo(Loop, "check")
    <3> DEFINE local == [thread[Loop] EXCEPT !.pc = "check"]
    <3>1. Become(Loop, local) /\ Pc(Loop) = "idle"
      BY <1>4, <2>3 DEF Mail, GoTo
    <3>2. thread[Loop].victims = {} /\ thread[Loop].victim = NoTask
      BY <1>a, <3>1 DEF TurnsInv, VictimsAreHeld, Pc
    <3>3. /\ local \in Locals /\ local.pc = "check" /\ local.new = thread[Loop].new
          /\ local.victims = {} /\ local.victim = NoTask
      BY <1>a, <3>2 DEF Locals, PcsOfSpawner
    <3> HIDE DEF local
    <3> QED BY <1>2, <2>1, <3>1, <3>3
  <2> QED BY <1>4, <2>2, <2>3 DEF Mail
<1>5. CASE Interrupt
  <2> DEFINE local == [Rest EXCEPT !.pc = "abort", !.reason = "Interrupted"]
  <2>1. /\ local \in Locals /\ local.pc = "abort" /\ local.new = NoTask
        /\ local.reason = "Interrupted" /\ local.victims = {} /\ local.victim = NoTask
    BY DEF Rest, Locals, PcsOfSpawner
  <2>2. Become(Loop, local) /\ Pc(Loop) = "idle" /\ Quiet
    BY <1>5 DEF Interrupt, Quiet
  <2> HIDE DEF local
  <2> QED BY <1>2, <2>1, <2>2
<1>6. CASE QueueForNextTurn
  <2>1. Become(Loop, Rest) /\ Pc(Loop) = "queue" /\ Quiet
    BY <1>6 DEF QueueForNextTurn, Quiet
  <2> QED BY <1>2, <2>1, RestType
<1>7. ASSUME NEW p \in Spawners, ClearPending(p) PROVE TurnsInv'
  <2>0. p \in Threads /\ p \notin Tasks /\ thread[p] \in Locals
    BY <1>0, ThreadSorts, LocalType
  <2>1. thread[p].turn \in Turns
    BY <1>0, <1>7, <2>0, LocalType DEF ClearPending, TurnsInv, VictimsAreHeld, Aborting, Pc
  <2>2. \A t \in Turns : turns'[t].tasks = turns[t].tasks
    BY <1>0, <1>7, <2>1, TurnRowTasks, ZenonT(60) DEF ClearPending
  <2>3. Quiet
    BY <1>7, <2>2 DEF ClearPending, Quiet
  <2> DEFINE next == IF thread[p].reason = "Interrupted" THEN "check" ELSE "gather"
             local == [thread[p] EXCEPT !.turn = NoTurn, !.pc = next]
  <2>4. Become(p, local) /\ Pc(p) = "clear pending"
    BY <1>7 DEF ClearPending
  <2>5. /\ thread[p].victims = {} /\ thread[p].victim = NoTask
        /\ next = "gather" => thread[p].new # NoTask
    BY <2>0, <2>4 DEF TurnsInv, VictimsAreHeld, NewTasksAreUnborn, Aborting, Locals, Pc
  <2>6. next \in {"check", "gather"}
    OBVIOUS
  <2> HIDE DEF next
  <2>7. /\ local \in Locals /\ local.pc = next /\ local.new = thread[p].new
        /\ local.victims = {} /\ local.victim = NoTask
    BY <2>0, <2>5, <2>6, ZenonT(60) DEF Locals, PcsOfSpawner
  <2> HIDE DEF local
  <2>8. Harmless(p, local)
    BY <2>0, <2>4, <2>5, <2>6, <2>7
       DEF Harmless, WorkingPcs, Starting, Aborting, Finishing, PcsOfSpawner, Pc
  <2> QED BY <2>0, <2>3, <2>4, <2>8, QuietStep
<1> QED BY <1>1, <1>3, <1>4, <1>5, <1>6, <1>7

(***************************************************************************)
(* Leaving, clearing and entering a turn.                                  *)
(***************************************************************************)

\* A task that leaves its turn is beyond every abort; if it was the last one it
\* owes the turn its clearing.
LEMMA RemoveStep ==
    ASSUME TurnsInv, ValuesOK', NEW k \in Tasks, RemoveTask(k)
    PROVE  TurnsInv'
<1>0. /\ ValuesOK /\ ThreadsOK /\ k \in Threads /\ k \notin Spawners /\ thread[k] \in Locals
      /\ ActiveTasks \subseteq Tasks
  BY TypeParts, ThreadSorts, LocalType, ActiveType DEF TurnsInv
<1>1. /\ Pc(k) = "remove" /\ thread[k].turn = NoTurn /\ thread[k].victims = {}
      /\ thread[k].victim = NoTask
  BY <1>0 DEF RemoveTask, TurnsInv, FinishersAreFree, VictimsAreHeld, Pc
<1>2. PICK local : Become(k, local) /\ local \in Locals
        /\ local.victims = {} /\ local.victim = NoTask /\ local.new = thread[k].new
        /\ \/ local.pc = "complete" /\ local.turn = NoTurn
              /\ (k \in ActiveTasks => ActiveTasks # {k})
           \/ local.pc = "flush input" /\ local.turn = active /\ active \in Turns
              /\ ActiveTasks = {k}
  <2>1. CASE k \in ActiveTasks /\ turns[active].tasks = {k}
    <3> DEFINE l == [thread[k] EXCEPT !.pc = "flush input", !.turn = active]
    <3>1. active \in Turns /\ ActiveTasks = {k}
      BY <1>0, <2>1, ActiveType
    <3>2. /\ l \in Locals /\ l.pc = "flush input" /\ l.turn = active /\ l.victims = {}
          /\ l.victim = NoTask /\ l.new = thread[k].new
      BY <1>0, <1>1, <3>1 DEF Locals, PcsOfTask
    <3>3. Become(k, l)
      BY <2>1 DEF RemoveTask
    <3> QED BY <3>1, <3>2, <3>3
  <2>2. CASE ~(k \in ActiveTasks /\ turns[active].tasks = {k})
    <3> DEFINE l == [thread[k] EXCEPT !.pc = "complete"]
    <3>1. k \in ActiveTasks => ActiveTasks # {k}
      BY <1>0, <2>2, ActiveType
    <3>2. /\ l \in Locals /\ l.pc = "complete" /\ l.turn = NoTurn /\ l.victims = {}
          /\ l.victim = NoTask /\ l.new = thread[k].new
      BY <1>0, <1>1 DEF Locals, PcsOfTask
    <3>3. Become(k, l)
      BY <2>2 DEF RemoveTask, GoTo
    <3> QED BY <3>1, <3>2, <3>3
  <2> QED BY <2>1, <2>2
<1>3. /\ ThreadsOK' /\ thread'[k] = local
      /\ \A q \in Threads : q # k => thread'[q] = thread[q]
  BY <1>0, <1>2, BecomeType DEF PcsOfTask
<1>4. /\ active' = active /\ cancelled' = cancelled /\ doomed' = doomed
      /\ numTasks' = numTasks /\ numTurns' = numTurns
  BY DEF RemoveTask
<1>5. \A t \in Turns : turns'[t].tasks = IF t = active THEN turns[t].tasks \ {k} ELSE turns[t].tasks
  <2>1. CASE k \in ActiveTasks
    <3>1. active \in Turns /\ turns[active].tasks \ {k} \in SUBSET Tasks
      BY <1>0, <2>1, ActiveType, TurnRowType
    <3>2. turns' = [turns EXCEPT ![active].tasks = turns[active].tasks \ {k}]
      BY <1>0, <2>1, <3>1 DEF RemoveTask, ValuesOK
    <3> DEFINE some == turns[active].tasks \ {k}
    <3> HIDE DEF some
    <3>3. \A t \in Turns : turns'[t].tasks = IF t = active THEN some ELSE turns[t].tasks
      BY <1>0, <3>1, <3>2, TasksType DEF some
    <3> QED BY <3>3 DEF some
  <2>2. CASE k \notin ActiveTasks
    BY <1>0, <2>2, ActiveType DEF RemoveTask
  <2> QED BY <2>1, <2>2
<1>6. ActiveTasks' = ActiveTasks \ {k}
  BY <1>0, <1>4, <1>5, ActiveType DEF ActiveTasks, ValuesOK
<1>7. \A q \in Threads : /\ thread'[q].victims = thread[q].victims
                         /\ thread'[q].victim = thread[q].victim
                         /\ thread'[q].new = thread[q].new
  BY <1>1, <1>2, <1>3
<1>8. TypeOK'
  BY <1>3 DEF TypeOK, ValuesOK, ThreadsOK
<1>9. TasksAreInActiveTurn'
  BY <1>4, <1>5 DEF TurnsInv, TasksAreInActiveTurn
<1>10. \A q \in Tasks : thread'[q].pc = "idle" <=> Pc(q) = "idle"
  BY <1>0, <1>1, <1>2, <1>3, ThreadSorts DEF Pc
<1>11. NewTasksAreUnborn'
  <2>1. \A q \in Threads : thread[q].new \in Tasks \cup {NoTask}
    BY <1>0, LocalType
  <2>2. \A q \in Threads : thread'[q].pc \in Starting => Pc(q) \in Starting
    BY <1>2, <1>3 DEF Starting, Pc
  <2>3. \A q \in Spawners : thread'[q] = thread[q]
    BY <1>0, <1>3, ThreadSorts
  <2> QED BY <1>4, <1>7, <1>10, <2>1, <2>2, <2>3 DEF TurnsInv, NewTasksAreUnborn, Pc
<1>12. UnbornAreUntouched'
  BY <1>1, <1>2, <1>3, <1>4, <1>6, <1>7, <1>10, ThreadSorts DEF TurnsInv, UnbornAreUntouched, Pc
<1>13. VictimsAreHeld'
  <2>1. \A q \in Threads : thread'[q].pc \in Aborting \cup {"flush input", "clear"}
                             => thread'[q].turn # NoTurn
    <3>1. local.pc \in Aborting \cup {"flush input", "clear"} => local.turn # NoTurn
      <4>1. local.pc = "flush input" => local.turn \in Turns
        BY <1>2
      <4>2. local.pc \in {"complete", "flush input"}
        BY <1>2
      <4>3. 0 \notin Turns
        BY ThreadSorts
      <4> QED BY <4>1, <4>2, <4>3 DEF Aborting
    <3> QED BY <1>3, <3>1 DEF TurnsInv, VictimsAreHeld, Pc
  <2>2. \A q \in Threads : /\ thread'[q].victims # {} => Pc(q) = thread'[q].pc
                           /\ thread'[q].victim # NoTask => Pc(q) = thread'[q].pc
                           /\ thread'[q].pc = "grace" => Pc(q) = "grace"
    BY <1>2, <1>3 DEF Pc
  <2> QED BY <1>4, <1>7, <2>1, <2>2 DEF TurnsInv, VictimsAreHeld, Pc
<1>14. FinishersAreFree'
  <2>1. local.pc = "flush input" => /\ k \notin cancelled'
                                    /\ \A q \in Spawners : k \notin thread'[q].victims
    BY <1>2, <1>4, <1>7, ThreadSorts DEF TurnsInv, TokensFireOnce
  <2>2. Free(thread'[k]) => /\ k \notin cancelled' \cup ActiveTasks'
                            /\ \A q \in Spawners : k \notin thread'[q].victims
    BY <1>2, <1>3, <1>6, <2>1 DEF Free, Starting
  <2>3. \A q \in Tasks : q # k /\ Free(thread'[q]) =>
          /\ q \notin cancelled' \cup ActiveTasks'
          /\ \A r \in Spawners : q \notin thread'[r].victims
    BY <1>3, <1>4, <1>6, <1>7, ThreadSorts DEF TurnsInv, FinishersAreFree
  <2>4. \A q \in Tasks : thread'[q].pc \in WorkingPcs \cup {"flushed", "remove"}
                           => thread'[q].turn = NoTurn
    BY <1>2, <1>3, ThreadSorts DEF TurnsInv, FinishersAreFree, Working, WorkingPcs, Pc
  <2> QED BY <2>2, <2>3, <2>4 DEF FinishersAreFree, Free, Working, Pc
<1>15. TokensFireOnce'
  BY <1>4, <1>6, <1>7, ThreadSorts DEF TurnsInv, TokensFireOnce
<1>16. WorkingTasksAreReachable'
  <2>1. \A q \in Tasks : Working(q)' => q # k /\ Working(q)
    BY <1>2, <1>3, ThreadSorts DEF Working, WorkingPcs, Pc
  <2> QED BY <1>4, <1>6, <1>7, <2>1, ThreadSorts DEF TurnsInv, WorkingTasksAreReachable
<1>17. EmptyTurnHasAnOwner'
  <2> SUFFICES ASSUME active # NoTurn, ActiveTasks' = {}
               PROVE  \E q \in Threads :
                        \/ thread'[q].pc \in Starting
                        \/ thread'[q].pc \in Finishing /\ thread'[q].turn = active
    BY <1>4 DEF EmptyTurnHasAnOwner, Pc
  <2>1. CASE ActiveTasks = {k}
    <3>1. thread'[k].pc = "flush input" /\ thread'[k].turn = active
      BY <1>2, <1>3, <2>1
    <3> QED BY <1>0, <3>1 DEF Finishing
  <2>2. CASE ActiveTasks = {}
    <3>1. PICK q \in Threads : \/ Pc(q) \in Starting
                               \/ Pc(q) \in Finishing /\ thread[q].turn = active
      BY <2>2 DEF TurnsInv, EmptyTurnHasAnOwner
    <3>2. q # k
      BY <1>1, <3>1 DEF Starting, Finishing
    <3> QED BY <1>3, <3>1, <3>2 DEF Pc
  <2> QED BY <1>6, <2>1, <2>2
<1> QED BY <1>8, <1>9, <1>11, <1>12, <1>13, <1>14, <1>15, <1>16, <1>17 DEF TurnsInv

\* The task that emptied the turn clears it and looks for pending work.
LEMMA ClearStep ==
    ASSUME TurnsInv, ValuesOK', NEW k \in Tasks, ClearTurn(k), active' # active
    PROVE  TurnsInv'
<1>0. /\ ValuesOK /\ ThreadsOK /\ k \in Threads /\ k \notin Spawners /\ thread[k] \in Locals
  BY TypeParts, ThreadSorts, LocalType DEF TurnsInv
<1> DEFINE local == [Rest EXCEPT !.pc = "check"]
<1>1. /\ local \in Locals /\ local.pc = "check" /\ local.new = NoTask /\ local.turn = NoTurn
      /\ local.victims = {} /\ local.victim = NoTask
  BY DEF Rest, Locals, PcsOfTask
<1>2. /\ Pc(k) = "clear" /\ active = thread[k].turn /\ turns[active].tasks = {}
      /\ active' = NoTurn /\ Become(k, local)
      /\ turns' = turns /\ cancelled' = cancelled /\ doomed' = doomed
      /\ numTasks' = numTasks /\ numTurns' = numTurns
  BY DEF ClearTurn
<1> HIDE DEF local
<1>3. active \in Turns /\ ActiveTasks = {} /\ ActiveTasks' = {}
  BY <1>0, <1>2 DEF ActiveTasks, ValuesOK
<1>4. /\ ThreadsOK' /\ thread'[k] = local
      /\ \A q \in Threads : q # k => thread'[q] = thread[q]
  BY <1>0, <1>1, <1>2, BecomeType DEF PcsOfTask
<1>5. thread[k].victims = {} /\ thread[k].victim = NoTask /\ Free(thread[k])
  BY <1>0, <1>2, <1>3, ThreadSorts DEF TurnsInv, VictimsAreHeld, Free, Pc
<1>6. \A q \in Threads : /\ thread'[q].victims = thread[q].victims
                         /\ thread'[q].victim = thread[q].victim
                         /\ thread'[q].new \in {NoTask, thread[q].new}
  BY <1>1, <1>4, <1>5
<1>7. TypeOK'
  BY <1>4 DEF TypeOK, ValuesOK, ThreadsOK
<1>8. TasksAreInActiveTurn'
  BY <1>0, <1>2 DEF TurnsInv, TasksAreInActiveTurn, ValuesOK
<1>9. \A q \in Tasks : thread'[q].pc = "idle" <=> Pc(q) = "idle"
  BY <1>1, <1>2, <1>4, ThreadSorts DEF Pc
<1>10. NewTasksAreUnborn'
  <2>1. \A q \in Threads : thread[q].new \in Tasks \cup {NoTask}
    BY <1>0, LocalType
  <2>2. \A q \in Threads : thread'[q].pc \in Starting => thread'[q] = thread[q]
    BY <1>1, <1>4 DEF Starting
  <2>3. \A q \in Spawners : thread'[q] = thread[q]
    BY <1>0, <1>4, ThreadSorts
  <2> QED BY <1>2, <1>6, <1>9, <2>1, <2>2, <2>3 DEF TurnsInv, NewTasksAreUnborn, Pc
<1>11. UnbornAreUntouched'
  <2>1. \A q \in Tasks : thread'[q].pc = "idle" => thread'[q] = thread[q]
    BY <1>1, <1>4, ThreadSorts
  <2> QED BY <1>2, <1>3, <1>6, <2>1, ThreadSorts DEF TurnsInv, UnbornAreUntouched, Pc
<1>12. VictimsAreHeld'
  <2>1. \A q \in Threads : /\ thread'[q].victims # {} => thread'[q] = thread[q]
                           /\ thread'[q].victim # NoTask => thread'[q] = thread[q]
                           /\ thread'[q].pc \in Aborting \cup {"grace", "flush input", "clear"}
                                => thread'[q] = thread[q]
    BY <1>1, <1>4 DEF Aborting
  <2> QED BY <1>2, <2>1 DEF TurnsInv, VictimsAreHeld, Pc
<1>13. FinishersAreFree'
  <2>1. \A q \in Tasks : Free(thread'[q]) => Free(thread[q])
    BY <1>4, <1>5, ThreadSorts
  <2>2. \A q \in Tasks : Free(thread'[q]) =>
          /\ q \notin cancelled' \cup ActiveTasks'
          /\ \A r \in Spawners : q \notin thread'[r].victims
    BY <1>2, <1>3, <1>6, <2>1, ThreadSorts DEF TurnsInv, FinishersAreFree
  <2>3. \A q \in Tasks : thread'[q].pc \in WorkingPcs \cup {"flushed", "remove"}
                           => thread'[q].turn = NoTurn
    BY <1>1, <1>4, ThreadSorts DEF TurnsInv, FinishersAreFree, Working, Pc
  <2> QED BY <2>2, <2>3 DEF FinishersAreFree, Free, Working, Pc
<1>14. TokensFireOnce'
  BY <1>2, <1>3, <1>6, ThreadSorts DEF TurnsInv, TokensFireOnce
<1>15. WorkingTasksAreReachable'
  <2>1. \A q \in Tasks : Working(q)' => Working(q)
    BY <1>1, <1>4, ThreadSorts DEF Working, WorkingPcs, Pc
  <2> QED BY <1>2, <1>3, <1>6, <2>1, ThreadSorts DEF TurnsInv, WorkingTasksAreReachable
<1>16. EmptyTurnHasAnOwner'
  BY <1>2 DEF EmptyTurnHasAnOwner
<1> QED BY <1>7, <1>8, <1>10, <1>11, <1>12, <1>13, <1>14, <1>15, <1>16 DEF TurnsInv

\* A thread that is starting a task enters the active turn, or a new one.
LEMMA EnterStep ==
    ASSUME TurnsInv, ValuesOK', NEW p \in Threads, NEW local \in Locals, Become(p, local),
           EnterTurn, cancelled' = cancelled, doomed' = doomed,
           \A t \in Turns : turns'[t].tasks = turns[t].tasks,
           Pc(p) \in {"attach", "reserve"}, local.pc \in Starting,
           local.victims = {}, local.victim = NoTask,
           \/ numTasks' = numTasks /\ local.new = thread[p].new /\ local.new # NoTask
           \/ numTasks' = numTasks + 1 /\ local.new = numTasks + 1
    PROVE  TurnsInv'
<1>0. ValuesOK /\ ThreadsOK /\ (p \in Tasks <=> p \notin Spawners)
  BY TypeParts, ThreadSorts DEF TurnsInv, Threads
<1>1. /\ ThreadsOK' /\ thread'[p] = local
      /\ \A q \in Threads : q # p => thread'[q] = thread[q]
  BY <1>0, BecomeType DEF PcsOfTask, PcsOfSpawner, Starting
<1>2. /\ TurnHere \in Turns /\ active' = TurnHere /\ numTurns <= numTurns'
      /\ active = NoTurn => TurnHere = numTurns'
      /\ active # NoTurn => TurnHere = active /\ numTurns' = numTurns
  BY <1>0, EnterTurnType
<1>3. ActiveTasks' = ActiveTasks
  <2>1. CASE active # NoTurn
    BY <1>2, <2>1 DEF ActiveTasks
  <2>2. CASE active = NoTurn
    BY <1>2, <2>2, ThreadSorts DEF ActiveTasks, TurnsInv, TasksAreInActiveTurn
  <2> QED BY <2>1, <2>2
<1>4. thread[p].victims = {} /\ thread[p].victim = NoTask
  BY DEF TurnsInv, VictimsAreHeld, Pc
<1>5. \A q \in Threads : /\ thread'[q].victims = thread[q].victims
                         /\ thread'[q].victim = thread[q].victim
  BY <1>1, <1>4
<1>6. TypeOK'
  BY <1>1 DEF TypeOK, ValuesOK, ThreadsOK
<1>7. TasksAreInActiveTurn'
  <2>1. active' <= numTurns'
    <3>1. CASE active = NoTurn
      BY <1>2, <3>1, ThreadSorts
    <3>2. CASE active # NoTurn
      BY <1>2, <3>2 DEF TurnsInv, TasksAreInActiveTurn
    <3> QED BY <3>1, <3>2
  <2>2. \A t \in Turns : t # active' => t # active
    BY <1>2, ThreadSorts
  <2> QED BY <2>1, <2>2 DEF TurnsInv, TasksAreInActiveTurn
<1>8. \A q \in Tasks : thread'[q].pc = "idle" <=> Pc(q) = "idle"
  BY <1>1, ThreadSorts DEF Pc, Starting
<1>9. NewTasksAreUnborn'
  <2>1. \A q \in Threads : thread[q].new \in Tasks \cup {NoTask}
    BY <1>0, LocalType
  <2>2. numTasks \in Nat /\ numTasks' \in 0..MaxTasks /\ MaxTasks \in Nat
    BY <1>0, ThreadSorts DEF ValuesOK
  <2>3. /\ local.new \in Tasks /\ local.new <= numTasks' /\ Pc(local.new) = "idle"
        /\ \A q \in Threads : q # p => thread[q].new # local.new
    <3>1. CASE numTasks' = numTasks /\ local.new = thread[p].new /\ local.new # NoTask
      BY <2>1, <3>1 DEF TurnsInv, NewTasksAreUnborn
    <3>2. CASE numTasks' = numTasks + 1 /\ local.new = numTasks + 1
      BY <2>1, <2>2, <3>2 DEF TurnsInv, NewTasksAreUnborn
    <3> QED BY <3>1, <3>2
  <2>4. numTasks <= numTasks'
    BY <2>2
  <2>5. \A q \in Threads : thread'[q].new # NoTask =>
          thread'[q].new <= numTasks' /\ thread'[thread'[q].new].pc = "idle"
    <3> SUFFICES ASSUME NEW q \in Threads, thread'[q].new # NoTask
                 PROVE  thread'[q].new <= numTasks' /\ thread'[thread'[q].new].pc = "idle"
      OBVIOUS
    <3>1. CASE q = p
      BY <1>1, <1>8, <2>3, <3>1
    <3>2. CASE q # p
      <4>1. thread'[q].new = thread[q].new /\ thread[q].new \in Tasks
        BY <1>1, <2>1, <3>2
      <4>2. thread[q].new <= numTasks /\ Pc(thread[q].new) = "idle"
        BY <4>1 DEF TurnsInv, NewTasksAreUnborn
      <4> QED BY <1>8, <2>2, <2>4, <4>1, <4>2
    <3> QED BY <3>1, <3>2
  <2>6. \A q, r \in Threads : q # r /\ thread'[q].new = thread'[r].new
                                => thread'[q].new = NoTask
    BY <1>1, <2>3 DEF TurnsInv, NewTasksAreUnborn
  <2>7. \A k \in Tasks : k > numTasks' => thread'[k].pc = "idle"
    BY <1>8, <2>2, <2>4 DEF TurnsInv, NewTasksAreUnborn
  <2>8. \A q \in Threads : thread'[q].pc \in Starting => thread'[q].new # NoTask
    BY <1>1, <2>3, ThreadSorts DEF TurnsInv, NewTasksAreUnborn, Pc
  <2>9. \A q \in Spawners :
          thread'[q].pc \in {"abort"} \cup Aborting /\ thread'[q].reason = "Replaced"
            => thread'[q].new # NoTask
    BY <1>1, ThreadSorts, ZenonT(60) DEF TurnsInv, NewTasksAreUnborn, Starting, Aborting, Pc
  <2> QED BY <2>5, <2>6, <2>7, <2>8, <2>9 DEF NewTasksAreUnborn, Pc
<1>10. UnbornAreUntouched'
  <2>1. \A q \in Tasks : thread'[q].pc = "idle" => thread'[q] = thread[q]
    BY <1>1, ThreadSorts DEF Starting
  <2> QED BY <1>3, <1>5, <2>1, ThreadSorts DEF TurnsInv, UnbornAreUntouched, Pc
<1>11. VictimsAreHeld'
  <2>1. \A q \in Threads : /\ thread'[q].victims # {} => thread'[q] = thread[q]
                           /\ thread'[q].victim # NoTask => thread'[q] = thread[q]
                           /\ thread'[q].pc \in Aborting \cup {"grace", "flush input", "clear"}
                                => thread'[q] = thread[q]
    BY <1>1 DEF Aborting, Starting
  <2> QED BY <2>1 DEF TurnsInv, VictimsAreHeld, Pc
<1>12. FinishersAreFree'
  <2>1. \A q \in Tasks : Free(thread'[q]) => Free(thread[q])
    BY <1>1, ThreadSorts DEF Free, Starting, Pc
  <2>2. \A q \in Tasks : Free(thread'[q]) =>
          /\ q \notin cancelled' \cup ActiveTasks'
          /\ \A r \in Spawners : q \notin thread'[r].victims
    BY <1>3, <1>5, <2>1, ThreadSorts DEF TurnsInv, FinishersAreFree
  <2>3. \A q \in Tasks : thread'[q].pc \in WorkingPcs \cup {"flushed", "remove"}
                           => thread'[q].turn = NoTurn
    BY <1>1, ThreadSorts DEF TurnsInv, FinishersAreFree, Working, WorkingPcs, Starting, Pc
  <2> QED BY <2>2, <2>3 DEF FinishersAreFree, Free, Working, Pc
<1>13. TokensFireOnce'
  BY <1>3, <1>5, ThreadSorts DEF TurnsInv, TokensFireOnce
<1>14. WorkingTasksAreReachable'
  <2>1. \A q \in Tasks : Working(q)' => Working(q)
    BY <1>1, ThreadSorts DEF Working, WorkingPcs, Starting, Pc
  <2> QED BY <1>3, <1>5, <2>1, ThreadSorts DEF TurnsInv, WorkingTasksAreReachable
<1>15. EmptyTurnHasAnOwner'
  BY <1>1 DEF EmptyTurnHasAnOwner, Pc
<1> QED BY <1>6, <1>7, <1>9, <1>10, <1>11, <1>12, <1>13, <1>14, <1>15 DEF TurnsInv

\* So do start_task and maybe_start_turn_for_pending_work.
LEMMA EnterSteps ==
    ASSUME TurnsInv, ValuesOK', NEW p \in Threads,
           AttachInput(p) \/ (ReserveTurn(p) /\ active = NoTurn)
    PROVE  TurnsInv'
<1>0. ValuesOK /\ ThreadsOK /\ thread[p] \in Locals
  BY TypeParts, LocalType DEF TurnsInv
<1>1. CASE AttachInput(p)
  <2> DEFINE local == [thread[p] EXCEPT !.pc = "launch", !.items = {}]
  <2>1. thread[p].victims = {} /\ thread[p].victim = NoTask /\ thread[p].new # NoTask
    BY <1>1 DEF AttachInput, TurnsInv, VictimsAreHeld, NewTasksAreUnborn, Starting, Pc
  <2>2. /\ local \in Locals /\ local.pc \in Starting /\ local.new = thread[p].new
        /\ local.victims = {} /\ local.victim = NoTask
    BY <1>0, <2>1, ZenonT(60) DEF Locals, PcsOfTask, Starting
  <2>3. \A t \in Turns : turns'[t].tasks = turns[t].tasks
    BY <1>0, <1>1, EnterTurnType, PushType, LocalType DEF AttachInput
  <2>4. /\ Become(p, local) /\ EnterTurn /\ cancelled' = cancelled /\ doomed' = doomed
        /\ numTasks' = numTasks /\ Pc(p) \in {"attach", "reserve"}
    BY <1>1 DEF AttachInput
  <2> HIDE DEF local
  <2> QED BY <2>1, <2>2, <2>3, <2>4, EnterStep
<1>2. CASE ReserveTurn(p) /\ active = NoTurn
  <2> DEFINE local == [Rest EXCEPT !.pc = "gather", !.new = numTasks + 1]
  <2>1. numTasks + 1 \in Tasks
    BY <1>0, <1>2, ThreadSorts DEF ReserveTurn, ValuesOK
  <2>2. /\ local \in Locals /\ local.pc \in Starting /\ local.new = numTasks + 1
        /\ local.victims = {} /\ local.victim = NoTask
    BY <2>1 DEF Rest, Locals, PcsOfTask, Starting
  <2>3. /\ Become(p, local) /\ EnterTurn /\ cancelled' = cancelled /\ doomed' = doomed
        /\ numTasks' = numTasks + 1 /\ Pc(p) \in {"attach", "reserve"} /\ turns' = turns
    BY <1>2 DEF ReserveTurn
  <2> HIDE DEF local
  <2> QED BY <2>2, <2>3, EnterStep
<1> QED BY <1>1, <1>2

\* The new task starts in the active turn, and whoever started it returns.
LEMMA LaunchStep ==
    ASSUME TurnsInv, ValuesOK', NEW p \in Threads, LaunchTask(p)
    PROVE  TurnsInv'
<1> DEFINE k == thread[p].new
           born == [Rest EXCEPT !.pc = "spawned", !.own = thread[p].own]
<1>0. /\ ValuesOK /\ ThreadsOK /\ (p \in Tasks <=> p \notin Spawners)
      /\ thread[p].own \subseteq Items
  BY TypeParts, ThreadSorts, LocalType DEF TurnsInv, Threads
<1>1. /\ k \in Tasks /\ Pc(k) = "idle" /\ k # p /\ k \in Threads /\ k \notin Spawners
      /\ Pc(p) = "launch" /\ k <= numTasks
  BY <1>0, LocalType, ThreadSorts DEF LaunchTask, TurnsInv, NewTasksAreUnborn, Starting, Pc
<1>2. /\ born \in Locals /\ born.pc = "spawned" /\ born.new = NoTask /\ born.turn = NoTurn
      /\ born.victims = {} /\ born.victim = NoTask
  BY <1>0 DEF Rest, Locals, PcsOfTask
<1>3. thread' = [thread EXCEPT ![p] = Returned(p), ![k] = born] /\ EnterTurn
  BY DEF LaunchTask
<1> HIDE DEF k, born
<1>a. /\ Returned(p) \in Locals /\ Returned(p).new = NoTask /\ Returned(p).victims = {}
      /\ Returned(p).victim = NoTask /\ Returned(p).turn = NoTurn
      /\ p \in Spawners => Returned(p).pc = "idle"
      /\ p \in Tasks => Returned(p).pc = "done"
  BY RestType
<1>4. /\ thread' \in [Threads -> Locals] /\ thread'[p] = Returned(p) /\ thread'[k] = born
      /\ \A q \in Threads : q # p /\ q # k => thread'[q] = thread[q]
  BY <1>0, <1>1, <1>2, <1>3, <1>a DEF ThreadsOK
<1>5. ThreadsOK'
  <2>1. \A q \in Spawners : thread'[q].pc \in PcsOfSpawner
    BY <1>0, <1>1, <1>4, <1>a, ThreadSorts DEF ThreadsOK, PcsOfSpawner, Pc
  <2>2. \A q \in Tasks : thread'[q].pc \in PcsOfTask
    BY <1>0, <1>1, <1>2, <1>4, <1>a, ThreadSorts DEF ThreadsOK, PcsOfTask, Pc
  <2> QED BY <1>4, <2>1, <2>2 DEF ThreadsOK, Pc
<1>6. /\ TurnHere \in Turns /\ active' = TurnHere /\ numTurns <= numTurns'
      /\ active = NoTurn => TurnHere = numTurns'
      /\ active # NoTurn => TurnHere = active /\ numTurns' = numTurns
  BY <1>0, <1>3, EnterTurnType
<1>7. turns[TurnHere].tasks = ActiveTasks /\ ActiveTasks \subseteq Tasks
  BY <1>0, <1>6, ActiveType, ThreadSorts, SMTT(40) DEF TurnsInv, TasksAreInActiveTurn, ActiveTasks
<1>8. \A t \in Turns : turns'[t].tasks = IF t = TurnHere THEN ActiveTasks \cup {k} ELSE turns[t].tasks
  <2> DEFINE some == ActiveTasks \cup {k}
  <2>1. some \in SUBSET Tasks
    BY <1>1, <1>7
  <2>2. turns' = [turns EXCEPT ![TurnHere].tasks = some]
    BY <1>0, <1>6, <1>7 DEF LaunchTask, ValuesOK, k
  <2> HIDE DEF some
  <2>3. \A t \in Turns : turns'[t].tasks = IF t = TurnHere THEN some ELSE turns[t].tasks
    BY <1>0, <1>6, <2>1, <2>2, TasksType
  <2> QED BY <2>3 DEF some
<1>9. ActiveTasks' = ActiveTasks \cup {k}
  BY <1>6, <1>8, ThreadSorts DEF ActiveTasks
<1>10. cancelled' = cancelled /\ doomed' = doomed /\ numTasks' = numTasks
  BY DEF LaunchTask
<1>11. /\ \A r \in Spawners : k \notin thread[r].victims
       /\ k \notin cancelled
       /\ thread[k].victims = {} /\ thread[k].victim = NoTask /\ thread[k].new = NoTask
       /\ thread[p].victims = {} /\ thread[p].victim = NoTask
  BY <1>1, RestType DEF TurnsInv, UnbornAreUntouched, VictimsAreHeld, Pc
<1>12. \A q \in Threads : /\ thread'[q].victims = thread[q].victims
                          /\ thread'[q].victim = thread[q].victim
                          /\ thread'[q].new \in {NoTask, thread[q].new}
  BY <1>2, <1>4, <1>11, <1>a
<1>13. TypeOK'
  BY <1>5 DEF TypeOK, ValuesOK, ThreadsOK
<1>14. TasksAreInActiveTurn'
  <2>1. active' <= numTurns'
    <3>1. CASE active = NoTurn
      BY <1>6, <3>1, ThreadSorts
    <3>2. CASE active # NoTurn
      BY <1>6, <3>2 DEF TurnsInv, TasksAreInActiveTurn
    <3> QED BY <3>1, <3>2
  <2>2. \A t \in Turns : t # active' => t # active /\ turns'[t].tasks = turns[t].tasks
    BY <1>6, <1>8, ThreadSorts
  <2> QED BY <2>1, <2>2 DEF TurnsInv, TasksAreInActiveTurn
<1>15. \A q \in Tasks : thread'[q].pc = "idle" => q # k /\ q # p /\ thread'[q] = thread[q]
  BY <1>2, <1>4, <1>a, ThreadSorts
<1>16. \A q \in Tasks : Pc(q) = "idle" /\ q # k => thread'[q].pc = "idle"
  BY <1>1, <1>4, ThreadSorts DEF Pc
<1>17. NewTasksAreUnborn'
  <2>1. \A q \in Threads : thread[q].new \in Tasks \cup {NoTask}
    BY <1>0, LocalType
  <2>2. \A q \in Threads : thread'[q].new # NoTask =>
          thread'[q].new <= numTasks' /\ thread'[thread'[q].new].pc = "idle"
    <3> SUFFICES ASSUME NEW q \in Threads, thread'[q].new # NoTask
                 PROVE  thread'[q].new <= numTasks' /\ thread'[thread'[q].new].pc = "idle"
      OBVIOUS
    <3>1. q # p /\ q # k /\ thread'[q].new = thread[q].new /\ thread[q].new \in Tasks
      BY <1>2, <1>4, <1>a, <2>1
    <3>2. thread[q].new # k /\ thread[q].new <= numTasks /\ Pc(thread[q].new) = "idle"
      BY <1>1, <3>1, ThreadSorts DEF TurnsInv, NewTasksAreUnborn, k
    <3> QED BY <1>10, <1>16, <3>1, <3>2
  <2>3. \A q, r \in Threads : q # r /\ thread'[q].new = thread'[r].new
                                => thread'[q].new = NoTask
    BY <1>12 DEF TurnsInv, NewTasksAreUnborn
  <2>4. \A q \in Tasks : q > numTasks' => thread'[q].pc = "idle"
    <3>1. numTasks \in Nat
      BY <1>0 DEF ValuesOK
    <3> QED BY <1>1, <1>10, <1>16, <3>1 DEF TurnsInv, NewTasksAreUnborn
  <2>5. \A q \in Threads : thread'[q].pc \in Starting => q # p /\ q # k
    BY <1>0, <1>2, <1>4, <1>a, ThreadSorts DEF Starting
  <2>6. \A q \in Threads : thread'[q].pc \in Starting => thread'[q].new # NoTask
    BY <1>4, <2>5 DEF TurnsInv, NewTasksAreUnborn, Pc
  <2>7. \A q \in Spawners :
          thread'[q].pc \in {"abort"} \cup Aborting /\ thread'[q].reason = "Replaced"
            => thread'[q].new # NoTask
    BY <1>1, <1>4, <1>a, ThreadSorts DEF TurnsInv, NewTasksAreUnborn, Aborting, Pc
  <2> QED BY <2>2, <2>3, <2>4, <2>6, <2>7 DEF NewTasksAreUnborn, Pc
<1>18. UnbornAreUntouched'
  BY <1>9, <1>10, <1>12, <1>15, ThreadSorts DEF TurnsInv, UnbornAreUntouched, Pc
<1>19. VictimsAreHeld'
  <2>1. \A q \in Threads : /\ thread'[q].victims # {} => thread'[q] = thread[q]
                           /\ thread'[q].victim # NoTask => thread'[q] = thread[q]
                           /\ thread'[q].pc \in Aborting \cup {"grace", "flush input", "clear"}
                                => thread'[q] = thread[q]
    BY <1>0, <1>2, <1>4, <1>a DEF Aborting
  <2> QED BY <1>10, <2>1 DEF TurnsInv, VictimsAreHeld, Pc
<1>20. FinishersAreFree'
  <2>1. \A q \in Tasks : Free(thread'[q]) => q # k /\ Free(thread[q])
    BY <1>2, <1>4, <1>a, ThreadSorts DEF Free, Starting
  <2>2. \A q \in Tasks : Free(thread'[q]) =>
          /\ q \notin cancelled' \cup ActiveTasks'
          /\ \A r \in Spawners : q \notin thread'[r].victims
    BY <1>9, <1>10, <1>12, <2>1, ThreadSorts DEF TurnsInv, FinishersAreFree
  <2>3. \A q \in Tasks : thread'[q].pc \in WorkingPcs \cup {"flushed", "remove"}
                           => thread'[q].turn = NoTurn
    BY <1>2, <1>4, <1>a, ThreadSorts DEF TurnsInv, FinishersAreFree, Working, Pc
  <2> QED BY <2>2, <2>3 DEF FinishersAreFree, Free, Working, Pc
<1>21. TokensFireOnce'
  BY <1>9, <1>10, <1>11, <1>12, ThreadSorts DEF TurnsInv, TokensFireOnce
<1>22. WorkingTasksAreReachable'
  <2>1. \A q \in Tasks : Working(q)' => q = k \/ Working(q)
    BY <1>4, <1>a, ThreadSorts DEF Working, WorkingPcs, Pc
  <2> QED BY <1>9, <1>10, <1>12, <2>1, ThreadSorts DEF TurnsInv, WorkingTasksAreReachable
<1>23. EmptyTurnHasAnOwner'
  BY <1>9 DEF EmptyTurnHasAnOwner
<1> QED BY <1>13, <1>14, <1>17, <1>18, <1>19, <1>20, <1>21, <1>22, <1>23 DEF TurnsInv

(***************************************************************************)
(* Aborts.                                                                 *)
(***************************************************************************)

\* Whoever takes the active turn takes its tasks with it, to abort them.
LEMMA TakeStep ==
    ASSUME TurnsInv, ValuesOK', NEW p \in Spawners, NEW local \in Locals, TakeTurn(p, local),
           Pc(p) \in {"idle", "abort"}, local.victims = {}, local.victim = NoTask,
           local.new \in {NoTask, thread[p].new},
           local.reason = "Replaced" => local.new # NoTask,
           cancelled' = cancelled, doomed' = doomed, numTasks' = numTasks,
           numTurns' = numTurns
    PROVE  TurnsInv'
<1>0. /\ ValuesOK /\ ThreadsOK /\ p \in Threads /\ p \notin Tasks /\ ActiveTasks \subseteq Tasks
  BY TypeParts, ThreadSorts, ActiveType DEF TurnsInv
<1>1. PICK next : Become(p, next) /\ next \in Locals /\ next.pc \in PcsOfSpawner
        /\ next.new \in {NoTask, thread[p].new} /\ next.victim = NoTask
        /\ next.victims = ActiveTasks
        /\ \/ ActiveTasks # {} /\ next.pc = "cancel" /\ next.turn \in Turns
              /\ (next.reason = "Replaced" => next.new # NoTask)
           \/ ActiveTasks = {} /\ next.pc = "gather" /\ next.new # NoTask
           \/ ActiveTasks = {} /\ next.pc = "idle"
  <2>1. CASE ActiveTasks # {}
    <3> DEFINE l == [local EXCEPT !.pc = "cancel", !.turn = active, !.victims = ActiveTasks]
    <3>1. active \in Turns
      BY <1>0, <2>1, ActiveType
    <3>2. /\ l \in Locals /\ l.pc = "cancel" /\ l.turn \in Turns /\ l.victims = ActiveTasks
          /\ l.victim = NoTask /\ l.new = local.new /\ l.reason = local.reason
      BY <1>0, <3>1 DEF Locals, PcsOfSpawner
    <3>3. Become(p, l)
      BY <2>1 DEF TakeTurn
    <3> HIDE DEF l
    <3> QED BY <2>1, <3>2, <3>3 DEF PcsOfSpawner
  <2>2. CASE ActiveTasks = {} /\ local.new # NoTask
    <3> DEFINE l == [local EXCEPT !.pc = "gather", !.turn = active, !.victims = {}]
    <3>1. active \in Turns \cup {NoTurn}
      BY <1>0 DEF ValuesOK
    <3>2. /\ l \in Locals /\ l.pc = "gather" /\ l.victims = {}
          /\ l.victim = NoTask /\ l.new = local.new
      BY <1>0, <3>1 DEF Locals, PcsOfSpawner
    <3>3. Become(p, l)
      BY <2>2 DEF TakeTurn
    <3> HIDE DEF l
    <3> QED BY <2>2, <3>2, <3>3 DEF PcsOfSpawner
  <2>3. CASE ActiveTasks = {} /\ local.new = NoTask
    <3>1. Become(p, Returned(p))
      BY <2>3 DEF TakeTurn
    <3> QED BY <1>0, <2>3, <3>1, RestType DEF PcsOfSpawner
  <2> QED BY <2>1, <2>2, <2>3
<1>2. /\ ThreadsOK' /\ thread'[p] = next
      /\ \A q \in Threads : q # p => thread'[q] = thread[q]
  BY <1>0, <1>1, BecomeType
<1>3. active' = NoTurn /\ ActiveTasks' = {}
  BY DEF TakeTurn, ActiveTasks
<1>4. \A t \in Turns : turns'[t].tasks = {}
  <2>1. CASE active = NoTurn
    BY <2>1, ThreadSorts DEF TakeTurn, TurnsInv, TasksAreInActiveTurn
  <2>2. CASE active # NoTurn
    <3>1. active \in Turns /\ {} \in SUBSET Tasks
      BY <1>0, <2>2, ActiveType
    <3>2. turns' = [turns EXCEPT ![active].tasks = {}]
      BY <2>2 DEF TakeTurn
    <3>3. \A t \in Turns : turns'[t].tasks = IF t = active THEN {} ELSE turns[t].tasks
      BY <1>0, <3>1, <3>2, TasksType, ZenonT(60)
    <3> QED BY <3>3 DEF TurnsInv, TasksAreInActiveTurn
  <2> QED BY <2>1, <2>2
<1>5. thread[p].victims = {} /\ thread[p].victim = NoTask
  BY <1>0 DEF TurnsInv, VictimsAreHeld, Pc
<1>6. \A q \in Threads : /\ thread'[q].victim = thread[q].victim
                         /\ thread'[q].new \in {NoTask, thread[q].new}
                         /\ thread'[q].victims = IF q = p THEN ActiveTasks ELSE thread[q].victims
  BY <1>1, <1>2, <1>5
<1>7. \A k \in Tasks : thread'[k] = thread[k]
  BY <1>0, <1>2, ThreadSorts
<1>8. TypeOK'
  BY <1>2 DEF TypeOK, ValuesOK, ThreadsOK
<1>9. TasksAreInActiveTurn'
  BY <1>0, <1>3, <1>4 DEF TasksAreInActiveTurn, ValuesOK
<1>10. NewTasksAreUnborn'
  <2>1. \A q \in Threads : thread[q].new \in Tasks \cup {NoTask}
    BY <1>0, LocalType
  <2>2. \A q \in Threads : thread'[q].new # NoTask =>
          thread'[q].new <= numTasks' /\ thread'[thread'[q].new].pc = "idle"
    BY <1>6, <1>7, <2>1 DEF TurnsInv, NewTasksAreUnborn, Pc
  <2>3. \A q, r \in Threads : q # r /\ thread'[q].new = thread'[r].new
                                => thread'[q].new = NoTask
    BY <1>6 DEF TurnsInv, NewTasksAreUnborn
  <2>4. \A q \in Tasks : q > numTasks' => thread'[q].pc = "idle"
    BY <1>7 DEF TurnsInv, NewTasksAreUnborn, Pc
  <2>5. \A q \in Threads : thread'[q].pc \in Starting => thread'[q].new # NoTask
    BY <1>1, <1>2 DEF TurnsInv, NewTasksAreUnborn, Starting, Pc
  <2>6. \A q \in Spawners :
          thread'[q].pc \in {"abort"} \cup Aborting /\ thread'[q].reason = "Replaced"
            => thread'[q].new # NoTask
    BY <1>1, <1>2, ThreadSorts, ZenonT(60) DEF TurnsInv, NewTasksAreUnborn, Aborting, Pc
  <2> QED BY <2>2, <2>3, <2>4, <2>5, <2>6 DEF NewTasksAreUnborn, Pc
<1>11. UnbornAreUntouched'
  BY <1>3, <1>6, <1>7, ThreadSorts DEF TurnsInv, UnbornAreUntouched, Pc
<1>12. VictimsAreHeld'
  <2>1. \A q \in Threads : thread'[q].victims # {} =>
          q \in Spawners /\ thread'[q].pc \in {"cancel", "grace"}
    BY <1>1, <1>2 DEF TurnsInv, VictimsAreHeld, Pc
  <2>2. \A q \in Threads : /\ thread'[q].victim # NoTask =>
                                thread'[q].pc = "grace" /\ thread'[q].victim \in cancelled'
                           /\ thread'[q].pc = "grace" => thread'[q].victim # NoTask
    BY <1>1, <1>2 DEF TurnsInv, VictimsAreHeld, Pc
  <2>3. \A q \in Threads : thread'[q].pc \in Aborting \cup {"flush input", "clear"}
                             => thread'[q].turn # NoTurn
    <3>1. NoTurn \notin Turns
      BY ThreadSorts
    <3>2. next.pc \in Aborting \cup {"flush input", "clear"} => next.turn # NoTurn
      BY <1>1, <3>1 DEF Aborting
    <3> QED BY <1>2, <3>2 DEF TurnsInv, VictimsAreHeld, Pc
  <2> QED BY <2>1, <2>2, <2>3 DEF VictimsAreHeld, Pc
<1>13. FinishersAreFree'
  <2>1. \A q \in Tasks : Free(thread'[q]) =>
          /\ q \notin cancelled' \cup ActiveTasks'
          /\ \A r \in Spawners : q \notin thread'[r].victims
    BY <1>3, <1>6, <1>7, ThreadSorts DEF TurnsInv, FinishersAreFree
  <2>2. \A q \in Tasks : thread'[q].pc \in WorkingPcs \cup {"flushed", "remove"}
                           => thread'[q].turn = NoTurn
    BY <1>7 DEF TurnsInv, FinishersAreFree, Working, Pc
  <2> QED BY <2>1, <2>2 DEF FinishersAreFree, Free, Working, Pc
<1>14. TokensFireOnce'
  BY <1>3, <1>6, ThreadSorts DEF TurnsInv, TokensFireOnce, Spawners
<1>15. WorkingTasksAreReachable'
  <2>1. \A q \in Tasks : Working(q)' <=> Working(q)
    BY <1>7 DEF Working, Pc
  <2>2. \A q \in Spawners : thread[q].victims \subseteq thread'[q].victims
    BY <1>5, <1>6, ThreadSorts
  <2>3. ActiveTasks \subseteq thread'[p].victims
    BY <1>0, <1>6
  <2> QED BY <1>6, <2>1, <2>2, <2>3, ThreadSorts DEF TurnsInv, WorkingTasksAreReachable
<1>16. EmptyTurnHasAnOwner'
  BY <1>3 DEF EmptyTurnHasAnOwner
<1> QED BY <1>8, <1>9, <1>10, <1>11, <1>12, <1>13, <1>14, <1>15, <1>16 DEF TurnsInv

\* abort_all_tasks and abort_turn_if_active take the turn.
LEMMA TakeSteps ==
    ASSUME TurnsInv, ValuesOK', AbortAllTasks \/ \E k \in Tasks : AbortTurnIfActive(k)
    PROVE  TurnsInv'
<1>0. /\ ThreadsOK /\ Loop \in Spawners /\ Guardian \in Spawners /\ Loop \in Threads
      /\ thread[Loop] \in Locals
  BY TypeParts, ThreadSorts, LocalType DEF TurnsInv, Spawners
<1>1. CASE AbortAllTasks
  <2>1. /\ Pc(Loop) = "abort" /\ TakeTurn(Loop, thread[Loop])
        /\ cancelled' = cancelled /\ doomed' = doomed /\ numTasks' = numTasks
        /\ numTurns' = numTurns
    BY <1>1 DEF AbortAllTasks
  <2>2. /\ thread[Loop].victims = {} /\ thread[Loop].victim = NoTask
        /\ thread[Loop].reason = "Replaced" => thread[Loop].new # NoTask
    BY <1>0, <2>1 DEF TurnsInv, VictimsAreHeld, NewTasksAreUnborn, Pc
  <2> QED BY <1>0, <2>1, <2>2, TakeStep
<1>2. ASSUME NEW k \in Tasks, AbortTurnIfActive(k) PROVE TurnsInv'
  <2> DEFINE local == [Rest EXCEPT !.reason = "Interrupted"]
  <2>1. /\ local \in Locals /\ local.new = NoTask /\ local.victims = {}
        /\ local.victim = NoTask /\ local.reason = "Interrupted"
    BY DEF Rest, Locals, PcsOfSpawner
  <2>2. /\ Pc(Guardian) = "idle" /\ TakeTurn(Guardian, local)
        /\ cancelled' = cancelled /\ doomed' = doomed /\ numTasks' = numTasks
        /\ numTurns' = numTurns
    BY <1>2 DEF AbortTurnIfActive
  <2> HIDE DEF local
  <2> QED BY <1>0, <2>1, <2>2, TakeStep
<1> QED BY <1>1, <1>2

\* handle_task_abort up to its wait, and after it, as a change of the thread's
\* locals.
Fires(p, k, next) ==
    /\ Pc(p) = "cancel" /\ next.pc = "grace"
    /\ k \in thread[p].victims
    /\ cancelled' = cancelled \cup {k} /\ doomed' = doomed
    /\ next.victim = k /\ next.victims = thread[p].victims \ {k}

Kills(p, k, next) ==
    /\ Pc(p) = "grace" /\ next.victim = NoTask /\ k = thread[p].victim
    /\ cancelled' = cancelled /\ doomed' = doomed \cup {k}
    /\ next.victims = thread[p].victims
    /\ next.pc = IF thread[p].victims = {} THEN "clear pending" ELSE "cancel"

\* Firing a token and aborting a handle move a task along the abort.
LEMMA AbortSteps ==
    ASSUME TurnsInv, ValuesOK', NEW p \in Spawners,
           (\E k \in Tasks : CancelVictim(p, k)) \/ KillVictim(p)
    PROVE  TurnsInv'
<1>0. /\ ValuesOK /\ ThreadsOK /\ p \in Threads /\ p \notin Tasks /\ thread[p] \in Locals
      /\ thread[p].victims \subseteq Tasks /\ thread[p].victim \in Tasks \cup {NoTask}
  BY TypeParts, ThreadSorts, LocalType DEF TurnsInv
<1>1. PICK k \in Tasks, next \in Locals :
        /\ Become(p, next) /\ next.new = thread[p].new /\ next.turn = thread[p].turn
        /\ next.reason = thread[p].reason
        /\ Fires(p, k, next) \/ Kills(p, k, next)
  <2>1. ASSUME NEW k \in Tasks, CancelVictim(p, k)
        PROVE  \E l \in Locals :
                 /\ Become(p, l) /\ l.new = thread[p].new /\ l.turn = thread[p].turn
                 /\ l.reason = thread[p].reason /\ Fires(p, k, l)
    <3> DEFINE rest == thread[p].victims \ {k}
    <3>1. rest \in SUBSET Tasks
      BY <1>0
    <3>2. /\ Become(p, [thread[p] EXCEPT !.pc = "grace", !.victim = k, !.victims = rest])
          /\ Pc(p) = "cancel" /\ k \in thread[p].victims
          /\ cancelled' = cancelled \cup {k} /\ doomed' = doomed
      BY <1>0, <2>1 DEF CancelVictim, Locals
    <3> DEFINE l == [thread[p] EXCEPT !.pc = "grace", !.victim = k, !.victims = rest]
    <3> HIDE DEF rest
    <3>3. /\ l \in Locals /\ l.new = thread[p].new /\ l.turn = thread[p].turn
          /\ l.reason = thread[p].reason /\ l.pc = "grace" /\ l.victim = k /\ l.victims = rest
      BY <1>0, <3>1 DEF Locals, PcsOfSpawner
    <3>4. Become(p, l)
      BY <3>2
    <3> HIDE DEF l
    <3>5. Fires(p, k, l)
      BY <3>2, <3>3 DEF Fires, rest
    <3> QED BY <3>3, <3>4, <3>5
  <2>2. CASE KillVictim(p)
    <3> DEFINE pc == IF thread[p].victims = {} THEN "clear pending" ELSE "cancel"
               l == [thread[p] EXCEPT !.victim = NoTask, !.pc = pc]
    <3>1. pc \in PcsOfSpawner
      BY DEF PcsOfSpawner
    <3>2. /\ Pc(p) = "grace" /\ thread[p].victim \in Tasks
          /\ Become(p, l) /\ cancelled' = cancelled
          /\ doomed' = doomed \cup {thread[p].victim}
      BY <1>0, <2>2 DEF KillVictim, TurnsInv, VictimsAreHeld, Pc
    <3> HIDE DEF pc
    <3>3. /\ l \in Locals /\ l.new = thread[p].new /\ l.turn = thread[p].turn
          /\ l.reason = thread[p].reason /\ l.pc = pc /\ l.victim = NoTask
          /\ l.victims = thread[p].victims
      BY <1>0, <3>1 DEF Locals
    <3> HIDE DEF l
    <3>4. Kills(p, thread[p].victim, l)
      BY <3>2, <3>3 DEF Kills, pc
    <3> QED BY <3>2, <3>3, <3>4
  <2> QED BY <2>1, <2>2
<1>2. next.pc \in PcsOfSpawner /\ next.pc \in Aborting /\ Pc(p) \in Aborting
  BY <1>1 DEF PcsOfSpawner, Aborting, Fires, Kills
<1>3. /\ ThreadsOK' /\ thread'[p] = next
      /\ \A q \in Threads : q # p => thread'[q] = thread[q]
  BY <1>0, <1>1, <1>2, BecomeType
<1>5. /\ active' = active /\ turns' = turns /\ numTasks' = numTasks /\ numTurns' = numTurns
  BY DEF CancelVictim, KillVictim
<1>6. ActiveTasks' = ActiveTasks
  BY <1>5 DEF ActiveTasks
<1>7. \A q \in Tasks : thread'[q] = thread[q]
  BY <1>0, <1>3, ThreadSorts
<1>8. \A q \in Threads : /\ thread'[q].new = thread[q].new
                         /\ thread'[q].victims \subseteq thread[q].victims
  BY <1>1, <1>3 DEF Fires, Kills
<1>9. cancelled \subseteq cancelled' /\ doomed \subseteq doomed'
  BY <1>1 DEF Fires, Kills
<1>10. TypeOK'
  BY <1>3 DEF TypeOK, ValuesOK, ThreadsOK
<1>11. TasksAreInActiveTurn'
  BY <1>5 DEF TurnsInv, TasksAreInActiveTurn
<1>12. NewTasksAreUnborn'
  <2>1. \A q \in Threads : thread[q].new \in Tasks \cup {NoTask}
    BY <1>0, LocalType
  <2>2. \A q \in Threads : thread'[q].new # NoTask =>
          thread'[q].new <= numTasks' /\ thread'[thread'[q].new].pc = "idle"
    BY <1>5, <1>7, <1>8, <2>1 DEF TurnsInv, NewTasksAreUnborn, Pc
  <2>3. \A q, r \in Threads : q # r /\ thread'[q].new = thread'[r].new
                                => thread'[q].new = NoTask
    BY <1>8 DEF TurnsInv, NewTasksAreUnborn
  <2>4. \A q \in Tasks : q > numTasks' => thread'[q].pc = "idle"
    BY <1>5, <1>7 DEF TurnsInv, NewTasksAreUnborn, Pc
  <2>5. \A q \in Threads : thread'[q].pc \in Starting => thread'[q].new # NoTask
    BY <1>2, <1>3 DEF TurnsInv, NewTasksAreUnborn, Starting, Aborting, Pc
  <2>6. \A q \in Spawners :
          thread'[q].pc \in {"abort"} \cup Aborting /\ thread'[q].reason = "Replaced"
            => thread'[q].new # NoTask
    <3>1. thread[p].reason = "Replaced" => thread[p].new # NoTask
      BY <1>2 DEF TurnsInv, NewTasksAreUnborn
    <3> QED BY <1>1, <1>3, <3>1, ThreadSorts DEF TurnsInv, NewTasksAreUnborn, Pc
  <2> QED BY <2>2, <2>3, <2>4, <2>5, <2>6 DEF NewTasksAreUnborn, Pc
<1>13. UnbornAreUntouched'
  <2>1. \A q \in Tasks : Pc(q) = "idle" => q \notin cancelled'
    BY <1>1, ThreadSorts DEF TurnsInv, UnbornAreUntouched, Fires, Kills
  <2> QED BY <1>6, <1>7, <1>8, <2>1, ThreadSorts DEF TurnsInv, UnbornAreUntouched, Pc
<1>14. VictimsAreHeld'
  <2>1. \A q \in Threads : thread'[q].victims # {} =>
          q \in Spawners /\ thread'[q].pc \in {"cancel", "grace"}
    BY <1>1, <1>3 DEF TurnsInv, VictimsAreHeld, Pc, Fires, Kills
  <2>2. \A q \in Threads : /\ thread'[q].victim # NoTask =>
                                thread'[q].pc = "grace" /\ thread'[q].victim \in cancelled'
                           /\ thread'[q].pc = "grace" => thread'[q].victim # NoTask
    <3>1. NoTask \notin Tasks
      BY ThreadSorts
    <3>2. /\ next.victim # NoTask => next.pc = "grace" /\ next.victim \in cancelled'
          /\ next.pc = "grace" => next.victim # NoTask
      BY <1>1, <3>1 DEF Fires, Kills
    <3>3. \A q \in Threads : q # p =>
            /\ thread'[q] = thread[q]
            /\ thread[q].victim # NoTask => thread[q].pc = "grace" /\ thread[q].victim \in cancelled
            /\ thread[q].pc = "grace" => thread[q].victim # NoTask
      BY <1>3 DEF TurnsInv, VictimsAreHeld, Pc
    <3> QED BY <1>3, <1>9, <3>2, <3>3
  <2>3. \A q \in Threads : thread'[q].pc \in Aborting \cup {"flush input", "clear"}
                             => thread'[q].turn # NoTurn
    BY <1>1, <1>2, <1>3 DEF TurnsInv, VictimsAreHeld, Pc
  <2> QED BY <2>1, <2>2, <2>3 DEF VictimsAreHeld, Pc
<1>15. FinishersAreFree'
  <2>1. \A q \in Tasks : Free(thread'[q]) => q \notin cancelled'
    BY <1>1, <1>7, ThreadSorts DEF TurnsInv, FinishersAreFree, Fires, Kills
  <2>2. \A q \in Tasks : Free(thread'[q]) =>
          /\ q \notin cancelled' \cup ActiveTasks'
          /\ \A r \in Spawners : q \notin thread'[r].victims
    BY <1>6, <1>7, <1>8, <2>1, ThreadSorts DEF TurnsInv, FinishersAreFree
  <2>3. \A q \in Tasks : thread'[q].pc \in WorkingPcs \cup {"flushed", "remove"}
                           => thread'[q].turn = NoTurn
    BY <1>7 DEF TurnsInv, FinishersAreFree, Working, Pc
  <2> QED BY <2>2, <2>3 DEF FinishersAreFree, Free, Working, Pc
<1>16. TokensFireOnce'
  <2>1. \A q \in Spawners : thread'[q].victims \cap (cancelled' \cup ActiveTasks') = {}
    <3> SUFFICES ASSUME NEW q \in Spawners
                 PROVE  thread'[q].victims \cap (cancelled' \cup ActiveTasks') = {}
      OBVIOUS
    <3>1. thread[q].victims \cap (cancelled \cup ActiveTasks) = {}
      BY DEF TurnsInv, TokensFireOnce
    <3>2. CASE Fires(p, k, next)
      <4>1. q = p => k \notin thread'[q].victims
        BY <1>3, <3>2 DEF Fires
      <4>2. q # p => thread[q].victims \cap thread[p].victims = {}
        BY DEF TurnsInv, TokensFireOnce, Spawners
      <4>3. k \notin thread'[q].victims
        BY <1>8, <3>2, <4>1, <4>2, ThreadSorts DEF Fires
      <4> QED BY <1>6, <1>8, <3>1, <3>2, <4>3, ThreadSorts DEF Fires
    <3>3. CASE Kills(p, k, next)
      BY <1>6, <1>8, <3>1, <3>3, ThreadSorts DEF Kills
    <3> QED BY <1>1, <3>2, <3>3
  <2>2. thread'[Loop].victims \cap thread'[Guardian].victims = {}
    BY <1>8, ThreadSorts DEF TurnsInv, TokensFireOnce
  <2>3. ActiveTasks' \cap cancelled' = {}
    BY <1>1, <1>6 DEF TurnsInv, TokensFireOnce, Fires, Kills
  <2> QED BY <2>1, <2>2, <2>3 DEF TokensFireOnce
<1>17. WorkingTasksAreReachable'
  <2>1. \A q \in Tasks : Working(q)' <=> Working(q)
    BY <1>7 DEF Working, Pc
  <2>2. \A q \in Tasks : q \in thread[p].victims \cup {thread[p].victim} =>
          q \in doomed' \cup thread'[p].victims \cup {thread'[p].victim}
    <3>1. CASE Pc(p) = "cancel"
      <4>1. thread[p].victim = NoTask
        BY <1>0, <3>1 DEF TurnsInv, VictimsAreHeld
      <4>2. NoTask \notin Tasks
        BY ThreadSorts
      <4> QED BY <1>1, <1>3, <3>1, <4>1, <4>2 DEF Fires, Kills
    <3>2. CASE Pc(p) = "grace"
      BY <1>1, <1>3, <3>2 DEF Fires, Kills
    <3> QED BY <1>1, <3>1, <3>2 DEF Fires, Kills
  <2>3. \A q \in Spawners : q # p => thread'[q] = thread[q]
    BY <1>3, ThreadSorts
  <2> QED BY <1>6, <1>9, <2>1, <2>2, <2>3 DEF TurnsInv, WorkingTasksAreReachable
<1>18. EmptyTurnHasAnOwner'
  <2> SUFFICES ASSUME active # NoTurn, ActiveTasks = {}
               PROVE  \E q \in Threads :
                        \/ thread'[q].pc \in Starting
                        \/ thread'[q].pc \in Finishing /\ thread'[q].turn = active
    BY <1>5, <1>6 DEF EmptyTurnHasAnOwner, Pc
  <2>1. PICK q \in Threads : \/ Pc(q) \in Starting
                             \/ Pc(q) \in Finishing /\ thread[q].turn = active
    BY DEF TurnsInv, EmptyTurnHasAnOwner
  <2>2. q # p
    BY <1>2, <2>1 DEF Starting, Finishing, Aborting
  <2> QED BY <1>3, <2>1, <2>2 DEF Pc
<1> QED BY <1>10, <1>11, <1>12, <1>13, <1>14, <1>15, <1>16, <1>17, <1>18 DEF TurnsInv

\* A user message that finds no task reserves the next one and aborts first.
LEMMA SpawnStep ==
    ASSUME TurnsInv, ValuesOK', NEW i \in Items, UserInputSpawns(i)
    PROVE  TurnsInv'
<1>0. /\ ValuesOK /\ ThreadsOK /\ Loop \in Threads /\ Loop \notin Tasks /\ Loop \in Spawners
      /\ thread[Loop] \in Locals
  BY TypeParts, ThreadSorts, LocalType DEF TurnsInv, Spawners
<1> DEFINE next == [Rest EXCEPT !.pc = "abort", !.own = {i}, !.new = numTasks + 1]
<1>1. numTasks + 1 \in Tasks /\ numTasks \in Nat
  BY <1>0, ThreadSorts DEF UserInputSpawns, ValuesOK
<1>2. /\ next \in Locals /\ next.pc = "abort" /\ next.new = numTasks + 1
      /\ next.victims = {} /\ next.victim = NoTask
  BY <1>1 DEF Rest, Locals, PcsOfSpawner
<1>3. /\ Pc(Loop) = "idle" /\ Become(Loop, next) /\ numTasks' = numTasks + 1
      /\ active' = active /\ turns' = turns /\ cancelled' = cancelled /\ doomed' = doomed
      /\ numTurns' = numTurns
  BY DEF UserInputSpawns
<1> HIDE DEF next
<1>4. /\ ThreadsOK' /\ thread'[Loop] = next
      /\ \A q \in Threads : q # Loop => thread'[q] = thread[q]
  BY <1>0, <1>2, <1>3, BecomeType DEF PcsOfSpawner
<1>5. ActiveTasks' = ActiveTasks
  BY <1>3 DEF ActiveTasks
<1>6. \A q \in Tasks : thread'[q] = thread[q]
  BY <1>0, <1>4, ThreadSorts
<1>7. thread[Loop].victims = {} /\ thread[Loop].victim = NoTask
  BY <1>0, <1>3 DEF TurnsInv, VictimsAreHeld, Pc
<1>8. \A q \in Threads : /\ thread'[q].victims = thread[q].victims
                         /\ thread'[q].victim = thread[q].victim
  BY <1>2, <1>4, <1>7
<1>9. TypeOK'
  BY <1>4 DEF TypeOK, ValuesOK, ThreadsOK
<1>10. TasksAreInActiveTurn'
  BY <1>3 DEF TurnsInv, TasksAreInActiveTurn
<1>11. NewTasksAreUnborn'
  <2>1. \A q \in Threads : thread[q].new \in Tasks \cup {NoTask}
    BY <1>0, LocalType
  <2>2. \A q \in Threads : q # Loop /\ thread[q].new # NoTask => thread[q].new <= numTasks
    BY DEF TurnsInv, NewTasksAreUnborn
  <2>3. thread'[numTasks + 1].pc = "idle"
    BY <1>1, <1>6 DEF TurnsInv, NewTasksAreUnborn, Pc
  <2>4. \A q \in Threads : thread'[q].new # NoTask =>
          thread'[q].new <= numTasks' /\ thread'[thread'[q].new].pc = "idle"
    <3> SUFFICES ASSUME NEW q \in Threads, thread'[q].new # NoTask
                 PROVE  thread'[q].new <= numTasks' /\ thread'[thread'[q].new].pc = "idle"
      OBVIOUS
    <3>1. CASE q = Loop
      BY <1>1, <1>2, <1>3, <1>4, <2>3, <3>1
    <3>2. CASE q # Loop
      <4>1. thread'[q] = thread[q] /\ thread[q].new \in Tasks
        BY <1>4, <2>1, <3>2
      <4>2. thread[q].new <= numTasks /\ Pc(thread[q].new) = "idle"
        BY <4>1 DEF TurnsInv, NewTasksAreUnborn
      <4> QED BY <1>1, <1>3, <1>6, <4>1, <4>2 DEF Pc
    <3> QED BY <3>1, <3>2
  <2>5. \A q, r \in Threads : q # r /\ thread'[q].new = thread'[r].new
                                => thread'[q].new = NoTask
    <3>1. \A q \in Threads : q # Loop => thread'[q].new # numTasks + 1
      BY <1>1, <1>4, <2>1, <2>2
    <3> QED BY <1>2, <1>4, <3>1 DEF TurnsInv, NewTasksAreUnborn
  <2>6. \A q \in Tasks : q > numTasks' => thread'[q].pc = "idle"
    BY <1>1, <1>3, <1>6 DEF TurnsInv, NewTasksAreUnborn, Pc
  <2>7. \A q \in Threads : thread'[q].pc \in Starting => thread'[q].new # NoTask
    BY <1>2, <1>4 DEF TurnsInv, NewTasksAreUnborn, Starting, Pc
  <2>8. \A q \in Spawners :
          thread'[q].pc \in {"abort"} \cup Aborting /\ thread'[q].reason = "Replaced"
            => thread'[q].new # NoTask
    BY <1>1, <1>2, <1>4, ThreadSorts DEF TurnsInv, NewTasksAreUnborn, Pc
  <2> QED BY <2>4, <2>5, <2>6, <2>7, <2>8 DEF NewTasksAreUnborn, Pc
<1>12. UnbornAreUntouched'
  BY <1>3, <1>5, <1>6, <1>8, ThreadSorts DEF TurnsInv, UnbornAreUntouched, Pc
<1>13. VictimsAreHeld'
  <2>1. \A q \in Threads : /\ thread'[q].victims # {} => thread'[q] = thread[q]
                           /\ thread'[q].victim # NoTask => thread'[q] = thread[q]
                           /\ thread'[q].pc \in Aborting \cup {"grace", "flush input", "clear"}
                                => thread'[q] = thread[q]
    BY <1>2, <1>4 DEF Aborting
  <2> QED BY <1>3, <2>1 DEF TurnsInv, VictimsAreHeld, Pc
<1>14. FinishersAreFree'
  BY <1>3, <1>5, <1>6, <1>8, ThreadSorts DEF TurnsInv, FinishersAreFree, Free, Working, Pc
<1>15. TokensFireOnce' /\ WorkingTasksAreReachable'
  BY <1>3, <1>5, <1>6, <1>8, ThreadSorts
     DEF TurnsInv, TokensFireOnce, WorkingTasksAreReachable, Working, Pc
<1>16. EmptyTurnHasAnOwner'
  <2> SUFFICES ASSUME active # NoTurn, ActiveTasks = {}
               PROVE  \E q \in Threads :
                        \/ thread'[q].pc \in Starting
                        \/ thread'[q].pc \in Finishing /\ thread'[q].turn = active
    BY <1>3, <1>5 DEF EmptyTurnHasAnOwner, Pc
  <2>1. PICK q \in Threads : \/ Pc(q) \in Starting
                             \/ Pc(q) \in Finishing /\ thread[q].turn = active
    BY DEF TurnsInv, EmptyTurnHasAnOwner
  <2>2. q # Loop
    BY <1>3, <2>1 DEF Starting, Finishing
  <2> QED BY <1>4, <2>1, <2>2 DEF Pc
<1> QED BY <1>9, <1>10, <1>11, <1>12, <1>13, <1>14, <1>15, <1>16 DEF TurnsInv

(***************************************************************************)
(* The invariant of the turns.                                             *)
(***************************************************************************)

\* A session starts without a turn and without tasks.
LEMMA InitInv == Init => TurnsInv
<1> SUFFICES ASSUME Init PROVE TurnsInv
  OBVIOUS
<1>1. TypeOK
  BY InitType
<1>2. /\ \A p \in Threads : thread[p] = Rest
      /\ ActiveTasks = {} /\ cancelled = {} /\ active = NoTurn /\ numTurns = 0 /\ numTasks = 0
      /\ \A t \in Turns : turns[t].tasks = {}
  BY DEF Init, ActiveTasks, FreshTurn
<1>3. \A p \in Threads : /\ Pc(p) = "idle" /\ thread[p].new = NoTask
                         /\ thread[p].victims = {} /\ thread[p].victim = NoTask
  BY <1>2, RestType DEF Pc
<1>4. TasksAreInActiveTurn /\ NewTasksAreUnborn /\ UnbornAreUntouched
  <2>1. TasksAreInActiveTurn
    BY <1>2 DEF TasksAreInActiveTurn
  <2>2. NewTasksAreUnborn
    BY <1>2, <1>3, ThreadSorts DEF NewTasksAreUnborn, Starting, Aborting
  <2>3. UnbornAreUntouched
    BY <1>2, <1>3, ThreadSorts DEF UnbornAreUntouched
  <2> QED BY <2>1, <2>2, <2>3
<1>5. VictimsAreHeld /\ FinishersAreFree
  BY <1>2, <1>3, ThreadSorts
     DEF VictimsAreHeld, FinishersAreFree, Free, Working, WorkingPcs, Starting, Aborting, Pc
<1>6. TokensFireOnce /\ WorkingTasksAreReachable /\ EmptyTurnHasAnOwner
  BY <1>2, <1>3, ThreadSorts
     DEF TokensFireOnce, WorkingTasksAreReachable, EmptyTurnHasAnOwner, Working, WorkingPcs
<1> QED BY <1>1, <1>4, <1>5, <1>6 DEF TurnsInv

\* Starting a task keeps the invariant.
LEMMA StartInv ==
    ASSUME TurnsInv, ValuesOK', NEW p \in Threads, StartStep(p)
    PROVE  TurnsInv'
<1>1. CASE CheckPendingWork(p) \/ TakeQueuedItems(p) \/ GatherPending(p) \/ GatherMail(p)
  BY <1>1, GatherSteps
<1>2. CASE ReserveTurn(p)
  BY <1>2, GatherSteps, EnterSteps
<1>3. CASE AttachInput(p)
  BY <1>3, EnterSteps
<1>4. CASE LaunchTask(p)
  BY <1>4, LaunchStep
<1> QED BY <1>1, <1>2, <1>3, <1>4 DEF StartStep

\* Every step keeps it.
LEMMA StepInv == TurnsInv /\ [Next]_vars => TurnsInv'
<1> SUFFICES ASSUME TurnsInv, [Next]_vars PROVE TurnsInv'
  OBVIOUS
<1>0. TypeOK /\ VictimsAreHeld /\ NewTasksAreUnborn
  BY DEF TurnsInv
<1>1. CASE Input
  <2>0. ValuesOK'
    BY <1>0, <1>1, InputValues
  <2>1. ASSUME NEW i \in Items, Steer(i) \/ UserInputSteered(i) \/ Approve(i) \/ Inject(i)
        PROVE  TurnsInv'
    BY <2>0, <2>1, LoopSteps
  <2>2. ASSUME NEW i \in Items, UserInputSpawns(i) PROVE TurnsInv'
    BY <2>0, <2>2, SpawnStep
  <2>3. ASSUME NEW i \in TriggerMail \cup PlainMail, Mail(i) PROVE TurnsInv'
    BY <2>0, <2>3, LoopSteps
  <2>4. CASE Interrupt
    BY <2>0, <2>4, LoopSteps
  <2>5. ASSUME NEW k \in Tasks, AbortTurnIfActive(k) PROVE TurnsInv'
    BY <2>0, <2>5, TakeSteps
  <2> QED BY <1>1, <2>1, <2>2, <2>3, <2>4, <2>5 DEF Input, Items, Fresh
<1>2. ASSUME NEW p \in Spawners, SpawnerStep(p) PROVE TurnsInv'
  <2>0. p \in Threads
    BY ThreadSorts
  <2>1. CASE p = Loop /\ (QueueForNextTurn \/ AbortAllTasks)
    <3>1. ValuesOK'
      BY <1>0, <2>1, AbortValues
    <3> QED BY <2>1, <3>1, LoopSteps, TakeSteps
  <2>2. ASSUME NEW k \in Tasks, CancelVictim(p, k) PROVE TurnsInv'
    <3>1. ValuesOK'
      BY <1>0, <2>2, AbortValues
    <3> QED BY <2>2, <3>1, AbortSteps
  <2>3. CASE KillVictim(p)
    <3>1. ValuesOK'
      BY <1>0, <2>3, AbortValues
    <3> QED BY <2>3, <3>1, AbortSteps
  <2>4. CASE ClearPending(p)
    <3>1. ValuesOK'
      BY <1>0, <2>4, AbortValues
    <3> QED BY <2>4, <3>1, LoopSteps
  <2>5. CASE StartStep(p)
    BY <1>0, <2>0, <2>5, StartValues, StartInv
  <2> QED BY <1>2, <2>1, <2>2, <2>3, <2>4, <2>5 DEF SpawnerStep
<1>3. ASSUME NEW k \in Tasks, TaskStep(k) \/ ModelStep(k) PROVE TurnsInv'
  <2>0. ValuesOK' /\ k \in Threads
    BY <1>0, <1>3, TaskValues, ThreadSorts
  <2>1. CASE TurnStep(k)
    BY <2>0, <2>1, TurnSteps
  <2>2. CASE DeferMailbox(k) \/ ReopenMailbox(k)
    BY <2>0, <2>2, MailPhaseSteps
  <2>3. CASE RecordLeftovers(k) \/ CompleteTurn(k) \/ Die(k)
    BY <2>0, <2>3, EndSteps
  <2>4. CASE RemoveTask(k)
    BY <2>0, <2>4, RemoveStep
  <2>5. CASE ClearTurn(k)
    BY <2>0, <2>5, EndSteps, ClearStep
  <2>6. CASE StartStep(k)
    BY <2>0, <2>6, StartInv
  <2> QED BY <1>3, <2>1, <2>2, <2>3, <2>4, <2>5, <2>6 DEF TaskStep, ModelStep, TurnStep
<1>4. CASE UNCHANGED vars
  <2>1. ValuesOK
    BY <1>0, TypeParts
  <2>2. ValuesOK' /\ Quiet /\ thread' = thread
    BY <1>4, <2>1 DEF vars, ValuesOK, Quiet
  <2> QED BY <2>2, StillStep
<1> QED BY <1>1, <1>2, <1>3, <1>4 DEF Next

\* The type invariant and what the next three theorems rest on hold for every
\* number of tasks, turn objects, items and interrupts.
THEOREM TurnsSafety == Spec => []TurnsInv
BY InitInv, StepInv, PTL DEF Spec

\* A task is aborted by one thread only, and once: the submission loop and the
\* guardian never have the same task on their lists, and neither has one whose
\* token has fired (abort_all_tasks, abort_turn_if_active, handle_task_abort).
THEOREM TokensFireOnceAlways == Spec => []TokensFireOnce
<1>1. TurnsInv => TokensFireOnce
  BY DEF TurnsInv
<1> QED BY <1>1, TurnsSafety, PTL

\* No task runs on unreachable: one that works is in the active turn, or someone
\* is aborting it.
THEOREM WorkingTasksAreReachableAlways == Spec => []WorkingTasksAreReachable
<1>1. TurnsInv => WorkingTasksAreReachable
  BY DEF TurnsInv
<1> QED BY <1>1, TurnsSafety, PTL

\* The session never hangs in an active turn that has no task and nobody who is
\* about to give it one or to clear it.
THEOREM EmptyTurnHasAnOwnerAlways == Spec => []EmptyTurnHasAnOwner
<1>1. TurnsInv => EmptyTurnHasAnOwner
  BY DEF TurnsInv
<1> QED BY <1>1, TurnsSafety, PTL

(***************************************************************************)
(* Sessions without mail that triggers turns and without approved denials, *)
(* where the submission loop alone starts tasks: a task starts in an empty *)
(* turn, and no user message that was accepted is forgotten.               *)
(***************************************************************************)
\* The session gets no mail that triggers turns, and approves no denials.
LoopOnly == TriggerMail = {} /\ Approvals = {}

LoopInv == OnlyLoopStarts /\ LoopStartsAlone
InputInv == InputIsPassedOn /\ UserInputInGoodHands

(***************************************************************************)
(* One thread goes on.                                                     *)
(***************************************************************************)

\* What every thread leaves to the loop.
LeavesStarting(p, local) ==
    /\ local.pc \notin {"reserve", "queue"}
    /\ local.pc \in Starting => p = Loop
    /\ p = Guardian /\ local.pc \in Aborting => local.reason = "Interrupted"

\* What the loop and a finishing task respect of the turn that stays active.
RespectsTurn(p, local) ==
    /\ p = Loop /\ local.pc \in Starting => local.pc # "launch" /\ active = NoTurn
    /\ p = Loop /\ local.pc \in Aborting /\ local.reason = "Replaced" => active = NoTurn
    /\ p \in Tasks /\ local.pc \in Finishing /\ local.turn = active /\ active # NoTurn
         => ActiveTasks' = {} /\ Pc(Loop) # "launch"

\* A thread that does neither more leaves the loop alone in starting tasks.
LEMMA LoopFrame ==
    ASSUME TurnsInv, LoopInv, NEW p \in Threads, NEW local \in Locals, Become(p, local),
           LeavesStarting(p, local), idle' = {}, numTurns' = numTurns,
           p \in Tasks => local.turn <= numTurns,
           \/ active' = NoTurn
           \/ active' = active /\ ActiveTasks' \subseteq ActiveTasks /\ RespectsTurn(p, local)
    PROVE  LoopInv'
<1>0. /\ ThreadsOK /\ thread'[p] = local
      /\ \A q \in Threads : q # p => thread'[q] = thread[q]
      /\ Loop \in Threads /\ Tasks \subseteq Threads /\ Loop \notin Tasks
  <2>1. ThreadsOK
    BY TypeParts DEF TurnsInv
  <2> QED BY <2>1, ThreadSorts DEF Become, ThreadsOK
<1>1. OnlyLoopStarts'
  BY <1>0 DEF LoopInv, OnlyLoopStarts, LeavesStarting, Pc
<1>2. \A k \in Tasks : thread'[k].turn <= numTurns'
  BY <1>0 DEF LoopInv, LoopStartsAlone
<1>3. CASE active' = NoTurn
  <2>1. ActiveTasks' = {}
    BY <1>3 DEF ActiveTasks
  <2> QED BY <1>1, <1>2, <1>3, <2>1 DEF LoopInv, LoopStartsAlone, Pc
<1>4. CASE active' = active /\ ActiveTasks' \subseteq ActiveTasks /\ RespectsTurn(p, local)
  <2>1. /\ thread'[Loop].pc \in Starting \ {"launch"} => active' = NoTurn
        /\ thread'[Loop].pc \in Aborting /\ thread'[Loop].reason = "Replaced"
             => active' = NoTurn
        /\ thread'[Loop].pc = "launch" => Pc(Loop) = "launch" /\ ActiveTasks' = {}
    <3>1. CASE p = Loop
      BY <1>0, <1>4, <3>1 DEF RespectsTurn, Starting
    <3>2. CASE p # Loop
      BY <1>0, <1>4, <3>2 DEF LoopInv, LoopStartsAlone, Pc
    <3> QED BY <3>1, <3>2
  <2>2. ASSUME NEW k \in Tasks, thread'[k].pc \in Finishing, thread'[k].turn = active',
               active' # NoTurn
        PROVE  ActiveTasks' = {} /\ thread'[Loop].pc # "launch"
    <3>1. CASE k = p
      BY <1>0, <1>4, <2>1, <2>2, <3>1 DEF RespectsTurn
    <3>2. CASE k # p
      BY <1>0, <1>4, <2>1, <2>2, <3>2 DEF LoopInv, LoopStartsAlone, Pc
    <3> QED BY <3>1, <3>2
  <2> QED BY <1>1, <1>2, <2>1, <2>2 DEF LoopInv, LoopStartsAlone, Pc
<1> QED BY <1>3, <1>4

\* What a thread may hold, and where.
Holds(p, local) ==
    /\ local.own # {} =>
         \/ /\ p = Loop /\ local.reason = "Replaced"
            /\ local.pc \in {"abort"} \cup Aborting \cup Starting
         \/ p \in Tasks /\ local.pc \in {"spawned", "prewarm", "run"}
    /\ local.items # {} =>
         \/ p = Loop /\ local.pc \in {"pending", "mail", "attach"}
         \/ p \in Tasks /\ local.pc \in {"drain mail", "record"}

\* What is recorded or let go of after the step.
Settled == history' \cup dropped'

\* Nothing that the thread or a turn object held is lost in the step.
LosesNothing(p, local) ==
    /\ history \subseteq history' /\ dropped \subseteq dropped'
    /\ thread[p].own \cup thread[p].items
         \subseteq local.own \cup local.items \cup ActiveInput' \cup Settled
    /\ \A t \in Turns : turns[t].input \subseteq turns'[t].input \cup local.items \cup Settled
    /\ Pc(p) \in Aborting \cup {"flush input"} =>
         \/ local.pc \in Aborting \cup {"flush input"} /\ local.turn = thread[p].turn
         \/ turns[thread[p].turn].input \subseteq Settled

\* A turn that goes is being aborted or finished by someone, or has no user input.
LeavesTurn(p, local) ==
    \/ active = NoTurn
    \/ local.pc \in Aborting /\ local.turn = active
    \/ \E q \in Threads \ {p} : Pc(q) = "flush input" /\ thread[q].turn = active
    \/ ActiveInput \cap UserInputs = {}

\* A turn that stays gets user input only while it has a task.
KeepsTurn(p, local) ==
    /\ ActiveTasks # {} \/ ActiveInput' \cap UserInputs \subseteq ActiveInput
    /\ p \in Tasks /\ local.pc \in {"complete", "clear"} /\ local.turn = active /\ active # NoTurn
         => ActiveInput' \cap UserInputs = {}

\* A thread that loses nothing keeps user messages in good hands.
LEMMA InputFrame ==
    ASSUME TurnsInv, LoopInv, InputInv, NEW p \in Threads, NEW local \in Locals,
           Become(p, local), Holds(p, local), LosesNothing(p, local),
           \A i \in sent' \cap UserInputs : i \in sent \cup local.own \cup ActiveInput',
           \/ active' = NoTurn /\ LeavesTurn(p, local)
           \/ active' = active /\ KeepsTurn(p, local)
           \/ active = NoTurn /\ active' = numTurns + 1 /\ p = Loop
    PROVE  InputInv'
<1>0. /\ ThreadsOK /\ ValuesOK /\ thread'[p] = local
      /\ \A q \in Threads : q # p => thread'[q] = thread[q]
      /\ Loop \in Threads /\ Tasks \subseteq Threads /\ Loop \notin Tasks
  <2>1. ThreadsOK /\ ValuesOK
    BY TypeParts DEF TurnsInv
  <2> QED BY <2>1, ThreadSorts DEF Become, ThreadsOK
<1>1. \A q \in Threads : Holds(q, thread'[q])
  BY <1>0 DEF InputInv, InputIsPassedOn, Holds, Pc
<1>2. \A k \in Tasks : thread'[k].pc \in {"complete", "clear"} /\ thread'[k].turn = active'
                         /\ active' # NoTurn => ActiveInput' \cap UserInputs = {}
  <2> SUFFICES ASSUME NEW k \in Tasks, thread'[k].pc \in {"complete", "clear"},
                      thread'[k].turn = active', active' # NoTurn
               PROVE  ActiveInput' \cap UserInputs = {}
    OBVIOUS
  <2>1. CASE active' = active /\ KeepsTurn(p, local)
    <3>1. CASE k = p
      BY <1>0, <2>1, <3>1 DEF KeepsTurn
    <3>2. CASE k # p
      <4>1. /\ Pc(k) \in Finishing /\ Pc(k) \in {"complete", "clear"}
            /\ thread[k].turn = active /\ active # NoTurn
        BY <1>0, <2>1, <3>2 DEF Finishing, Pc
      <4>2. ActiveTasks = {} /\ ActiveInput \cap UserInputs = {}
        BY <4>1 DEF LoopInv, LoopStartsAlone, InputInv, InputIsPassedOn
      <4> QED BY <2>1, <4>2 DEF KeepsTurn
    <3> QED BY <3>1, <3>2
  <2>2. CASE active' = numTurns + 1 /\ p = Loop
    <3>1. thread'[k] = thread[k] /\ thread[k].turn <= numTurns /\ numTurns \in Nat
      BY <1>0, <2>2 DEF LoopInv, LoopStartsAlone, ValuesOK
    <3> QED BY <1>0, <2>2, <3>1 DEF ValuesOK
  <2> QED BY <2>1, <2>2
<1>3. InputIsPassedOn'
  BY <1>1, <1>2 DEF InputIsPassedOn, Holds, Pc
<1>4. ASSUME NEW i \in sent' \cap UserInputs PROVE InGoodHands(i)'
  <2>1. \A q \in Threads : i \in thread'[q].own \cup thread'[q].items => InGoodHands(i)'
    BY DEF InGoodHands
  <2>2. i \in Settled \/ i \in ActiveInput' => InGoodHands(i)'
    BY DEF InGoodHands, Settled
  <2>3. i \in local.own \cup local.items => InGoodHands(i)'
    BY <1>0, <2>1
  <2>4. \A q \in Threads : thread'[q].pc \in Aborting \cup {"flush input"}
                           /\ i \in turns'[thread'[q].turn].input => InGoodHands(i)'
    BY DEF InGoodHands, Pc
  <2>5. CASE i \in history \cup dropped
    BY <2>2, <2>5 DEF LosesNothing, Settled
  <2>6. ASSUME NEW q \in Threads, i \in thread[q].own \cup thread[q].items
        PROVE  InGoodHands(i)'
    BY <1>0, <2>1, <2>2, <2>3, <2>6 DEF LosesNothing
  <2>7. ASSUME NEW q \in Threads, Pc(q) \in Aborting \cup {"flush input"},
               i \in turns[thread[q].turn].input
        PROVE  InGoodHands(i)'
    <3>1. thread[q].turn \in Turns
      BY <1>0, <2>7, LocalType DEF TurnsInv, VictimsAreHeld, Pc
    <3>2. i \in turns'[thread[q].turn].input \/ i \in local.items \cup Settled
      BY <2>7, <3>1 DEF LosesNothing
    <3>3. CASE q # p
      BY <1>0, <2>2, <2>3, <2>4, <2>7, <3>2, <3>3 DEF Pc
    <3>4. CASE q = p
      BY <1>0, <2>2, <2>3, <2>4, <2>7, <3>2, <3>4 DEF LosesNothing
    <3> QED BY <3>3, <3>4
  <2>8. CASE i \in ActiveInput
    <3>1. active \in Turns /\ i \in turns[active].input
      BY <1>0, <2>8 DEF ActiveInput, ValuesOK
    <3>2. i \in turns'[active].input \/ i \in local.items \cup Settled
      BY <3>1 DEF LosesNothing
    <3>3. CASE active' = active
      <4>1. ActiveInput' = turns'[active].input
        BY <3>1, <3>3 DEF ActiveInput
      <4> QED BY <2>2, <2>3, <3>2, <4>1
    <3>4. CASE active' = NoTurn /\ LeavesTurn(p, local)
      <4>1. CASE local.pc \in Aborting /\ local.turn = active
        BY <1>0, <2>2, <2>3, <2>4, <3>2, <4>1
      <4>2. ASSUME NEW q \in Threads \ {p}, Pc(q) = "flush input", thread[q].turn = active
            PROVE  InGoodHands(i)'
        BY <2>7, <3>1, <4>2
      <4>3. active # NoTurn /\ ~(ActiveInput \cap UserInputs = {})
        BY <2>8, <3>1
      <4> QED BY <3>4, <4>1, <4>2, <4>3 DEF LeavesTurn
    <3> QED BY <3>1, <3>3, <3>4
  <2>9. CASE i \in sent
    <3>1. InGoodHands(i)
      BY <2>9 DEF InputInv, UserInputInGoodHands
    <3> QED BY <2>5, <2>6, <2>7, <2>8, <3>1 DEF InGoodHands
  <2> QED BY <2>2, <2>3, <2>9
<1> QED BY <1>3, <1>4 DEF InputInv, UserInputInGoodHands

\* What a step keeps: the loop is alone in starting tasks, and, unless hooks may
\* block input, user messages stay in good hands.
Keeps == LoopInv' /\ (~HooksMayBlock /\ InputInv => InputInv')

(***************************************************************************)
(* The steps of a task.                                                    *)
(***************************************************************************)

\* A working task that passes on what it holds.
LEMMA WorkStep ==
    ASSUME TurnsInv, LoopInv, NEW k \in Tasks, NEW local \in Locals, Become(k, local), Quiet,
           idle' = idle, sent' = sent, local.turn = NoTurn,
           local.pc \in WorkingPcs \cup {"flushed", "remove", "done"},
           ~HooksMayBlock /\ InputInv =>
             Holds(k, local) /\ LosesNothing(k, local) /\ ActiveInput' \subseteq ActiveInput
    PROVE  Keeps
<1>0. /\ ValuesOK /\ k \in Threads /\ k # Loop /\ k # Guardian
      /\ active' = active /\ numTurns' = numTurns
  BY TypeParts, ThreadSorts DEF TurnsInv, Quiet
<1>1. ActiveTasks' = ActiveTasks
  BY <1>0, QuietTasks
<1>2. /\ local.pc \notin {"reserve", "queue", "complete", "clear"}
      /\ local.pc \notin Starting /\ local.pc \notin Aborting /\ local.pc \notin Finishing
  BY DEF WorkingPcs, Starting, Aborting, Finishing
<1>3. LeavesStarting(k, local) /\ RespectsTurn(k, local)
  BY <1>0, <1>2 DEF LeavesStarting, RespectsTurn
<1>4. idle' = {} /\ local.turn <= numTurns
  BY <1>0 DEF LoopInv, OnlyLoopStarts, ValuesOK
<1>5. LoopInv'
  BY <1>0, <1>1, <1>3, <1>4, LoopFrame
<1>6. ASSUME ~HooksMayBlock, InputInv PROVE InputInv'
  <2>1. Holds(k, local) /\ LosesNothing(k, local) /\ ActiveInput' \subseteq ActiveInput
    BY <1>6
  <2>2. KeepsTurn(k, local)
    BY <1>2, <2>1 DEF KeepsTurn
  <2> QED BY <1>0, <1>6, <2>1, <2>2, InputFrame
<1> QED BY <1>5, <1>6 DEF Keeps

\* A step that leaves the turn objects alone takes nothing from them.
LEMMA TurnsKept ==
    ASSUME turns' = turns, active' = active
    PROVE  /\ ActiveInput' = ActiveInput /\ ActiveTasks' = ActiveTasks
           /\ \A t \in Turns : turns'[t].input = turns[t].input
BY DEF ActiveInput, ActiveTasks

\* The steps of a task that only move it on.
LEMMA MovingOn ==
    ASSUME TurnsInv, LoopInv, NEW k \in Tasks,
           \/ StartTurn(k) \/ Prewarm(k) \/ SampleEnds(k) \/ SampleFails(k) \/ RunAgain(k)
           \/ CheckCancelled(k) \/ FollowUp(k)
    PROVE  Keeps
<1>0. /\ ValuesOK /\ ThreadsOK /\ k \in Threads /\ k # Loop /\ thread[k] \in Locals
  BY TypeParts, ThreadSorts, LocalType DEF TurnsInv
<1>1. /\ Quiet /\ idle' = idle /\ sent' = sent /\ turns' = turns /\ history' = history
      /\ dropped' = dropped
  BY DEF StartTurn, Prewarm, SampleEnds, SampleFails, RunAgain, CheckCancelled, FollowUp, Quiet
<1>2. PICK pc \in WorkingPcs \cup {"flushed", "remove", "done"} :
        /\ GoTo(k, pc)
        /\ \/ <<Pc(k), pc>> \in {<<"spawned", "prewarm">>, <<"prewarm", "run">>}
           \/ Pc(k) \in {"sample", "again", "flushed"}
  <2>1. CASE StartTurn(k)
    BY <2>1 DEF StartTurn, WorkingPcs
  <2>2. CASE Prewarm(k)
    BY <2>2 DEF Prewarm, WorkingPcs
  <2>3. CASE SampleEnds(k)
    BY <2>3 DEF SampleEnds, WorkingPcs
  <2>4. CASE SampleFails(k)
    BY <2>4 DEF SampleFails, WorkingPcs
  <2>5. CASE RunAgain(k)
    BY <2>5 DEF RunAgain, WorkingPcs
  <2>6. CASE CheckCancelled(k)
    BY <2>6 DEF CheckCancelled, WorkingPcs
  <2>7. CASE FollowUp(k)
    BY <2>7 DEF FollowUp, WorkingPcs
  <2> QED BY <2>1, <2>2, <2>3, <2>4, <2>5, <2>6, <2>7
<1> DEFINE local == [thread[k] EXCEPT !.pc = pc]
<1>3. /\ local \in Locals /\ local.pc = pc /\ local.own = thread[k].own
      /\ local.items = thread[k].items /\ local.turn = thread[k].turn
  BY <1>0, <1>2, ZenonT(60) DEF Locals, PcsOfTask, WorkingPcs
<1>4. Become(k, local)
  BY <1>2 DEF GoTo
<1> HIDE DEF local
<1>5. local.turn = NoTurn
  BY <1>2, <1>3 DEF TurnsInv, FinishersAreFree, Working, WorkingPcs
<1>6. ASSUME InputInv
      PROVE  Holds(k, local) /\ LosesNothing(k, local) /\ ActiveInput' \subseteq ActiveInput
  <2>1. Holds(k, local)
    BY <1>0, <1>2, <1>3, <1>6 DEF InputInv, InputIsPassedOn, Holds
  <2>2. LosesNothing(k, local)
    BY <1>1, <1>2, <1>3 DEF LosesNothing, Aborting
  <2> QED BY <1>1, <2>1, <2>2, TurnsKept DEF Quiet
<1> QED BY <1>1, <1>2, <1>3, <1>4, <1>5, <1>6, WorkStep

\* A task's own input is recorded or let go of.
LEMMA OwnInput ==
    ASSUME TurnsInv, LoopInv, NEW k \in Tasks,
           PrewarmCancelled(k) \/ RunTurn(k) \/ RunTurnFails(k)
    PROVE  Keeps
<1>0. /\ ValuesOK /\ ThreadsOK /\ k \in Threads /\ k # Loop /\ thread[k] \in Locals
  BY TypeParts, ThreadSorts, LocalType DEF TurnsInv
<1>1. /\ Quiet /\ idle' = idle /\ sent' = sent /\ turns' = turns
      /\ history \subseteq history' /\ dropped \subseteq dropped'
      /\ thread[k].own \subseteq Settled
  BY DEF PrewarmCancelled, RunTurn, RunTurnFails, Quiet, Settled
<1>2. PICK pc \in WorkingPcs \cup {"flushed"} :
        Become(k, [thread[k] EXCEPT !.own = {}, !.pc = pc]) /\ Pc(k) \in {"prewarm", "run"}
  BY DEF PrewarmCancelled, RunTurn, RunTurnFails, WorkingPcs
<1> DEFINE local == [thread[k] EXCEPT !.own = {}, !.pc = pc]
<1>3. /\ local \in Locals /\ local.pc = pc /\ local.own = {}
      /\ local.items = thread[k].items /\ local.turn = thread[k].turn
  BY <1>0, <1>2, ZenonT(60) DEF Locals, PcsOfTask, WorkingPcs
<1>4. Become(k, local)
  BY <1>2
<1> HIDE DEF local
<1>5. local.turn = NoTurn
  BY <1>2, <1>3 DEF TurnsInv, FinishersAreFree, Working, WorkingPcs
<1>6. ASSUME InputInv
      PROVE  Holds(k, local) /\ LosesNothing(k, local) /\ ActiveInput' \subseteq ActiveInput
  <2>1. Holds(k, local)
    BY <1>0, <1>2, <1>3, <1>6 DEF InputInv, InputIsPassedOn, Holds
  <2>2. LosesNothing(k, local)
    BY <1>1, <1>2, <1>3 DEF LosesNothing, Aborting
  <2> QED BY <1>1, <2>1, <2>2, TurnsKept DEF Quiet
<1> QED BY <1>1, <1>2, <1>3, <1>4, <1>5, <1>6, WorkStep

\* The input of a turn object is taken out of it, and nothing of another.
LEMMA InputTaken ==
    ASSUME ValuesOK, NEW t \in Turns, turns' = [turns EXCEPT ![t].input = {}]
    PROVE  \A u \in Turns : turns'[u].input = IF u = t THEN {} ELSE turns[u].input
BY DEF ValuesOK, TurnRows

\* More input goes into a turn object.
LEMMA InputPushed ==
    ASSUME ValuesOK, NEW t \in Turns, NEW more, turns' = PushInput(t, more)
    PROVE  \A u \in Turns : turns'[u].input = IF u = t THEN turns[u].input \cup more
                                              ELSE turns[u].input
BY DEF ValuesOK, TurnRows, PushInput

\* Pending input that a task drains is in its hands, and what it records is
\* recorded.
LEMMA DrainSteps ==
    ASSUME TurnsInv, LoopInv, NEW k \in Tasks,
           DrainPendingInput(k) \/ DrainMail(k) \/ RecordPendingInput(k)
    PROVE  Keeps
<1>0. /\ ValuesOK /\ ThreadsOK /\ k \in Threads /\ k # Loop /\ thread[k] \in Locals
      /\ thread[k].items \subseteq Items
  BY TypeParts, ThreadSorts, LocalType DEF TurnsInv
<1>1. /\ idle' = idle /\ sent' = sent /\ active' = active
      /\ history \subseteq history' /\ dropped \subseteq dropped'
  BY DEF DrainPendingInput, TakePendingInput, DrainMail, DrainMailbox, RecordPendingInput
<1>2. Quiet
  <2>1. CASE DrainPendingInput(k)
    BY <1>0, <2>1, ActiveType, TurnRowTasks DEF DrainPendingInput, TakePendingInput, Quiet
  <2>2. CASE DrainMail(k) \/ RecordPendingInput(k)
    BY <2>2 DEF DrainMail, DrainMailbox, RecordPendingInput, Quiet
  <2> QED BY <2>1, <2>2
<1>3. PICK pc \in {"drain mail", "record", "sample"}, items \in SUBSET Items :
        /\ Become(k, [thread[k] EXCEPT !.items = items, !.pc = pc])
        /\ Pc(k) \in {"drain", "drain mail", "record"}
        /\ thread[k].items \subseteq items \cup Settled
        /\ pc = "sample" => items = {}
        /\ \A t \in Turns : /\ turns'[t].input \subseteq turns[t].input
                            /\ turns[t].input \subseteq turns'[t].input \cup items
  <2>1. CASE DrainPendingInput(k)
    <3>1. thread[k].items \cup ActiveInput \in SUBSET Items
      BY <1>0, ActiveType
    <3>2. Become(k, [thread[k] EXCEPT !.items = thread[k].items \cup ActiveInput,
                       !.pc = IF AcceptsMail THEN "drain mail" ELSE "record"])
      BY <1>0, <2>1 DEF DrainPendingInput, TakePendingInput, Locals
    <3>3. active = NoTurn => \A t \in Turns : turns'[t].input = turns[t].input /\ t # active
      BY <2>1 DEF DrainPendingInput, TakePendingInput
    <3>4. active # NoTurn => \A t \in Turns : turns'[t].input = IF t = active THEN {}
                                                                ELSE turns[t].input
      BY <1>0, <2>1, InputTaken DEF DrainPendingInput, TakePendingInput, ValuesOK
    <3>5. \A t \in Turns :
            /\ turns'[t].input \subseteq turns[t].input
            /\ turns[t].input \subseteq turns'[t].input \cup (thread[k].items \cup ActiveInput)
      BY <3>3, <3>4 DEF ActiveInput
    <3> QED BY <2>1, <3>1, <3>2, <3>5 DEF DrainPendingInput, TakePendingInput
  <2>2. CASE DrainMail(k)
    <3>1. thread[k].items \cup mailbox \in SUBSET Items
      BY <1>0 DEF ValuesOK, Items
    <3>2. Become(k, [thread[k] EXCEPT !.items = thread[k].items \cup mailbox, !.pc = "record"])
      BY <1>0, <2>2 DEF DrainMail, DrainMailbox, Locals
    <3> QED BY <2>2, <3>1, <3>2 DEF DrainMail, DrainMailbox
  <2>3. CASE RecordPendingInput(k)
    <3>1. /\ Become(k, [thread[k] EXCEPT !.items = {}, !.pc = "sample"]) /\ Pc(k) = "record"
          /\ thread[k].items \subseteq {} \cup Settled /\ turns' = turns
      BY <2>3 DEF RecordPendingInput, Settled
    <3>2. \A t \in Turns : /\ turns'[t].input \subseteq turns[t].input
                           /\ turns[t].input \subseteq turns'[t].input \cup {}
      BY <3>1
    <3>3. {} \in SUBSET Items /\ "sample" \in {"drain mail", "record", "sample"}
      OBVIOUS
    <3> QED BY <3>1, <3>2, <3>3
  <2> QED BY <2>1, <2>2, <2>3
<1> DEFINE local == [thread[k] EXCEPT !.items = items, !.pc = pc]
<1>4. /\ local \in Locals /\ local.pc = pc /\ local.own = thread[k].own
      /\ local.items = items /\ local.turn = thread[k].turn
  BY <1>0, <1>3, ZenonT(60) DEF Locals, PcsOfTask
<1>5. Become(k, local)
  BY <1>3
<1> HIDE DEF local
<1>6. local.turn = NoTurn /\ local.pc \in WorkingPcs
  BY <1>3, <1>4 DEF TurnsInv, FinishersAreFree, Working, WorkingPcs
<1>7. ASSUME InputInv
      PROVE  Holds(k, local) /\ LosesNothing(k, local) /\ ActiveInput' \subseteq ActiveInput
  <2>1. Holds(k, local)
    BY <1>0, <1>3, <1>4, <1>7 DEF InputInv, InputIsPassedOn, Holds
  <2>2. LosesNothing(k, local)
    BY <1>1, <1>3, <1>4 DEF LosesNothing, Aborting
  <2>3. ActiveInput' \subseteq ActiveInput
    BY <1>0, <1>1, <1>3 DEF ActiveInput, ValuesOK
  <2> QED BY <2>1, <2>2, <2>3
<1> QED BY <1>1, <1>2, <1>4, <1>5, <1>6, <1>7, WorkStep

\* A hook that blocks an item starts no task.
LEMMA BlockStep ==
    ASSUME TurnsInv, LoopInv, NEW k \in Tasks, BlockPendingInput(k)
    PROVE  Keeps
<1>0. /\ ValuesOK /\ ThreadsOK /\ k \in Threads /\ thread[k] \in Locals
      /\ thread[k].items \subseteq Items /\ HooksMayBlock
  BY TypeParts, ThreadSorts, LocalType DEF TurnsInv, BlockPendingInput
<1>1. PICK rest \in SUBSET Items :
        turns' = turns \/ (active # NoTurn /\ turns' = PushInput(active, rest))
  BY <1>0 DEF BlockPendingInput
<1>2. \A t \in Turns : turns'[t].tasks = turns[t].tasks
  BY <1>0, <1>1, ActiveType, PushType
<1>3. Quiet /\ idle' = idle /\ sent' = sent /\ Pc(k) = "record"
  BY <1>2 DEF BlockPendingInput, Quiet
<1>4. PICK pc \in {"sample", "drain", "again"} :
        Become(k, [thread[k] EXCEPT !.items = {}, !.pc = pc])
  BY DEF BlockPendingInput
<1> DEFINE local == [thread[k] EXCEPT !.items = {}, !.pc = pc]
<1>5. local \in Locals /\ local.pc = pc /\ local.turn = thread[k].turn /\ pc \in WorkingPcs
  BY <1>0, <1>4 DEF Locals, PcsOfTask, WorkingPcs
<1>6. Become(k, local)
  BY <1>4
<1> HIDE DEF local
<1>7. local.turn = NoTurn
  BY <1>3, <1>5 DEF TurnsInv, FinishersAreFree, Working, WorkingPcs
<1> QED BY <1>0, <1>3, <1>5, <1>6, <1>7, WorkStep

\* Deciding where mail goes moves no input.
LEMMA PhaseSteps ==
    ASSUME TurnsInv, LoopInv, NEW k \in Tasks, DeferMailbox(k) \/ ReopenMailbox(k)
    PROVE  Keeps
<1>0. /\ ValuesOK /\ ThreadsOK /\ k \in Threads /\ k # Loop /\ thread[k] \in Locals
      /\ active \in Turns
  BY TypeParts, ThreadSorts, LocalType, ActiveType DEF TurnsInv, DeferMailbox, ReopenMailbox
<1>1. PICK phase \in Phases : turns' = [turns EXCEPT ![active].phase = phase]
  BY DEF DeferMailbox, ReopenMailbox, Phases
<1>2. \A t \in Turns : turns'[t].tasks = turns[t].tasks /\ turns'[t].input = turns[t].input
  BY <1>0, <1>1 DEF ValuesOK, TurnRows
<1>3. /\ Quiet /\ idle' = idle /\ sent' = sent /\ history' = history /\ dropped' = dropped
      /\ Pc(k) = "sample" /\ thread' = thread
  BY <1>2 DEF DeferMailbox, ReopenMailbox, Quiet
<1>4. Become(k, thread[k])
  BY <1>0, <1>3 DEF Become, ThreadsOK
<1>5. thread[k].turn = NoTurn /\ thread[k].pc \in WorkingPcs
  BY <1>3 DEF TurnsInv, FinishersAreFree, Working, WorkingPcs, Pc
<1>6. ASSUME InputInv
      PROVE  /\ Holds(k, thread[k]) /\ LosesNothing(k, thread[k])
             /\ ActiveInput' \subseteq ActiveInput
  <2>1. Holds(k, thread[k])
    BY <1>0, <1>6 DEF InputInv, InputIsPassedOn, Holds, Pc
  <2>2. LosesNothing(k, thread[k])
    BY <1>2, <1>3 DEF LosesNothing, Aborting
  <2>3. ActiveInput' \subseteq ActiveInput
    BY <1>0, <1>2, <1>3 DEF ActiveInput, Quiet
  <2> QED BY <2>1, <2>2, <2>3
<1> QED BY <1>0, <1>3, <1>4, <1>5, <1>6, WorkStep

\* A task that has left its turn gets no input any more, and the input of the
\* turn it finishes is recorded before it is done with it.
LEMMA FinishStep ==
    ASSUME TurnsInv, LoopInv, NEW k \in Tasks, NEW local \in Locals, Become(k, local),
           idle' = idle, sent' = sent, numTurns' = numTurns, local.turn <= numTurns,
           local.pc \in Finishing \cup {"check", "done"},
           InputInv => local.own = {} /\ local.items = {},
           history \subseteq history', dropped \subseteq dropped',
           InputInv => thread[k].own \cup thread[k].items \subseteq Settled,
           \A t \in Turns : turns[t].input \subseteq turns'[t].input \cup Settled,
           ActiveInput' \subseteq ActiveInput,
           Pc(k) = "flush input" => turns[thread[k].turn].input \subseteq Settled,
           \/ active' = NoTurn /\ (InputInv => LeavesTurn(k, local))
           \/ /\ active' = active /\ ActiveTasks' \subseteq ActiveTasks
              /\ local.pc \in Finishing /\ local.turn = active /\ active # NoTurn
                   => /\ ActiveTasks' = {} /\ Pc(Loop) # "launch"
                      /\ InputInv /\ local.pc # "flush input" => ActiveInput' \cap UserInputs = {}
    PROVE  Keeps
<1>0. k \in Threads /\ k # Loop /\ k # Guardian /\ ThreadsOK
  BY ThreadSorts, TypeParts DEF TurnsInv
<1>1. LeavesStarting(k, local)
  BY <1>0 DEF LeavesStarting, Starting, Finishing
<1>2. active' = active => RespectsTurn(k, local)
  BY <1>0 DEF RespectsTurn
<1>3. idle' = {}
  BY DEF LoopInv, OnlyLoopStarts
<1>4. LoopInv'
  BY <1>0, <1>1, <1>2, <1>3, LoopFrame
<1>5. ASSUME InputInv PROVE InputInv'
  <2>1. Holds(k, local)
    BY <1>5 DEF Holds
  <2>2. Pc(k) \notin Aborting
    BY <1>0 DEF ThreadsOK, PcsOfTask, Aborting
  <2>3. LosesNothing(k, local)
    BY <1>5, <2>2 DEF LosesNothing
  <2>4. active' = active => KeepsTurn(k, local)
    BY <1>5 DEF KeepsTurn, Finishing
  <2> QED BY <1>0, <1>5, <2>1, <2>3, <2>4, InputFrame
<1> QED BY <1>4, <1>5 DEF Keeps

\* A task that is about to leave its turn, or has left it, holds nothing.
LEMMA FinisherHolds ==
    ASSUME InputInv, NEW k \in Tasks, Pc(k) \in Finishing \cup {"remove", "check"}
    PROVE  thread[k].own = {} /\ thread[k].items = {}
BY ThreadSorts DEF InputInv, InputIsPassedOn, Finishing

\* The last steps of a task.
LEMMA EndingSteps ==
    ASSUME TurnsInv, LoopInv, NEW k \in Tasks,
           RecordLeftovers(k) \/ CompleteTurn(k) \/ ClearTurn(k) \/ Die(k)
    PROVE  Keeps
<1>0. /\ ValuesOK /\ ThreadsOK /\ k \in Threads /\ k # Loop /\ thread[k] \in Locals
      /\ thread[k].turn \in Turns \cup {NoTurn} /\ thread[k].turn <= numTurns /\ numTurns \in Nat
  <2>1. ValuesOK /\ ThreadsOK
    BY TypeParts DEF TurnsInv
  <2>2. thread[k].turn <= numTurns
    BY DEF LoopInv, LoopStartsAlone
  <2>3. numTurns \in Nat
    BY <2>1 DEF ValuesOK
  <2>4. k \in Threads /\ k # Loop
    BY ThreadSorts
  <2> QED BY <2>1, <2>2, <2>3, <2>4, LocalType
<1>1. /\ Returned(k) \in Locals /\ Returned(k).pc = "done" /\ Returned(k).own = {}
      /\ Returned(k).items = {} /\ Returned(k).turn = NoTurn
      /\ Returned(k).pc \notin Finishing /\ Returned(k).turn <= numTurns
  <2>1. /\ Returned(k) \in Locals /\ Returned(k).pc = "done" /\ Returned(k).own = {}
        /\ Returned(k).items = {} /\ Returned(k).turn = NoTurn
    BY <1>0, RestType
  <2>2. "done" \notin Finishing
    BY DEF Finishing
  <2>3. NoTurn <= numTurns
    BY <1>0
  <2> QED BY <2>1, <2>2, <2>3
<1>2. ASSUME NEW pc \in {"complete", "clear"}
      PROVE  LET local == [thread[k] EXCEPT !.pc = pc]
             IN  /\ local \in Locals /\ local.pc = pc /\ local.own = thread[k].own
                 /\ local.items = thread[k].items /\ local.turn = thread[k].turn
  BY <1>0 DEF Locals, PcsOfTask
<1>3. Pc(k) \in Finishing /\ thread[k].turn = active /\ active # NoTurn
        => ActiveTasks = {} /\ Pc(Loop) # "launch"
  BY DEF LoopInv, LoopStartsAlone
<1>4. CASE RecordLeftovers(k)
  <2> DEFINE local == [thread[k] EXCEPT !.pc = "complete"]
  <2>1. /\ local \in Locals /\ local.pc = "complete" /\ local.own = thread[k].own
        /\ local.items = thread[k].items /\ local.turn = thread[k].turn
    BY <1>2
  <2>2. Become(k, local)
    BY <1>4 DEF RecordLeftovers, GoTo
  <2> HIDE DEF local
  <2>3. /\ Pc(k) = "flush input" /\ Pc(k) \in Finishing /\ local.pc \in Finishing
        /\ idle' = idle /\ sent' = sent /\ numTurns' = numTurns /\ active' = active
        /\ history \subseteq history' /\ dropped \subseteq dropped'
        /\ turns[thread[k].turn].input \subseteq Settled
    BY <1>4, <2>1 DEF RecordLeftovers, Settled, Finishing
  <2>4. thread[k].turn \in Turns
    BY <1>0, <2>3 DEF TurnsInv, VictimsAreHeld, Pc
  <2>5. /\ \A t \in Turns : turns'[t].input = IF t = thread[k].turn THEN {} ELSE turns[t].input
        /\ \A t \in Turns : turns'[t].tasks = turns[t].tasks
    BY <1>0, <1>4, <2>4, InputTaken, TurnRowTasks DEF RecordLeftovers
  <2>6. /\ ActiveTasks' = ActiveTasks /\ ActiveInput' \subseteq ActiveInput
        /\ local.turn = active => ActiveInput' = {}
        /\ \A t \in Turns : turns[t].input \subseteq turns'[t].input \cup Settled
    BY <1>0, <2>1, <2>3, <2>4, <2>5 DEF ActiveTasks, ActiveInput, ValuesOK
  <2>7. InputInv => thread[k].own = {} /\ thread[k].items = {}
    BY <2>3, FinisherHolds
  <2> QED BY <1>0, <1>3, <2>1, <2>2, <2>3, <2>6, <2>7, FinishStep
<1>5. CASE CompleteTurn(k)
  <2>1. /\ Pc(k) = "complete" /\ Pc(k) \in Finishing
        /\ idle' = idle /\ sent' = sent /\ numTurns' = numTurns /\ active' = active
        /\ history \subseteq history' /\ dropped \subseteq dropped' /\ turns' = turns
    BY <1>5 DEF CompleteTurn, Finishing
  <2>2. /\ ActiveTasks' = ActiveTasks /\ ActiveInput' = ActiveInput
        /\ \A t \in Turns : turns[t].input \subseteq turns'[t].input \cup Settled
    BY <2>1, TurnsKept
  <2>3. InputInv => thread[k].own = {} /\ thread[k].items = {}
    BY <2>1, FinisherHolds
  <2>4. CASE thread[k].turn = NoTurn
    <3>1. Become(k, Returned(k))
      BY <1>5, <2>4 DEF CompleteTurn
    <3> QED BY <1>0, <1>1, <2>1, <2>2, <2>3, <3>1, FinishStep
  <2>5. CASE thread[k].turn # NoTurn
    <3> DEFINE local == [thread[k] EXCEPT !.pc = "clear"]
    <3>1. /\ local \in Locals /\ local.pc = "clear" /\ local.own = thread[k].own
          /\ local.items = thread[k].items /\ local.turn = thread[k].turn
      BY <1>2
    <3>2. Become(k, local)
      BY <1>5, <2>5 DEF CompleteTurn
    <3> HIDE DEF local
    <3>3. local.pc \in Finishing
      BY <3>1 DEF Finishing
    <3>4. InputInv /\ local.turn = active /\ active # NoTurn => ActiveInput' \cap UserInputs = {}
      BY <2>1, <2>2, <3>1 DEF InputInv, InputIsPassedOn
    <3> QED BY <1>0, <1>3, <2>1, <2>2, <2>3, <3>1, <3>2, <3>3, <3>4, FinishStep
  <2> QED BY <2>4, <2>5
<1>6. CASE ClearTurn(k)
  <2>1. /\ Pc(k) = "clear" /\ Pc(k) \in Finishing
        /\ idle' = idle /\ sent' = sent /\ numTurns' = numTurns
        /\ history \subseteq history' /\ dropped \subseteq dropped' /\ turns' = turns
    BY <1>6 DEF ClearTurn, Finishing
  <2>2. /\ thread[k].turn # NoTurn
        /\ \A t \in Turns : turns[t].input \subseteq turns'[t].input \cup Settled
    BY <1>0, <2>1 DEF TurnsInv, VictimsAreHeld, Pc
  <2>3. InputInv => thread[k].own = {} /\ thread[k].items = {}
    BY <2>1, FinisherHolds
  <2>4. CASE active = thread[k].turn /\ active' = NoTurn
    <3> DEFINE local == IF turns[active].tasks = {} THEN [Rest EXCEPT !.pc = "check"]
                                                    ELSE Returned(k)
    <3>1. Become(k, local)
      BY <1>6, <2>2, <2>4 DEF ClearTurn
    <3>2. /\ local \in Locals /\ local.pc \in {"check", "done"} /\ local.own = {}
          /\ local.items = {} /\ local.turn <= numTurns
      <4>1. LET l == [Rest EXCEPT !.pc = "check"]
            IN  l \in Locals /\ l.pc = "check" /\ l.own = {} /\ l.items = {} /\ l.turn = NoTurn
        BY RestType DEF Rest, Locals, PcsOfTask
      <4> QED BY <1>0, <1>1, <4>1
    <3> HIDE DEF local
    <3>3. ActiveInput' \subseteq ActiveInput
      BY <2>4 DEF ActiveInput
    <3>4. InputInv => LeavesTurn(k, local)
      BY <2>1, <2>2, <2>4 DEF InputInv, InputIsPassedOn, LeavesTurn
    <3> QED BY <1>0, <2>1, <2>2, <2>3, <2>4, <3>1, <3>2, <3>3, <3>4, FinishStep
  <2>5. CASE active' = active /\ Become(k, Returned(k))
    <3>1. ActiveTasks' = ActiveTasks /\ ActiveInput' = ActiveInput
      BY <2>1, <2>5, TurnsKept
    <3> QED BY <1>0, <1>1, <2>1, <2>2, <2>3, <2>5, <3>1, FinishStep
  <2> QED BY <1>6, <2>4, <2>5 DEF ClearTurn
<1>7. CASE Die(k)
  <2>1. k \in cancelled
    BY <1>0, <1>7 DEF Die, ValuesOK
  <2>2. Pc(k) # "flush input"
    BY <2>1 DEF TurnsInv, FinishersAreFree, Free, Pc
  <2>3. /\ idle' = idle /\ sent' = sent /\ numTurns' = numTurns /\ active' = active
        /\ history \subseteq history' /\ dropped \subseteq dropped' /\ turns' = turns
        /\ thread[k].own \cup thread[k].items \subseteq Settled /\ Become(k, Returned(k))
    BY <1>7 DEF Die, Settled
  <2>4. /\ ActiveTasks' = ActiveTasks /\ ActiveInput' = ActiveInput
        /\ \A t \in Turns : turns[t].input \subseteq turns'[t].input \cup Settled
    BY <2>3, TurnsKept
  <2> QED BY <1>0, <1>1, <2>2, <2>3, <2>4, FinishStep
<1> QED BY <1>4, <1>5, <1>6, <1>7

\* A task that empties its turn finishes a turn that the loop has no part in.
LEMMA LeavingStep ==
    ASSUME TurnsInv, LoopInv, NEW k \in Tasks, RemoveTask(k)
    PROVE  Keeps
<1>0. /\ ValuesOK /\ ThreadsOK /\ k \in Threads /\ thread[k] \in Locals
      /\ numTurns \in Nat /\ active \in Turns \cup {NoTurn} /\ active <= numTurns
      /\ NoTurn <= numTurns /\ NoTurn \notin Turns
  <2>1. ValuesOK /\ ThreadsOK /\ active <= numTurns
    BY TypeParts DEF TurnsInv, TasksAreInActiveTurn
  <2> QED BY <2>1, ThreadSorts, LocalType DEF ValuesOK
<1>1. /\ Pc(k) = "remove" /\ thread[k].turn = NoTurn
      /\ idle' = idle /\ sent' = sent /\ numTurns' = numTurns /\ active' = active
      /\ history \subseteq history' /\ dropped \subseteq dropped'
  BY DEF RemoveTask, TurnsInv, FinishersAreFree
<1>2. PICK pc \in {"flush input", "complete"}, turn \in Turns \cup {NoTurn} :
        /\ Become(k, [thread[k] EXCEPT !.pc = pc, !.turn = turn])
        /\ pc = "complete" => turn = NoTurn
        /\ pc = "flush input" => turn = active /\ ActiveTasks = {k}
  <2>1. thread[k] = [thread[k] EXCEPT !.turn = NoTurn]
    BY <1>0, <1>1 DEF Locals
  <2>2. CASE k \in ActiveTasks /\ turns[active].tasks = {k}
    <3>1. /\ Become(k, [thread[k] EXCEPT !.pc = "flush input", !.turn = active])
          /\ ActiveTasks = {k}
      BY <1>0, <2>2, ActiveType DEF RemoveTask
    <3> QED BY <1>0, <3>1
  <2>3. CASE Become(k, [thread[k] EXCEPT !.pc = "complete"])
    <3>1. [thread[k] EXCEPT !.pc = "complete"] = [thread[k] EXCEPT !.pc = "complete", !.turn = NoTurn]
      BY <1>0, <1>1 DEF Locals
    <3> QED BY <2>3, <3>1
  <2> QED BY <2>2, <2>3 DEF RemoveTask, GoTo
<1> DEFINE local == [thread[k] EXCEPT !.pc = pc, !.turn = turn]
<1>3. /\ local \in Locals /\ local.pc = pc /\ local.own = thread[k].own
      /\ local.items = thread[k].items /\ local.turn = turn
  BY <1>0, <1>2 DEF Locals, PcsOfTask
<1>4. Become(k, local)
  BY <1>2
<1> HIDE DEF local
<1>5. /\ \A t \in Turns : turns'[t].input = turns[t].input
      /\ \A t \in Turns : turns'[t].tasks = turns[t].tasks \ (IF t = active THEN {k} ELSE {})
  <2>1. CASE k \in ActiveTasks
    <3>1. active \in Turns /\ turns[active].tasks \ {k} \in SUBSET Tasks
      BY <1>0, <2>1, ActiveType, TurnRowType
    <3>2. turns' = [turns EXCEPT ![active].tasks = turns[active].tasks \ {k}]
      BY <1>0, <2>1, <3>1 DEF RemoveTask, ValuesOK
    <3>3. \A t \in Turns : turns'[t].tasks = IF t = active THEN turns[active].tasks \ {k}
                                                           ELSE turns[t].tasks
      BY <1>0, <3>1, <3>2, TasksType
    <3>4. \A t \in Turns : turns'[t].input = turns[t].input
      BY <1>0, <3>1, <3>2 DEF ValuesOK, TurnRows
    <3> QED BY <3>3, <3>4
  <2>2. CASE k \notin ActiveTasks
    <3>1. turns' = turns /\ \A t \in Turns : t = active => k \notin turns[t].tasks
      <4>1. turns' = turns
        BY <2>2 DEF RemoveTask
      <4> QED BY <1>0, <2>2, <4>1 DEF ActiveTasks
    <3>2. \A t \in Turns : turns[t].tasks = turns[t].tasks \ (IF t = active THEN {k} ELSE {})
      BY <3>1
    <3> QED BY <3>1, <3>2
  <2> QED BY <2>1, <2>2
<1>6. /\ ActiveInput' = ActiveInput /\ ActiveTasks' = ActiveTasks \ {k}
      /\ \A t \in Turns : turns[t].input \subseteq turns'[t].input \cup Settled
  BY <1>0, <1>1, <1>5 DEF ActiveInput, ActiveTasks, ValuesOK
<1>7. InputInv => thread[k].own = {} /\ thread[k].items = {}
  BY <1>1, FinisherHolds
<1>8. Pc(Loop) = "launch" => ActiveTasks = {}
  BY DEF LoopInv, LoopStartsAlone
<1>9. local.pc \in Finishing /\ local.turn <= numTurns
  <2>1. local.turn = NoTurn \/ local.turn = active
    BY <1>2, <1>3
  <2>2. active <= numTurns /\ NoTurn <= numTurns
    BY <1>0
  <2>3. local.pc \in Finishing
    BY <1>2, <1>3 DEF Finishing
  <2> QED BY <2>1, <2>2, <2>3
<1>10. local.turn = active /\ active # NoTurn
         => ActiveTasks' = {} /\ Pc(Loop) # "launch" /\ local.pc = "flush input"
  BY <1>2, <1>3, <1>6, <1>8
<1> QED BY <1>0, <1>1, <1>3, <1>4, <1>6, <1>7, <1>9, <1>10, FinishStep

(***************************************************************************)
(* What comes from outside.                                                *)
(***************************************************************************)

\* Input that arrives while nobody goes on.
LEMMA ArrivalStep ==
    ASSUME TurnsInv, LoopInv, thread' = thread, idle' = idle, numTurns' = numTurns,
           active' = active, ActiveTasks' = ActiveTasks,
           history \subseteq history', dropped \subseteq dropped',
           \A t \in Turns : turns[t].input \subseteq turns'[t].input,
           ActiveTasks # {} \/ ActiveInput' \cap UserInputs \subseteq ActiveInput,
           \A i \in sent' \cap UserInputs : i \in sent \cup ActiveInput'
    PROVE  Keeps
<1>0. /\ ThreadsOK /\ Guardian \in Threads /\ Guardian # Loop /\ Guardian \notin Tasks
      /\ thread[Guardian] \in Locals
  BY TypeParts, ThreadSorts, LocalType DEF TurnsInv
<1>1. Become(Guardian, thread[Guardian])
  BY <1>0 DEF Become, ThreadsOK
<1>2. LeavesStarting(Guardian, thread[Guardian]) /\ RespectsTurn(Guardian, thread[Guardian])
  BY <1>0 DEF LoopInv, OnlyLoopStarts, LeavesStarting, RespectsTurn, Pc
<1>3. idle' = {}
  BY DEF LoopInv, OnlyLoopStarts
<1>4. LoopInv'
  BY <1>0, <1>1, <1>2, <1>3, LoopFrame
<1>5. ASSUME InputInv PROVE InputInv'
  <2>1. Holds(Guardian, thread[Guardian])
    BY <1>0, <1>5 DEF InputInv, InputIsPassedOn, Holds, Pc
  <2>2. LosesNothing(Guardian, thread[Guardian])
    BY DEF LosesNothing, Pc
  <2>3. KeepsTurn(Guardian, thread[Guardian])
    BY <1>0 DEF KeepsTurn
  <2> QED BY <1>0, <1>1, <1>5, <2>1, <2>2, <2>3, InputFrame
<1> QED BY <1>4, <1>5 DEF Keeps

\* Input is steered into a turn with a task; mail waits; an injected message is
\* not one a user waits for.
LEMMA Arrivals ==
    ASSUME TurnsInv, LoopInv, LoopOnly,
           \/ \E i \in UserInputs : Steer(i) \/ UserInputSteered(i)
           \/ \E i \in TriggerMail \cup PlainMail : Mail(i)
           \/ \E i \in Injected : Inject(i)
    PROVE  Keeps
<1>0. ValuesOK
  BY TypeParts DEF TurnsInv
<1>1. ASSUME NEW i \in UserInputs, Steer(i) \/ UserInputSteered(i) PROVE Keeps
  <2>1. active \in Turns /\ ActiveTasks # {}
    BY <1>0, <1>1, ActiveType DEF Steer, UserInputSteered, CanSteer
  <2>2. /\ thread' = thread /\ idle' = idle /\ numTurns' = numTurns /\ active' = active
        /\ history' = history /\ dropped' = dropped /\ sent' = sent \cup {i} /\ SteerIn(i)
    BY <1>1 DEF Steer, UserInputSteered, Submit
  <2>3. \A t \in Turns :
          /\ turns'[t].tasks = turns[t].tasks
          /\ turns'[t].input = turns[t].input \cup (IF t = active THEN {i} ELSE {})
    BY <1>0, <2>1, <2>2 DEF SteerIn, ValuesOK, TurnRows
  <2>4. /\ ActiveTasks' = ActiveTasks /\ i \in ActiveInput'
        /\ \A t \in Turns : turns[t].input \subseteq turns'[t].input
    BY <2>1, <2>2, <2>3 DEF ActiveTasks, ActiveInput
  <2> QED BY <2>1, <2>2, <2>4, ArrivalStep
<1>2. ASSUME NEW i \in TriggerMail \cup PlainMail, Mail(i) PROVE Keeps
  <2>1. /\ thread' = thread /\ idle' = idle /\ numTurns' = numTurns /\ active' = active
        /\ history' = history /\ dropped' = dropped /\ sent' = sent \cup {i} /\ turns' = turns
        /\ i \notin UserInputs
    BY <1>2, KindsAssumption DEF Mail, Submit, LoopOnly
  <2>2. /\ ActiveInput' = ActiveInput /\ ActiveTasks' = ActiveTasks
        /\ \A t \in Turns : turns[t].input \subseteq turns'[t].input
    BY <2>1, TurnsKept
  <2> QED BY <1>2, <2>1, <2>2, ArrivalStep
<1>3. ASSUME NEW i \in Injected, Inject(i) PROVE Keeps
  <2>1. /\ thread' = thread /\ idle' = idle /\ numTurns' = numTurns /\ active' = active
        /\ history \subseteq history' /\ dropped' = dropped /\ sent' = sent \cup {i}
        /\ i \notin UserInputs
    BY <1>3, KindsAssumption DEF Inject, Submit
  <2>2. {i} \in SUBSET Items /\ (active # NoTurn => active \in Turns)
    BY <1>0 DEF Items, ValuesOK
  <2>3. \A t \in Turns :
          /\ turns'[t].tasks = turns[t].tasks
          /\ turns[t].input \subseteq turns'[t].input
          /\ turns'[t].input \subseteq turns[t].input \cup {i}
    <3>1. CASE turns' = turns
      BY <3>1
    <3>2. CASE active # NoTurn /\ turns' = PushInput(active, {i})
      <4>1. \A t \in Turns : turns'[t].tasks = turns[t].tasks
        BY <1>0, <2>2, <3>2, PushType
      <4>2. \A t \in Turns : turns'[t].input = IF t = active THEN turns[t].input \cup {i}
                                                             ELSE turns[t].input
        BY <1>0, <2>2, <3>2, InputPushed
      <4> QED BY <4>1, <4>2
    <3> QED BY <1>3, <3>1, <3>2 DEF Inject
  <2>4. ActiveTasks' = ActiveTasks /\ ActiveInput' \cap UserInputs \subseteq ActiveInput
    BY <2>1, <2>2, <2>3 DEF ActiveTasks, ActiveInput
  <2> QED BY <2>1, <2>3, <2>4, ArrivalStep
<1> QED BY <1>1, <1>2, <1>3

\* The loop turns to a user message or to an interrupt.
LEMMA LoopTurnsTo ==
    ASSUME TurnsInv, LoopInv, (\E i \in UserItems : UserInputSpawns(i)) \/ Interrupt
    PROVE  Keeps
<1>0. /\ ValuesOK /\ ThreadsOK /\ Loop \in Threads /\ Loop # Guardian /\ Loop \notin Tasks
  BY TypeParts, ThreadSorts DEF TurnsInv
<1>1. /\ Pc(Loop) = "idle" /\ idle' = {} /\ numTurns' = numTurns /\ active' = active
      /\ turns' = turns /\ history' = history /\ dropped' = dropped
  BY DEF UserInputSpawns, Interrupt, LoopInv, OnlyLoopStarts
<1>2. PICK local \in Locals :
        /\ Become(Loop, local) /\ local.pc = "abort" /\ local.items = {}
        /\ local.own # {} => local.reason = "Replaced"
        /\ \A i \in sent' \cap UserInputs : i \in sent \cup local.own
  <2>1. ASSUME NEW i \in UserItems, UserInputSpawns(i)
        PROVE  \E l \in Locals :
                 /\ Become(Loop, l) /\ l.pc = "abort" /\ l.items = {}
                 /\ l.own # {} => l.reason = "Replaced"
                 /\ \A j \in sent' \cap UserInputs : j \in sent \cup l.own
    <3> DEFINE l == [Rest EXCEPT !.pc = "abort", !.own = {i}, !.new = numTasks + 1]
    <3>1. numTasks + 1 \in Tasks
      <4>1. numTasks \in 0..MaxTasks /\ numTasks < MaxTasks /\ MaxTasks \in Nat
        BY <1>0, <2>1, BoundsAssumption DEF UserInputSpawns, ValuesOK
      <4> QED BY <4>1
    <3>2. /\ l \in Locals /\ l.pc = "abort" /\ l.items = {} /\ l.own = {i}
          /\ l.reason = "Replaced"
      BY <3>1 DEF Rest, Locals, PcsOfSpawner, Items
    <3>3. Become(Loop, l) /\ sent' = sent \cup {i}
      BY <2>1 DEF UserInputSpawns, Submit
    <3> HIDE DEF l
    <3> QED BY <3>2, <3>3
  <2>2. ASSUME Interrupt
        PROVE  \E l \in Locals :
                 /\ Become(Loop, l) /\ l.pc = "abort" /\ l.items = {}
                 /\ l.own # {} => l.reason = "Replaced"
                 /\ \A j \in sent' \cap UserInputs : j \in sent \cup l.own
    <3> DEFINE l == [Rest EXCEPT !.pc = "abort", !.reason = "Interrupted"]
    <3>1. l \in Locals /\ l.pc = "abort" /\ l.items = {} /\ l.own = {}
      BY DEF Rest, Locals, PcsOfSpawner
    <3>2. Become(Loop, l) /\ sent' = sent
      BY <2>2 DEF Interrupt
    <3> HIDE DEF l
    <3> QED BY <3>1, <3>2
  <2> QED BY <2>1, <2>2
<1>3. LeavesStarting(Loop, local) /\ RespectsTurn(Loop, local)
  BY <1>0, <1>2 DEF LeavesStarting, RespectsTurn, Starting, Aborting
<1>4. /\ ActiveInput' = ActiveInput /\ ActiveTasks' = ActiveTasks
      /\ \A t \in Turns : turns[t].input \subseteq turns'[t].input
  BY <1>1, TurnsKept
<1>5. LoopInv'
  BY <1>0, <1>1, <1>2, <1>3, <1>4, LoopFrame
<1>6. ASSUME InputInv PROVE InputInv'
  <2>1. Holds(Loop, local)
    BY <1>2 DEF Holds
  <2>2. thread[Loop].own = {} /\ thread[Loop].items = {}
    BY <1>0, <1>1, <1>6 DEF InputInv, InputIsPassedOn, Aborting, Starting
  <2>3. LosesNothing(Loop, local)
    BY <1>1, <1>4, <2>2 DEF LosesNothing, Aborting
  <2>4. KeepsTurn(Loop, local)
    BY <1>0, <1>4 DEF KeepsTurn
  <2> QED BY <1>0, <1>1, <1>2, <1>6, <2>1, <2>3, <2>4, InputFrame
<1> QED BY <1>5, <1>6 DEF Keeps

(***************************************************************************)
(* Aborting.                                                               *)
(***************************************************************************)

\* The tasks of a turn that is taken leave it, and its input stays in it.
LEMMA TakenTurn ==
    ASSUME ValuesOK, NEW p, NEW local, TakeTurn(p, local)
    PROVE  active' = NoTurn /\ \A t \in Turns : turns'[t].input = turns[t].input
<1>1. CASE active = NoTurn
  BY <1>1 DEF TakeTurn
<1>2. CASE active # NoTurn
  BY <1>2 DEF TakeTurn, ValuesOK, TurnRows
<1> QED BY <1>1, <1>2

\* The loop or the guardian takes the turn: its input is in the hands of the one
\* who aborts or of the task that is finishing it.
LEMMA TakingSteps ==
    ASSUME TurnsInv, LoopInv, AbortAllTasks \/ \E k \in Tasks : AbortTurnIfActive(k)
    PROVE  Keeps
<1>0. /\ ValuesOK /\ ThreadsOK /\ Loop \in Threads /\ Guardian \in Threads /\ Loop # Guardian
      /\ Loop \notin Tasks /\ Guardian \notin Tasks /\ Loop \in Spawners /\ Guardian \in Spawners
      /\ thread[Loop] \in Locals /\ active \in Turns \cup {NoTurn}
      /\ ActiveTasks \in SUBSET Tasks
  <2>1. ValuesOK /\ ThreadsOK
    BY TypeParts DEF TurnsInv
  <2>2. Loop \in Spawners /\ Guardian \in Spawners
    BY DEF Spawners
  <2> QED BY <2>1, <2>2, ThreadSorts, LocalType, ActiveType DEF ValuesOK
<1>1. /\ idle' = {} /\ numTurns' = numTurns /\ sent' = sent
      /\ history' = history /\ dropped' = dropped
  BY DEF AbortAllTasks, AbortTurnIfActive, LoopInv, OnlyLoopStarts
<1>2. active' = NoTurn /\ \A t \in Turns : turns'[t].input = turns[t].input
  BY <1>0, TakenTurn DEF AbortAllTasks, AbortTurnIfActive
<1>3. ASSUME NEW p \in {Loop, Guardian}, NEW local \in Locals, Become(p, local),
             Pc(p) \in {"idle", "abort"}, LeavesStarting(p, local),
             InputInv => /\ Holds(p, local) /\ LeavesTurn(p, local)
                         /\ thread[p].own \cup thread[p].items \subseteq local.own \cup local.items
      PROVE  Keeps
  <2>1. p \in Threads /\ p \notin Tasks
    BY <1>0
  <2>2. LoopInv'
    BY <1>1, <1>2, <1>3, <2>1, LoopFrame
  <2>3. ASSUME InputInv PROVE InputInv'
    <3>1. LosesNothing(p, local)
      BY <1>1, <1>2, <1>3, <2>3 DEF LosesNothing, Aborting
    <3> QED BY <1>1, <1>2, <1>3, <2>1, <2>3, <3>1, InputFrame
  <2> QED BY <2>2, <2>3 DEF Keeps
<1>4. CASE AbortAllTasks
  <2>1. Pc(Loop) = "abort" /\ TakeTurn(Loop, thread[Loop])
    BY <1>4 DEF AbortAllTasks
  <2>2. ASSUME InputInv
        PROVE  /\ thread[Loop].items = {}
               /\ thread[Loop].own # {} => /\ thread[Loop].reason = "Replaced"
                                           /\ thread[Loop].new # NoTask
    <3>1. /\ thread[Loop].items = {}
          /\ thread[Loop].own # {} => thread[Loop].reason = "Replaced"
      BY <1>0, <2>1, <2>2 DEF InputInv, InputIsPassedOn
    <3>2. thread[Loop].reason = "Replaced" => thread[Loop].new # NoTask
      BY <1>0, <2>1 DEF TurnsInv, NewTasksAreUnborn
    <3> QED BY <3>1, <3>2
  <2>3. ASSUME InputInv, ActiveTasks = {}, NEW local PROVE LeavesTurn(Loop, local)
    <3>1. CASE active = NoTurn
      BY <3>1 DEF LeavesTurn
    <3>2. CASE active # NoTurn
      <4>1. PICK q \in Threads : \/ Pc(q) \in Starting
                                 \/ Pc(q) \in Finishing /\ thread[q].turn = active
        BY <2>3, <3>2 DEF TurnsInv, EmptyTurnHasAnOwner
      <4>2. Pc(q) \notin Starting
        BY <2>1, <4>1 DEF LoopInv, OnlyLoopStarts, Starting
      <4>3. q # Loop
        BY <2>1, <4>1, <4>2 DEF Finishing
      <4>4. q \in Tasks
        BY <1>0, <4>1, <4>2 DEF ThreadsOK, PcsOfSpawner, Finishing, Threads
      <4>5. CASE Pc(q) = "flush input"
        BY <4>1, <4>2, <4>3, <4>5 DEF LeavesTurn
      <4>6. CASE Pc(q) \in {"complete", "clear"}
        BY <2>3, <3>2, <4>1, <4>2, <4>4, <4>6 DEF LeavesTurn, InputInv, InputIsPassedOn
      <4> QED BY <4>1, <4>2, <4>5, <4>6 DEF Finishing
    <3> QED BY <3>1, <3>2
  <2>4. CASE ActiveTasks = {} /\ thread[Loop].new = NoTask
    <3>1. Become(Loop, Returned(Loop))
      BY <2>1, <2>4 DEF TakeTurn
    <3>2. /\ Returned(Loop) \in Locals /\ Returned(Loop).pc = "idle"
          /\ Returned(Loop).own = {} /\ Returned(Loop).items = {}
      BY <1>0, RestType
    <3>3. LeavesStarting(Loop, Returned(Loop)) /\ Holds(Loop, Returned(Loop))
      BY <1>0, <3>2 DEF LeavesStarting, Holds, Starting
    <3> QED BY <1>3, <2>1, <2>2, <2>3, <2>4, <3>1, <3>2, <3>3
  <2>5. CASE ActiveTasks # {} \/ thread[Loop].new # NoTask
    <3> DEFINE pc == IF ActiveTasks # {} THEN "cancel" ELSE "gather"
               local == [thread[Loop] EXCEPT !.pc = pc, !.turn = active, !.victims = ActiveTasks]
    <3>1. Become(Loop, local)
      BY <2>1, <2>5 DEF TakeTurn
    <3>2. /\ pc \in PcsOfSpawner /\ pc \in {"cancel", "gather"}
          /\ pc = "gather" => ActiveTasks = {}
      BY DEF PcsOfSpawner
    <3> HIDE DEF pc
    <3>3. /\ local \in Locals /\ local.pc = pc /\ local.own = thread[Loop].own
          /\ local.items = thread[Loop].items /\ local.turn = active
          /\ local.reason = thread[Loop].reason
      BY <1>0, <3>2 DEF Locals
    <3> HIDE DEF local
    <3>4. LeavesStarting(Loop, local)
      BY <1>0, <3>2, <3>3 DEF LeavesStarting
    <3>5. InputInv => Holds(Loop, local)
      BY <2>2, <3>2, <3>3 DEF Holds, Aborting, Starting
    <3>6. InputInv => LeavesTurn(Loop, local)
      <4>1. CASE pc = "cancel"
        BY <3>3, <4>1 DEF LeavesTurn, Aborting
      <4> QED BY <2>3, <3>2, <4>1
    <3> QED BY <1>3, <2>1, <3>1, <3>3, <3>4, <3>5, <3>6
  <2> QED BY <2>4, <2>5
<1>5. ASSUME NEW k \in Tasks, AbortTurnIfActive(k) PROVE Keeps
  <2>1. /\ Pc(Guardian) = "idle" /\ ActiveTasks # {}
        /\ TakeTurn(Guardian, [Rest EXCEPT !.reason = "Interrupted"])
    BY <1>5 DEF AbortTurnIfActive
  <2> DEFINE rest == [Rest EXCEPT !.reason = "Interrupted"]
             local == [rest EXCEPT !.pc = "cancel", !.turn = active, !.victims = ActiveTasks]
  <2>2. Become(Guardian, local)
    BY <2>1 DEF TakeTurn
  <2>3. rest \in Locals /\ rest.own = {} /\ rest.items = {} /\ rest.reason = "Interrupted"
    BY RestType DEF Rest, Locals
  <2> HIDE DEF rest
  <2>4. /\ local \in Locals /\ local.pc = "cancel" /\ local.own = {} /\ local.items = {}
        /\ local.turn = active /\ local.reason = "Interrupted"
    BY <1>0, <2>3 DEF Locals, PcsOfSpawner
  <2> HIDE DEF local
  <2>5. /\ LeavesStarting(Guardian, local) /\ Holds(Guardian, local)
        /\ LeavesTurn(Guardian, local)
    BY <2>4 DEF LeavesStarting, Holds, LeavesTurn, Starting, Aborting
  <2>6. InputInv => thread[Guardian].own = {} /\ thread[Guardian].items = {}
    BY <1>0 DEF InputInv, InputIsPassedOn
  <2> QED BY <1>3, <2>1, <2>2, <2>4, <2>5, <2>6
<1> QED BY <1>4, <1>5

\* Moving along the abort leaves the turn that is aborted in the same hands.
LEMMA AbortingSteps ==
    ASSUME TurnsInv, LoopInv, NEW p \in Spawners,
           (\E k \in Tasks : CancelVictim(p, k)) \/ KillVictim(p)
    PROVE  Keeps
<1>0. /\ ValuesOK /\ ThreadsOK /\ p \in Threads /\ p \notin Tasks /\ thread[p] \in Locals
      /\ thread[p].victims \subseteq Tasks
  BY TypeParts, ThreadSorts, LocalType DEF TurnsInv
<1>1. /\ idle' = {} /\ numTurns' = numTurns /\ sent' = sent /\ active' = active
      /\ history' = history /\ dropped' = dropped /\ turns' = turns
      /\ Pc(p) \in {"cancel", "grace"} /\ Pc(p) \in Aborting
  BY DEF CancelVictim, KillVictim, LoopInv, OnlyLoopStarts, Aborting
<1>2. PICK pc \in Aborting, victim \in Tasks \cup {NoTask}, victims \in SUBSET Tasks :
        Become(p, [thread[p] EXCEPT !.pc = pc, !.victim = victim, !.victims = victims])
  <2>1. ASSUME NEW k \in Tasks, CancelVictim(p, k)
        PROVE  Become(p, [thread[p] EXCEPT !.pc = "grace", !.victim = k,
                                           !.victims = thread[p].victims \ {k}])
    BY <1>0, <2>1 DEF CancelVictim, Locals
  <2>2. CASE \E k \in Tasks : CancelVictim(p, k)
    BY <1>0, <2>1, <2>2 DEF Aborting
  <2>3. CASE KillVictim(p)
    <3> DEFINE pc == IF thread[p].victims = {} THEN "clear pending" ELSE "cancel"
    <3>1. Become(p, [thread[p] EXCEPT !.pc = pc, !.victim = NoTask,
                                      !.victims = thread[p].victims])
      BY <1>0, <2>3 DEF KillVictim, Locals
    <3>2. pc \in Aborting
      BY DEF Aborting
    <3> QED BY <1>0, <3>1, <3>2
  <2> QED BY <2>2, <2>3
<1> DEFINE local == [thread[p] EXCEPT !.pc = pc, !.victim = victim, !.victims = victims]
<1>3. /\ local \in Locals /\ local.pc = pc /\ local.own = thread[p].own
      /\ local.items = thread[p].items /\ local.turn = thread[p].turn
      /\ local.reason = thread[p].reason
  BY <1>0, <1>2 DEF Locals, Aborting, PcsOfSpawner
<1>4. Become(p, local)
  BY <1>2
<1> HIDE DEF local
<1>5. pc \notin Starting /\ pc \notin {"reserve", "queue"}
  BY <1>2 DEF Aborting, Starting
<1>6. LeavesStarting(p, local) /\ RespectsTurn(p, local)
  BY <1>0, <1>1, <1>3, <1>5
     DEF LoopInv, OnlyLoopStarts, LoopStartsAlone, LeavesStarting, RespectsTurn
<1>7. /\ ActiveInput' = ActiveInput /\ ActiveTasks' = ActiveTasks
      /\ \A t \in Turns : turns[t].input \subseteq turns'[t].input
  BY <1>1, TurnsKept
<1>8. LoopInv'
  BY <1>0, <1>1, <1>3, <1>4, <1>6, <1>7, LoopFrame
<1>9. ASSUME InputInv PROVE InputInv'
  <2>1. Holds(p, local)
    BY <1>0, <1>1, <1>2, <1>3, <1>9 DEF InputInv, InputIsPassedOn, Holds
  <2>2. LosesNothing(p, local)
    BY <1>1, <1>2, <1>3, <1>7 DEF LosesNothing
  <2>3. KeepsTurn(p, local)
    BY <1>0, <1>7 DEF KeepsTurn
  <2> QED BY <1>0, <1>1, <1>3, <1>4, <1>9, <2>1, <2>2, <2>3, InputFrame
<1> QED BY <1>8, <1>9 DEF Keeps

\* What is cleared with an aborted turn has been let go of on purpose.
LEMMA ClearingStep ==
    ASSUME TurnsInv, LoopInv, NEW p \in Spawners, ClearPending(p)
    PROVE  Keeps
<1>0. /\ ValuesOK /\ ThreadsOK /\ p \in Threads /\ p \notin Tasks /\ thread[p] \in Locals
      /\ p \in {Loop, Guardian}
  BY TypeParts, ThreadSorts, LocalType DEF TurnsInv, Spawners
<1>1. /\ idle' = {} /\ numTurns' = numTurns /\ sent' = sent /\ active' = active
      /\ history' = history /\ dropped \subseteq dropped'
      /\ turns[thread[p].turn].input \subseteq Settled
      /\ Pc(p) = "clear pending" /\ Pc(p) \in Aborting
  BY DEF ClearPending, LoopInv, OnlyLoopStarts, Aborting, Settled
<1>2. thread[p].turn \in Turns
  BY <1>0, <1>1, LocalType DEF TurnsInv, VictimsAreHeld
<1>3. /\ \A t \in Turns : turns'[t].input = IF t = thread[p].turn THEN {} ELSE turns[t].input
      /\ \A t \in Turns : turns'[t].tasks = turns[t].tasks
  BY <1>0, <1>2, InputTaken, TurnRowTasks DEF ClearPending
<1>4. /\ ActiveTasks' = ActiveTasks /\ ActiveInput' \subseteq ActiveInput
      /\ \A t \in Turns : turns[t].input \subseteq turns'[t].input \cup Settled
  BY <1>0, <1>1, <1>3 DEF ActiveTasks, ActiveInput, ValuesOK
<1> DEFINE pc == IF thread[p].reason = "Interrupted" THEN "check" ELSE "gather"
           local == [thread[p] EXCEPT !.turn = NoTurn, !.pc = pc]
<1>5. Become(p, local)
  BY DEF ClearPending
<1>6. /\ pc \in {"check", "gather"} /\ pc \in PcsOfSpawner
      /\ thread[p].reason \in {"Replaced", "Interrupted"}
      /\ pc = "gather" => thread[p].reason = "Replaced"
      /\ pc = "check" => thread[p].reason = "Interrupted"
  BY <1>0 DEF Locals, PcsOfSpawner
<1> HIDE DEF pc
<1>7. /\ local \in Locals /\ local.pc = pc /\ local.own = thread[p].own
      /\ local.items = thread[p].items /\ local.turn = NoTurn
      /\ local.reason = thread[p].reason
  BY <1>0, <1>6 DEF Locals
<1> HIDE DEF local
<1>8. pc = "gather" => p = Loop /\ active = NoTurn
  BY <1>0, <1>1, <1>6 DEF LoopInv, OnlyLoopStarts, LoopStartsAlone
<1>9. LeavesStarting(p, local) /\ RespectsTurn(p, local)
  BY <1>0, <1>6, <1>7, <1>8 DEF LeavesStarting, RespectsTurn, Starting, Aborting
<1>10. LoopInv'
  BY <1>0, <1>1, <1>4, <1>5, <1>7, <1>9, LoopFrame
<1>11. ASSUME InputInv PROVE InputInv'
  <2>1. /\ thread[p].items = {}
        /\ thread[p].own # {} => p = Loop /\ thread[p].reason = "Replaced"
    BY <1>0, <1>1, <1>11 DEF InputInv, InputIsPassedOn
  <2>2. Holds(p, local)
    BY <1>6, <1>7, <1>8, <2>1 DEF Holds, Starting
  <2>3. LosesNothing(p, local)
    BY <1>1, <1>4, <1>7 DEF LosesNothing
  <2>4. KeepsTurn(p, local)
    BY <1>0, <1>4 DEF KeepsTurn
  <2> QED BY <1>0, <1>1, <1>5, <1>7, <1>11, <2>2, <2>3, <2>4, InputFrame
<1> QED BY <1>10, <1>11 DEF Keeps

(***************************************************************************)
(* Starting a task.                                                        *)
(***************************************************************************)

\* Whoever looks for pending work finds none.
LEMMA CheckingStep ==
    ASSUME TurnsInv, LoopInv, LoopOnly, NEW p \in Threads, CheckPendingWork(p)
    PROVE  Keeps
<1>0. ThreadsOK /\ ValuesOK
  BY TypeParts DEF TurnsInv
<1>1. /\ Pc(p) = "check" /\ idle' = {} /\ numTurns' = numTurns /\ sent' = sent
      /\ active' = active /\ history' = history /\ dropped' = dropped /\ turns' = turns
  BY DEF CheckPendingWork, LoopInv, OnlyLoopStarts
<1>2. Become(p, Returned(p))
  BY DEF CheckPendingWork, PendingWork, LoopInv, OnlyLoopStarts, LoopOnly
<1>3. /\ Returned(p) \in Locals /\ Returned(p).turn = NoTurn /\ Returned(p).own = {}
      /\ Returned(p).items = {} /\ Returned(p).pc \in {"idle", "done"}
  BY RestType DEF Threads
<1>4. LeavesStarting(p, Returned(p)) /\ RespectsTurn(p, Returned(p))
  BY <1>3 DEF LeavesStarting, RespectsTurn, Starting, Aborting, Finishing
<1>5. Returned(p).turn <= numTurns
  <2>1. NoTurn <= numTurns
    BY <1>0 DEF ValuesOK
  <2> QED BY <1>3, <2>1
<1>6. /\ ActiveInput' = ActiveInput /\ ActiveTasks' = ActiveTasks
      /\ \A t \in Turns : turns[t].input \subseteq turns'[t].input
  BY <1>1, TurnsKept
<1>7. LoopInv'
  BY <1>1, <1>2, <1>3, <1>4, <1>5, <1>6, LoopFrame
<1>8. ASSUME InputInv PROVE InputInv'
  <2>1. thread[p].own = {} /\ thread[p].items = {}
    BY <1>1, <1>8 DEF InputInv, InputIsPassedOn, Aborting, Starting
  <2>2. Holds(p, Returned(p)) /\ KeepsTurn(p, Returned(p))
    BY <1>3, <1>6 DEF Holds, KeepsTurn
  <2>3. LosesNothing(p, Returned(p))
    BY <1>1, <1>6, <2>1 DEF LosesNothing, Aborting
  <2> QED BY <1>1, <1>2, <1>3, <1>8, <2>2, <2>3, InputFrame
<1> QED BY <1>7, <1>8 DEF Keeps

\* The loop gathers what its new task is to find pending: nothing but mail.
LEMMA GatheringSteps ==
    ASSUME TurnsInv, LoopInv, NEW p \in Threads,
           TakeQueuedItems(p) \/ GatherPending(p) \/ GatherMail(p)
    PROVE  Keeps
<1>0. /\ ThreadsOK /\ ValuesOK /\ thread[p] \in Locals /\ thread[p].items \subseteq Items
      /\ Loop \notin Tasks /\ Loop # Guardian
  BY TypeParts, LocalType, ThreadSorts DEF TurnsInv
<1>1. /\ Pc(p) \in {"gather", "pending", "mail"} /\ idle = {} /\ idle' = {}
      /\ numTurns' = numTurns /\ sent' = sent /\ active' = active /\ history' = history
      /\ dropped' = dropped
  BY DEF TakeQueuedItems, GatherPending, TakePendingInput, GatherMail, DrainMailbox, LoopInv,
     OnlyLoopStarts
<1>2. p = Loop /\ active = NoTurn
  BY <1>1 DEF LoopInv, OnlyLoopStarts, LoopStartsAlone, Starting
<1>3. turns' = turns /\ ActiveInput = {}
  BY <1>2 DEF TakeQueuedItems, GatherPending, TakePendingInput, GatherMail, DrainMailbox,
     ActiveInput
<1>4. PICK pc \in {"pending", "mail", "attach"}, items \in SUBSET Items,
           turn \in Turns \cup {NoTurn} :
        /\ Become(p, [thread[p] EXCEPT !.pc = pc, !.items = items, !.turn = turn])
        /\ Pc(p) # "gather" => thread[p].items \subseteq items
  <2>1. CASE TakeQueuedItems(p)
    <3>1. /\ Become(p, [thread[p] EXCEPT !.pc = "pending", !.items = idle, !.turn = NoTurn])
          /\ Pc(p) = "gather"
      BY <1>0, <2>1 DEF TakeQueuedItems, Locals
    <3> QED BY <1>0, <3>1 DEF ValuesOK
  <2>2. CASE GatherPending(p)
    <3>1. Become(p, [thread[p] EXCEPT !.pc = IF AcceptsMail THEN "mail" ELSE "attach",
                       !.items = thread[p].items \cup ActiveInput, !.turn = thread[p].turn])
      BY <1>0, <2>2 DEF GatherPending, TakePendingInput, Locals
    <3>2. thread[p].items \cup ActiveInput \in SUBSET Items
      BY <1>0, ActiveType
    <3> QED BY <1>0, <3>1, <3>2, LocalType
  <2>3. CASE GatherMail(p)
    <3>1. Become(p, [thread[p] EXCEPT !.pc = "attach",
                       !.items = thread[p].items \cup mailbox, !.turn = thread[p].turn])
      BY <1>0, <2>3 DEF GatherMail, DrainMailbox, Locals
    <3>2. thread[p].items \cup mailbox \in SUBSET Items
      BY <1>0 DEF ValuesOK, Items
    <3> QED BY <1>0, <3>1, <3>2, LocalType
  <2> QED BY <2>1, <2>2, <2>3
<1> DEFINE local == [thread[p] EXCEPT !.pc = pc, !.items = items, !.turn = turn]
<1>5. /\ local \in Locals /\ local.pc = pc /\ local.own = thread[p].own
      /\ local.items = items /\ local.reason = thread[p].reason
  BY <1>0, <1>4, ZenonT(60) DEF Locals, PcsOfTask
<1>6. Become(p, local)
  BY <1>4
<1> HIDE DEF local
<1>7. LeavesStarting(p, local) /\ RespectsTurn(p, local)
  BY <1>0, <1>2, <1>4, <1>5 DEF LeavesStarting, RespectsTurn, Starting, Aborting
<1>8. /\ ActiveInput' = ActiveInput /\ ActiveTasks' = ActiveTasks
      /\ \A t \in Turns : turns[t].input \subseteq turns'[t].input
  BY <1>1, <1>3, TurnsKept
<1>9. LoopInv'
  BY <1>0, <1>1, <1>2, <1>5, <1>6, <1>7, <1>8, LoopFrame
<1>10. ASSUME InputInv PROVE InputInv'
  <2>1. /\ thread[p].own # {} => thread[p].reason = "Replaced"
        /\ Pc(p) = "gather" => thread[p].items = {}
    BY <1>0, <1>1, <1>2, <1>10 DEF InputInv, InputIsPassedOn
  <2>2. Holds(p, local)
    BY <1>2, <1>4, <1>5, <2>1 DEF Holds, Starting
  <2>3. LosesNothing(p, local)
    BY <1>1, <1>4, <1>5, <1>8, <2>1 DEF LosesNothing, Aborting
  <2>4. KeepsTurn(p, local)
    BY <1>0, <1>2, <1>8 DEF KeepsTurn
  <2> QED BY <1>1, <1>5, <1>6, <1>10, <2>2, <2>3, <2>4, InputFrame
<1> QED BY <1>9, <1>10 DEF Keeps

\* The turn object that the loop attaches input to is a new one.
LEMMA AttachingStep ==
    ASSUME TurnsInv, LoopInv, NEW p \in Threads, AttachInput(p)
    PROVE  Keeps
<1>0. /\ ThreadsOK /\ ValuesOK /\ thread[p] \in Locals /\ thread[p].items \subseteq Items
      /\ Loop \in Threads /\ Loop \notin Tasks /\ Loop # Guardian /\ Tasks \subseteq Threads
  BY TypeParts, LocalType, ThreadSorts DEF TurnsInv
<1>1. /\ Pc(p) = "attach" /\ idle' = {} /\ EnterTurn /\ sent' = sent
      /\ history' = history /\ dropped' = dropped /\ turns' = PushInput(TurnHere, thread[p].items)
  BY DEF AttachInput, LoopInv, OnlyLoopStarts
<1>2. p = Loop /\ active = NoTurn
  BY <1>1 DEF LoopInv, OnlyLoopStarts, LoopStartsAlone, Starting
<1>3. /\ TurnHere \in Turns /\ active' = TurnHere /\ TurnHere = numTurns + 1
      /\ numTurns' = numTurns + 1 /\ numTurns \in Nat
  <2>1. TurnHere \in Turns /\ active' = TurnHere /\ TurnHere = numTurns' /\ TurnHere = numTurns + 1
    BY <1>0, <1>1, <1>2, EnterTurnType
  <2>2. numTurns \in Nat
    BY <1>0 DEF ValuesOK
  <2> QED BY <2>1, <2>2
<1>4. /\ \A t \in Turns : turns'[t].input = IF t = active' THEN turns[t].input \cup thread[p].items
                                            ELSE turns[t].input
      /\ \A t \in Turns : turns'[t].tasks = turns[t].tasks
  <2>1. \A t \in Turns : turns'[t].input = IF t = TurnHere THEN turns[t].input \cup thread[p].items
                                           ELSE turns[t].input
    BY <1>0, <1>1, <1>3, InputPushed
  <2>2. \A t \in Turns : turns'[t].tasks = turns[t].tasks
    BY <1>0, <1>1, <1>3, PushType
  <2> QED BY <1>3, <2>1, <2>2
<1>5. /\ active' # NoTurn /\ active' \in Turns /\ turns[active'].tasks = {}
      /\ ActiveTasks' = {} /\ thread[p].items \subseteq ActiveInput'
      /\ \A t \in Turns : turns[t].input \subseteq turns'[t].input
  <2>1. active' # NoTurn /\ active' \in Turns
    BY <1>3
  <2>2. turns[active'].tasks = {}
    BY <1>2, <2>1 DEF TurnsInv, TasksAreInActiveTurn
  <2> QED BY <1>4, <2>1, <2>2 DEF ActiveTasks, ActiveInput
<1> DEFINE local == [thread[p] EXCEPT !.pc = "launch", !.items = {}]
<1>6. /\ local \in Locals /\ local.pc = "launch" /\ local.own = thread[p].own
      /\ local.items = {} /\ local.reason = thread[p].reason
  BY <1>0 DEF Locals, PcsOfSpawner
<1>7. Become(p, local)
  BY DEF AttachInput
<1> HIDE DEF local
<1>8. thread'[p] = local /\ \A q \in Threads : q # p => thread'[q] = thread[q]
  BY <1>0, <1>7 DEF Become, ThreadsOK
<1>9. LoopInv'
  <2>1. OnlyLoopStarts'
    BY <1>0, <1>1, <1>2, <1>6, <1>8 DEF LoopInv, OnlyLoopStarts, Starting, Aborting, Pc
  <2>2. \A k \in Tasks : thread'[k] = thread[k] /\ thread[k].turn <= numTurns
    BY <1>0, <1>2, <1>8 DEF LoopInv, LoopStartsAlone
  <2>3. \A k \in Tasks : thread[k].turn \in Turns \cup {NoTurn}
    BY <1>0, LocalType
  <2>4. \A k \in Tasks : thread'[k].turn <= numTurns' /\ thread'[k].turn # active'
    BY <1>3, <2>2, <2>3
  <2>5. LoopStartsAlone'
    BY <1>2, <1>5, <1>6, <1>8, <2>4 DEF LoopStartsAlone, Starting, Aborting, Pc
  <2> QED BY <2>1, <2>5 DEF LoopInv
<1>10. ASSUME InputInv PROVE InputInv'
  <2>1. thread[p].own # {} => thread[p].reason = "Replaced"
    BY <1>0, <1>1, <1>2, <1>10 DEF InputInv, InputIsPassedOn
  <2>2. Holds(p, local)
    BY <1>2, <1>6, <2>1 DEF Holds, Starting
  <2>3. LosesNothing(p, local)
    BY <1>1, <1>5, <1>6 DEF LosesNothing, Aborting
  <2> QED BY <1>1, <1>2, <1>3, <1>6, <1>7, <1>10, <2>2, <2>3, InputFrame
<1> QED BY <1>9, <1>10 DEF Keeps

\* The task is launched in a turn that nobody is finishing, and takes over the
\* input it is started with.
LEMMA LaunchingStep ==
    ASSUME TurnsInv, LoopInv, NEW p \in Threads, LaunchTask(p)
    PROVE  Keeps
<1> DEFINE k == thread[p].new
           born == [Rest EXCEPT !.pc = "spawned", !.own = thread[p].own]
<1>0. /\ ThreadsOK /\ ValuesOK /\ thread[p].own \subseteq Items
      /\ Loop \in Threads /\ Loop \notin Tasks /\ Loop # Guardian /\ Tasks \subseteq Threads
      /\ Loop \in Spawners
  BY TypeParts, LocalType, ThreadSorts DEF TurnsInv, Spawners
<1>1. /\ Pc(p) = "launch" /\ idle' = {} /\ EnterTurn /\ sent' = sent
      /\ history' = history /\ dropped' = dropped
  BY DEF LaunchTask, LoopInv, OnlyLoopStarts
<1>2. p = Loop /\ ActiveTasks = {}
  BY <1>1 DEF LoopInv, OnlyLoopStarts, LoopStartsAlone, Starting
<1>3. k \in Tasks /\ k # p /\ k \in Threads /\ thread[k] = Rest
  BY <1>0, <1>1, <1>2, LocalType
     DEF TurnsInv, NewTasksAreUnborn, UnbornAreUntouched, Starting
<1>4. /\ born \in Locals /\ born.pc = "spawned" /\ born.own = thread[p].own /\ born.items = {}
      /\ born.turn = NoTurn
  BY <1>0 DEF Rest, Locals, PcsOfTask
<1>5. thread' = [thread EXCEPT ![p] = Returned(p), ![k] = born]
  BY DEF LaunchTask
<1> HIDE DEF k, born
<1>6. /\ Returned(p).own = {} /\ Returned(p).items = {} /\ Returned(p).pc = "idle"
  BY <1>0, <1>2, RestType
<1>7. /\ thread'[p] = Returned(p) /\ thread'[k] = born
      /\ \A q \in Threads : q # p /\ q # k => thread'[q] = thread[q]
  BY <1>0, <1>3, <1>5 DEF ThreadsOK
<1>8. /\ TurnHere \in Turns /\ active' = TurnHere /\ numTurns \in Nat /\ numTurns <= numTurns'
      /\ active = NoTurn => active' = numTurns + 1 /\ numTurns' = numTurns + 1
      /\ active # NoTurn => active' = active /\ numTurns' = numTurns
  <2>1. /\ TurnHere \in Turns /\ active' = TurnHere /\ numTurns <= numTurns'
        /\ active = NoTurn => TurnHere = numTurns' /\ TurnHere = numTurns + 1
        /\ active # NoTurn => TurnHere = active /\ numTurns' = numTurns
    BY <1>0, <1>1, EnterTurnType
  <2>2. numTurns \in Nat
    BY <1>0 DEF ValuesOK
  <2> QED BY <2>1, <2>2
<1>9. \A t \in Turns : turns'[t].input = turns[t].input
  <2>1. turns' = [turns EXCEPT ![TurnHere].tasks = turns[TurnHere].tasks \cup {k}]
    BY <1>0, <1>8 DEF LaunchTask, ValuesOK, k
  <2> QED BY <1>0, <1>8, <2>1 DEF ValuesOK, TurnRows
<1>10. \A j \in Tasks : /\ thread'[j].turn <= numTurns'
                        /\ ~(thread'[j].pc \in Finishing /\ thread'[j].turn = active')
  <2> SUFFICES ASSUME NEW j \in Tasks
               PROVE  /\ thread'[j].turn <= numTurns'
                      /\ ~(thread'[j].pc \in Finishing /\ thread'[j].turn = active')
    OBVIOUS
  <2>1. CASE j = k
    <3>1. NoTurn <= numTurns'
      BY <1>8
    <3>2. born.pc \notin Finishing
      BY <1>4 DEF Finishing
    <3> QED BY <1>4, <1>7, <2>1, <3>1, <3>2
  <2>2. CASE j # k
    <3>1. thread'[j] = thread[j] /\ thread[j].turn <= numTurns /\ thread[j].turn \in Turns \cup {NoTurn}
      BY <1>0, <1>2, <1>7, <2>2, LocalType DEF LoopInv, LoopStartsAlone
    <3>2. thread[j].turn <= numTurns'
      BY <1>8, <3>1
    <3>3. CASE active = NoTurn
      <4>1. thread[j].turn # active'
        BY <1>8, <3>1, <3>3
      <4> QED BY <3>1, <3>2, <4>1
    <3>4. CASE active # NoTurn
      <4>1. ~(Pc(j) \in Finishing /\ thread[j].turn = active)
        BY <1>1, <1>2, <3>4 DEF LoopInv, LoopStartsAlone
      <4> QED BY <1>8, <3>1, <3>2, <3>4, <4>1 DEF Pc
    <3> QED BY <3>3, <3>4
  <2> QED BY <2>1, <2>2
<1>11. LoopInv'
  <2>1. OnlyLoopStarts'
    <3>1. \A q \in Threads : /\ thread'[q].pc \notin {"reserve", "queue"}
                             /\ thread'[q].pc \in Starting => q = Loop
      BY <1>2, <1>4, <1>6, <1>7 DEF LoopInv, OnlyLoopStarts, Starting, Pc
    <3>2. Guardian # p /\ Guardian # k /\ Guardian \in Threads
      BY <1>0, <1>2, <1>3, ThreadSorts
    <3>3. thread'[Guardian].pc \in Aborting => thread'[Guardian].reason = "Interrupted"
      BY <1>7, <3>2 DEF LoopInv, OnlyLoopStarts, Pc
    <3> QED BY <1>1, <3>1, <3>3 DEF OnlyLoopStarts, Pc
  <2>2. LoopStartsAlone'
    BY <1>2, <1>6, <1>7, <1>10 DEF LoopStartsAlone, Starting, Aborting, Pc
  <2> QED BY <2>1, <2>2 DEF LoopInv
<1>12. ASSUME InputInv PROVE InputInv'
  <2>1. thread[p].items = {}
    BY <1>0, <1>1, <1>2, <1>12 DEF InputInv, InputIsPassedOn
  <2>2. \A q \in Threads : Holds(q, thread'[q])
    <3>1. Holds(p, thread'[p])
      BY <1>6, <1>7 DEF Holds
    <3>2. Holds(k, thread'[k])
      BY <1>3, <1>4, <1>7 DEF Holds
    <3>3. \A q \in Threads : q # p /\ q # k => Holds(q, thread'[q])
      BY <1>7, <1>12 DEF InputInv, InputIsPassedOn, Holds, Pc
    <3> QED BY <3>1, <3>2, <3>3
  <2>3. InputIsPassedOn'
    BY <1>10, <2>2 DEF InputIsPassedOn, Holds, Finishing, Pc
  <2>4. ASSUME NEW i \in sent' \cap UserInputs PROVE InGoodHands(i)'
    <3>1. InGoodHands(i)
      BY <1>1, <1>12, <2>4 DEF InputInv, UserInputInGoodHands
    <3>2. CASE i \in history \cup dropped
      BY <1>1, <3>2 DEF InGoodHands
    <3>3. ASSUME NEW q \in Threads, i \in thread[q].own \cup thread[q].items
          PROVE  InGoodHands(i)'
      <4>1. \A r \in Threads : i \in thread'[r].own \cup thread'[r].items => InGoodHands(i)'
        BY DEF InGoodHands
      <4>2. CASE q = p
        BY <1>3, <1>4, <1>7, <2>1, <3>3, <4>1, <4>2
      <4>3. q # k
        BY <1>3, <3>3, RestType
      <4> QED BY <1>7, <3>3, <4>1, <4>2, <4>3
    <3>4. CASE i \in ActiveInput
      <4>1. active # NoTurn /\ active \in Turns /\ i \in turns[active].input
        BY <1>0, <3>4 DEF ActiveInput, ValuesOK
      <4>2. i \in ActiveInput'
        BY <1>8, <1>9, <4>1 DEF ActiveInput
      <4> QED BY <4>2 DEF InGoodHands
    <3>5. ASSUME NEW q \in Threads, Pc(q) \in Aborting \cup {"flush input"},
                 i \in turns[thread[q].turn].input
          PROVE  InGoodHands(i)'
      <4>1. thread[q].turn \in Turns
        BY <1>0, <3>5, LocalType DEF TurnsInv, VictimsAreHeld, Pc
      <4>2. q # p /\ q # k
        BY <1>1, <1>3, <3>5, RestType DEF Aborting, Pc
      <4> QED BY <1>7, <1>9, <3>5, <4>1, <4>2 DEF InGoodHands, Pc
    <3> QED BY <3>1, <3>2, <3>3, <3>4, <3>5 DEF InGoodHands
  <2> QED BY <2>3, <2>4 DEF InputInv, UserInputInGoodHands
<1> QED BY <1>11, <1>12 DEF Keeps

(***************************************************************************)
(* The theorems.                                                           *)
(***************************************************************************)

\* Starting a task keeps both invariants; there is nothing to reserve a turn for.
LEMMA StartingSteps ==
    ASSUME TurnsInv, LoopInv, LoopOnly, NEW p \in Threads, StartStep(p)
    PROVE  Keeps
<1>1. ~ReserveTurn(p)
  BY DEF ReserveTurn, LoopInv, OnlyLoopStarts
<1> QED BY <1>1, CheckingStep, GatheringSteps, AttachingStep, LaunchingStep DEF StartStep

\* Every step keeps both invariants.
LEMMA KeepsAlways ==
    ASSUME TurnsInv, LoopInv, LoopOnly, [Next]_vars
    PROVE  Keeps
<1>1. CASE Input
  <2>1. CASE \E i \in Fresh(SteerItems) : Steer(i)
    BY <2>1, Arrivals DEF UserInputs, Fresh
  <2>2. ASSUME NEW i \in Fresh(UserItems), UserInputSteered(i) \/ UserInputSpawns(i)
        PROVE  Keeps
    BY <2>2, Arrivals, LoopTurnsTo DEF UserInputs, Fresh
  <2>3. CASE \E i \in Fresh(TriggerMail \cup PlainMail) : Mail(i)
    BY <2>3, Arrivals DEF Fresh
  <2>4. CASE \E i \in Fresh(Approvals) : Approve(i)
    BY <2>4 DEF Fresh, LoopOnly
  <2>5. CASE \E i \in Fresh(Injected) : Inject(i)
    BY <2>5, Arrivals DEF Fresh
  <2>6. CASE Interrupt
    BY <2>6, LoopTurnsTo
  <2>7. CASE \E k \in Tasks : AbortTurnIfActive(k)
    BY <2>7, TakingSteps
  <2> QED BY <1>1, <2>1, <2>2, <2>3, <2>4, <2>5, <2>6, <2>7 DEF Input
<1>2. ASSUME NEW p \in Spawners, SpawnerStep(p) PROVE Keeps
  <2>1. p \in Threads /\ ~QueueForNextTurn
    BY ThreadSorts DEF QueueForNextTurn, LoopInv, OnlyLoopStarts
  <2>2. CASE p = Loop /\ AbortAllTasks
    BY <2>2, TakingSteps
  <2>3. CASE (\E k \in Tasks : CancelVictim(p, k)) \/ KillVictim(p)
    BY <2>3, AbortingSteps
  <2>4. CASE ClearPending(p)
    BY <2>4, ClearingStep
  <2>5. CASE StartStep(p)
    BY <2>1, <2>5, StartingSteps
  <2> QED BY <1>2, <2>1, <2>2, <2>3, <2>4, <2>5 DEF SpawnerStep
<1>3. ASSUME NEW k \in Tasks, TaskStep(k) \/ ModelStep(k) PROVE Keeps
  <2>1. k \in Threads
    BY ThreadSorts
  <2>2. CASE \/ StartTurn(k) \/ Prewarm(k) \/ SampleEnds(k) \/ SampleFails(k) \/ RunAgain(k)
             \/ CheckCancelled(k) \/ FollowUp(k)
    BY <2>2, MovingOn
  <2>3. CASE PrewarmCancelled(k) \/ RunTurn(k) \/ RunTurnFails(k)
    BY <2>3, OwnInput
  <2>4. CASE DrainPendingInput(k) \/ DrainMail(k) \/ RecordPendingInput(k)
    BY <2>4, DrainSteps
  <2>5. CASE BlockPendingInput(k)
    BY <2>5, BlockStep
  <2>6. CASE DeferMailbox(k) \/ ReopenMailbox(k)
    BY <2>6, PhaseSteps
  <2>7. CASE RecordLeftovers(k) \/ CompleteTurn(k) \/ ClearTurn(k) \/ Die(k)
    BY <2>7, EndingSteps
  <2>8. CASE RemoveTask(k)
    BY <2>8, LeavingStep
  <2>9. CASE StartStep(k)
    BY <2>1, <2>9, StartingSteps
  <2> QED BY <1>3, <2>2, <2>3, <2>4, <2>5, <2>6, <2>7, <2>8, <2>9 DEF TaskStep, ModelStep
<1>4. CASE UNCHANGED vars
  <2>1. /\ LoopInv' /\ (InputInv => InputInv')
    BY <1>4 DEF vars, LoopInv, OnlyLoopStarts, LoopStartsAlone, InputInv, InputIsPassedOn,
       UserInputInGoodHands, InGoodHands, ActiveTasks, ActiveInput, Pc
  <2> QED BY <2>1 DEF Keeps
<1> QED BY <1>1, <1>2, <1>3, <1>4 DEF Next

\* Both invariants hold at first.
LEMMA InitKeeps == Init => LoopInv /\ InputInv
<1> SUFFICES ASSUME Init PROVE LoopInv /\ InputInv
  OBVIOUS
<1>1. /\ \A p \in Threads : thread[p] = Rest
      /\ ActiveTasks = {} /\ active = NoTurn /\ numTurns = 0 /\ idle = {} /\ sent = {}
  BY DEF Init, ActiveTasks
<1>2. \A p \in Threads : /\ Pc(p) = "idle" /\ thread[p].turn = NoTurn /\ thread[p].own = {}
                         /\ thread[p].items = {}
  BY <1>1, RestType DEF Pc
<1>3. LoopInv
  <2>1. Loop \in Threads /\ Tasks \subseteq Threads
    BY ThreadSorts
  <2>2. NoTurn <= numTurns
    BY <1>1
  <2>3. \A k \in Tasks : thread[k].turn <= numTurns
    BY <1>2, <2>1, <2>2
  <2>4. LoopStartsAlone
    BY <1>1, <1>2, <2>1, <2>3 DEF LoopStartsAlone, Starting, Aborting
  <2>5. OnlyLoopStarts
    BY <1>1, <1>2 DEF OnlyLoopStarts, Starting, Aborting
  <2> QED BY <2>4, <2>5 DEF LoopInv
<1>4. InputInv
  BY <1>1, <1>2, ThreadSorts DEF InputInv, InputIsPassedOn, UserInputInGoodHands
<1> QED BY <1>3, <1>4

\* Without mail that triggers turns and approved denials, and if no hook blocks
\* input, a user message that a turn was spawned for or steered with is never left
\* in a turn object nobody looks at: it is recorded, let go of by an abort, held by
\* a thread, pending in the active turn, or in a turn that is being aborted or
\* finished.
THEOREM UserInputInGoodHandsAlways ==
    ASSUME LoopOnly, ~HooksMayBlock
    PROVE  Spec => []UserInputInGoodHands
<1>1. Init => LoopInv /\ InputInv
  BY InitKeeps
<1>2. TurnsInv /\ LoopInv /\ InputInv /\ [Next]_vars => LoopInv' /\ InputInv'
  BY KeepsAlways DEF Keeps
<1>3. InputInv => UserInputInGoodHands
  BY DEF InputInv
<1> QED BY <1>1, <1>2, <1>3, TurnsSafety, PTL DEF Spec
=============================================================================
