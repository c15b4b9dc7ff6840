--------------------------- MODULE TurnLifecycle ---------------------------
(***************************************************************************)
(* The turns of one session (codex-rs/core/src/tasks/mod.rs): who may      *)
(* start, steer, abort and finish the task of the active turn, and where   *)
(* the input that reaches the session goes meanwhile.                      *)
(*                                                                         *)
(* Threads.  Loop is the submission loop, which runs one operation at a    *)
(* time; Guardian is the task spawned when the guardian rejects too many   *)
(* approvals; each task of a turn is a thread of its own, and goes on      *)
(* running after it has left the active turn.  All of them share the mutex *)
(* active_turn and release it between two steps: a step below is what one  *)
(* of them does while it holds it.                                         *)
(*                                                                         *)
(* Tasks are regular tasks and the goals feature is off, as by default.    *)
(* Tasks and turn objects are numbered as they are created.                *)
(***************************************************************************)
EXTENDS Naturals, Sequences, FiniteSets

CONSTANTS
    Loop,           \* the submission loop
    Guardian,       \* the guardian's abort task
    UserItems,      \* what the user submits with Op::UserInput
    SteerItems,     \* what a client steers into the running turn
    TriggerMail,    \* mail of another agent with trigger_turn set
    PlainMail,      \* mail of another agent without it
    Approvals,      \* notes of an approved guardian denial
    Injected,       \* messages injected without a turn
    MaxInterrupts,  \* bound: interrupts by the user or the guardian
    MaxTasks,       \* bound: tasks created
    MaxTurns,       \* bound: turn objects created
    MaxFollowUps,   \* bound: follow-ups and failed runs of one task
    HooksMayBlock,  \* a hook may block an item of input
    RunMayFail      \* the compaction before a turn may fail

Items == UserItems \cup SteerItems \cup TriggerMail \cup PlainMail
           \cup Approvals \cup Injected
\* Messages with the role of the user, which hooks inspect.
UserMessages == UserItems \cup SteerItems \cup Injected
\* What a user has submitted and waits for.
UserInputs == UserItems \cup SteerItems
Tasks == 1..MaxTasks
Turns == 1..MaxTurns
NoTask == 0
NoTurn == 0
Spawners == {Loop, Guardian}

ASSUME BoundsAssumption ==
    /\ MaxInterrupts \in Nat
    /\ MaxTasks \in Nat
    /\ MaxTurns \in Nat
    /\ MaxFollowUps \in Nat
    /\ HooksMayBlock \in BOOLEAN
    /\ RunMayFail \in BOOLEAN

ASSUME KindsAssumption ==
    UserInputs \cap (TriggerMail \cup PlainMail \cup Approvals \cup Injected) = {}

ASSUME SpawnersAssumption ==
    /\ Loop # Guardian
    /\ Spawners \cap Tasks = {}

VARIABLES
    active,     \* Session.active_turn: a turn object or NoTurn
    turns,      \* the turn objects: their tasks, pending input and phase
    mailbox,    \* undelivered mail (mailbox_rx)
    idle,       \* Session.idle_pending_input
    thread,     \* what the spawners and the tasks are doing
    cancelled,  \* tasks whose cancellation token has fired
    doomed,     \* tasks whose handle has been aborted
    followUps,  \* follow-ups the model has asked of each task, and its failed runs
    sent,       \* items that have been submitted
    history,    \* items recorded in the conversation
    dropped,    \* items let go: cleared by an abort, blocked or not recorded
    events,     \* lifecycle events sent for each task, in order
    numTasks,   \* tasks created
    numTurns,   \* turn objects created
    interrupts  \* interrupts so far

vars == <<active, turns, mailbox, idle, thread, cancelled, doomed, followUps,
          sent, history, dropped, events, numTasks, numTurns, interrupts>>

-----------------------------------------------------------------------------
Phases == {"CurrentTurn", "NextTurn"}
FreshTurn == [tasks |-> {}, input |-> {}, phase |-> "CurrentTurn"]

\* What a thread is doing, with its locals: the task it is to start and that
\* task's own input (a task's own input when it runs), the turn object and the
\* items it holds, the tasks it has still to abort, and why.
Rest == [pc |-> "idle", own |-> {}, new |-> NoTask, turn |-> NoTurn,
         items |-> {}, victims |-> {}, victim |-> NoTask, reason |-> "Replaced"]
Threads == Spawners \cup Tasks

Init ==
    /\ active = NoTurn
    /\ turns = [t \in Turns |-> FreshTurn]
    /\ mailbox = {}
    /\ idle = {}
    /\ thread = [p \in Threads |-> Rest]
    /\ cancelled = {}
    /\ doomed = {}
    /\ followUps = [k \in Tasks |-> 0]
    /\ sent = {}
    /\ history = {}
    /\ dropped = {}
    /\ events = [k \in Tasks |-> << >>]
    /\ numTasks = 0
    /\ numTurns = 0
    /\ interrupts = 0

Pc(p) == thread[p].pc
Become(p, local) == thread' = [thread EXCEPT ![p] = local]
GoTo(p, pc) == Become(p, [thread[p] EXCEPT !.pc = pc])

\* A spawner goes back to its next operation, a task ends.
Returned(p) == IF p \in Spawners THEN Rest ELSE [Rest EXCEPT !.pc = "done"]

ActiveTasks == IF active = NoTurn THEN {} ELSE turns[active].tasks
ActiveInput == IF active = NoTurn THEN {} ELSE turns[active].input

\* Without an active turn mail is accepted: get_pending_input, has_pending_input.
\* The latter looks at the turn and then at the mailbox; as it changes nothing,
\* one look at both has the same outcomes.
AcceptsMail == active # NoTurn => turns[active].phase = "CurrentTurn"
HasPendingInput ==
    IF ActiveInput # {} THEN TRUE ELSE AcceptsMail /\ mailbox # {}

\* maybe_start_turn_for_pending_work: queued items or trigger mail wait.
PendingWork == idle # {} \/ mailbox \cap TriggerMail # {}

\* active_turn.get_or_insert_with: the turn the caller then works on.
TurnHere == IF active = NoTurn THEN numTurns + 1 ELSE active
EnterTurn ==
    /\ TurnHere \in Turns
    /\ active' = TurnHere
    /\ numTurns' = IF active = NoTurn THEN numTurns + 1 ELSE numTurns

PushInput(t, more) == [turns EXCEPT ![t].input = @ \cup more]

Fresh(set) == set \ sent
Submit(i) == sent' = sent \cup {i}
-----------------------------------------------------------------------------
(* Operations of the submission loop and calls of clients. *)

\* Mutant: any active turn is steered.
CanSteerAnyTurn == active # NoTurn

\* steer_input: only a turn with a task takes it, and mail is welcome again.
CanSteer == ActiveTasks # {}
SteerIn(i) ==
    turns' = [turns EXCEPT ![active].input = @ \cup {i},
                           ![active].phase = "CurrentTurn"]

\* CodexThread::steer_input, from a client; refused, it changes nothing.
Steer(i) ==
    /\ CanSteer
    /\ Submit(i)
    /\ SteerIn(i)
    /\ UNCHANGED <<active, mailbox, idle, thread, cancelled, doomed, followUps,
                   history, dropped, events, numTasks, numTurns, interrupts>>

\* user_input_or_turn: steer if there is a turn to steer, else spawn_task,
\* which first aborts whatever is active.
UserInputSteered(i) ==
    /\ Pc(Loop) = "idle"
    /\ CanSteer
    /\ Submit(i)
    /\ SteerIn(i)
    /\ UNCHANGED <<active, mailbox, idle, thread, cancelled, doomed, followUps,
                   history, dropped, events, numTasks, numTurns, interrupts>>

UserInputSpawns(i) ==
    /\ Pc(Loop) = "idle"
    /\ ~CanSteer
    /\ numTasks < MaxTasks
    /\ Submit(i)
    /\ numTasks' = numTasks + 1
    /\ Become(Loop, [Rest EXCEPT !.pc = "abort", !.own = {i},
                                 !.new = numTasks + 1])
    /\ UNCHANGED <<active, turns, mailbox, idle, cancelled, doomed, followUps,
                   history, dropped, events, numTurns, interrupts>>

\* interrupt_task, that is abort_all_tasks(Interrupted).
Interrupt ==
    /\ Pc(Loop) = "idle"
    /\ interrupts < MaxInterrupts
    /\ interrupts' = interrupts + 1
    /\ Become(Loop, [Rest EXCEPT !.pc = "abort", !.reason = "Interrupted"])
    /\ UNCHANGED <<active, turns, mailbox, idle, cancelled, doomed, followUps,
                   sent, history, dropped, events, numTasks, numTurns>>

\* inter_agent_communication.
Mail(i) ==
    /\ Pc(Loop) = "idle"
    /\ Submit(i)
    /\ mailbox' = mailbox \cup {i}
    /\ IF i \in TriggerMail THEN GoTo(Loop, "check") ELSE UNCHANGED thread
    /\ UNCHANGED <<active, turns, idle, cancelled, doomed, followUps, history,
                   dropped, events, numTasks, numTurns, interrupts>>

\* approve_guardian_denied_action: into the active turn, else queued for the
\* next one, in a second step.
Approve(i) ==
    /\ Pc(Loop) = "idle"
    /\ Submit(i)
    /\ IF active # NoTurn
       THEN turns' = PushInput(active, {i}) /\ UNCHANGED thread
       ELSE /\ Become(Loop, [Rest EXCEPT !.pc = "queue", !.items = {i}])
            /\ UNCHANGED turns
    /\ UNCHANGED <<active, mailbox, idle, cancelled, doomed, followUps, history,
                   dropped, events, numTasks, numTurns, interrupts>>

QueueForNextTurn ==
    /\ Pc(Loop) = "queue"
    /\ idle' = idle \cup thread[Loop].items
    /\ Become(Loop, Rest)
    /\ UNCHANGED <<active, turns, mailbox, cancelled, doomed, followUps, sent,
                   history, dropped, events, numTasks, numTurns, interrupts>>

\* inject_user_message_without_turn, from another thread: inject_response_items
\* asks for an active turn, not for a task in it.
Inject(i) ==
    /\ Submit(i)
    /\ IF active # NoTurn
       THEN turns' = PushInput(active, {i}) /\ UNCHANGED history
       ELSE history' = history \cup {i} /\ UNCHANGED turns
    /\ UNCHANGED <<active, mailbox, idle, thread, cancelled, doomed, followUps,
                   dropped, events, numTasks, numTurns, interrupts>>
-----------------------------------------------------------------------------
(* abort_all_tasks and abort_turn_if_active. *)

\* Mutant: the turn is looked at, not taken.
PeekTurn(p, local) ==
    /\ Become(p, IF ActiveTasks # {}
                 THEN [local EXCEPT !.pc = "cancel", !.turn = active,
                                    !.victims = ActiveTasks]
                 ELSE IF local.new # NoTask THEN [local EXCEPT !.pc = "gather"]
                 ELSE Returned(p))
    /\ UNCHANGED <<active, turns>>

\* take_active_turn and drain_tasks.
TakeTurn(p, local) ==
    LET victims == ActiveTasks
        next == IF victims # {} THEN "cancel"
                ELSE IF local.new # NoTask THEN "gather" ELSE "returned"
    IN  /\ active' = NoTurn
        /\ turns' = IF active = NoTurn THEN turns
                    ELSE [turns EXCEPT ![active].tasks = {}]
        /\ Become(p, IF next = "returned" THEN Returned(p)
                     ELSE [local EXCEPT !.pc = next, !.turn = active,
                                        !.victims = victims])

AbortAllTasks ==
    /\ Pc(Loop) = "abort"
    /\ TakeTurn(Loop, thread[Loop])
    /\ UNCHANGED <<mailbox, idle, cancelled, doomed, followUps, sent, history,
                   dropped, events, numTasks, numTurns, interrupts>>

\* The guardian aborts task k's turn, if it is still the active one.
AbortTurnIfActive(k) ==
    /\ Pc(Guardian) = "idle"
    /\ interrupts < MaxInterrupts
    /\ k \in ActiveTasks
    /\ interrupts' = interrupts + 1
    /\ TakeTurn(Guardian, [Rest EXCEPT !.reason = "Interrupted"])
    /\ UNCHANGED <<mailbox, idle, cancelled, doomed, followUps, sent, history,
                   dropped, events, numTasks, numTurns>>

\* handle_task_abort up to its wait.  Its early return for a token that has
\* already fired is never taken: see TokensFireOnce.
CancelVictim(p, k) ==
    /\ Pc(p) = "cancel"
    /\ k \in thread[p].victims
    /\ k \notin cancelled
    /\ cancelled' = cancelled \cup {k}
    /\ Become(p, [thread[p] EXCEPT !.pc = "grace", !.victim = k,
                                   !.victims = @ \ {k}])
    /\ UNCHANGED <<active, turns, mailbox, idle, doomed, followUps, sent,
                   history, dropped, events, numTasks, numTurns, interrupts>>

Emit(k, event) == events' = [events EXCEPT ![k] = Append(@, event)]

\* Mutant: the client is not told.
KillVictimSilently(p) ==
    /\ Pc(p) = "grace"
    /\ doomed' = doomed \cup {thread[p].victim}
    /\ Become(p, [thread[p] EXCEPT !.victim = NoTask,
                    !.pc = IF thread[p].victims = {} THEN "clear pending"
                                                     ELSE "cancel"])
    /\ UNCHANGED <<active, turns, mailbox, idle, cancelled, followUps, sent,
                   history, dropped, events, numTasks, numTurns, interrupts>>

\* The task is done or 100 ms have passed: abort its handle, tell the client.
KillVictim(p) ==
    /\ Pc(p) = "grace"
    /\ doomed' = doomed \cup {thread[p].victim}
    /\ Emit(thread[p].victim, "aborted")
    /\ Become(p, [thread[p] EXCEPT !.victim = NoTask,
                    !.pc = IF thread[p].victims = {} THEN "clear pending"
                                                     ELSE "cancel"])
    /\ UNCHANGED <<active, turns, mailbox, idle, cancelled, followUps, sent,
                   history, dropped, numTasks, numTurns, interrupts>>

\* clear_pending of the turn taken, then the next thing: an interrupt looks for
\* pending work, spawn_task starts its task.
ClearPending(p) ==
    /\ Pc(p) = "clear pending"
    /\ dropped' = dropped \cup turns[thread[p].turn].input
    /\ turns' = [turns EXCEPT ![thread[p].turn].input = {}]
    /\ Become(p, [thread[p] EXCEPT !.turn = NoTurn,
                    !.pc = IF thread[p].reason = "Interrupted" THEN "check"
                                                               ELSE "gather"])
    /\ UNCHANGED <<active, mailbox, idle, cancelled, doomed, followUps, sent,
                   history, events, numTasks, numTurns, interrupts>>
-----------------------------------------------------------------------------
(* maybe_start_turn_for_pending_work and start_task. *)

CheckPendingWork(p) ==
    /\ Pc(p) = "check"
    /\ Become(p, IF PendingWork THEN [Rest EXCEPT !.pc = "reserve"]
                                ELSE Returned(p))
    /\ UNCHANGED <<active, turns, mailbox, idle, cancelled, doomed, followUps,
                   sent, history, dropped, events, numTasks, numTurns,
                   interrupts>>

\* A session with an active turn is left alone; an idle one gets an empty turn
\* while its task is prepared.
ReserveTurn(p) ==
    /\ Pc(p) = "reserve"
    /\ IF active # NoTurn
       THEN /\ Become(p, Returned(p))
            /\ UNCHANGED <<active, numTurns, numTasks>>
       ELSE /\ numTasks < MaxTasks
            /\ numTasks' = numTasks + 1
            /\ EnterTurn
            /\ Become(p, [Rest EXCEPT !.pc = "gather", !.new = numTasks + 1])
    /\ UNCHANGED <<turns, mailbox, idle, cancelled, doomed, followUps, sent,
                   history, dropped, events, interrupts>>

\* get_pending_input looks at the turn first and drains the mailbox afterwards,
\* under a lock of its own, if the turn accepted mail when it was looked at.
TakePendingInput(p, from, drainMail, next) ==
    /\ Pc(p) = from
    /\ turns' = IF active = NoTurn THEN turns
                                   ELSE [turns EXCEPT ![active].input = {}]
    /\ Become(p, [thread[p] EXCEPT !.items = @ \cup ActiveInput,
                    !.pc = IF AcceptsMail THEN drainMail ELSE next])
    /\ UNCHANGED <<active, mailbox, idle, cancelled, doomed, followUps, sent,
                   history, dropped, events, numTasks, numTurns, interrupts>>

DrainMailbox(p, from, next) ==
    /\ Pc(p) = from
    /\ mailbox' = {}
    /\ Become(p, [thread[p] EXCEPT !.items = @ \cup mailbox, !.pc = next])
    /\ UNCHANGED <<active, turns, idle, cancelled, doomed, followUps, sent,
                   history, dropped, events, numTasks, numTurns, interrupts>>

\* start_task: take_queued_response_items_for_next_turn, then get_pending_input.
TakeQueuedItems(p) ==
    /\ Pc(p) = "gather"
    /\ idle' = {}
    /\ Become(p, [thread[p] EXCEPT !.pc = "pending", !.turn = NoTurn,
                                   !.items = idle])
    /\ UNCHANGED <<active, turns, mailbox, cancelled, doomed, followUps, sent,
                   history, dropped, events, numTasks, numTurns, interrupts>>

GatherPending(p) == TakePendingInput(p, "pending", "mail", "attach")
GatherMail(p) == DrainMailbox(p, "mail", "attach")

\* The items become pending input of the active turn, or of a new one.
AttachInput(p) ==
    /\ Pc(p) = "attach"
    /\ EnterTurn
    /\ turns' = PushInput(TurnHere, thread[p].items)
    /\ Become(p, [thread[p] EXCEPT !.pc = "launch", !.items = {}])
    /\ UNCHANGED <<mailbox, idle, cancelled, doomed, followUps, sent, history,
                   dropped, events, numTasks, interrupts>>

\* The active turn is looked up again, the task spawned and added to it.
LaunchTask(p) ==
    /\ Pc(p) = "launch"
    /\ EnterTurn
    /\ turns' = [turns EXCEPT ![TurnHere].tasks = @ \cup {thread[p].new}]
    /\ thread' = [thread EXCEPT
                    ![p] = Returned(p),
                    ![thread[p].new] = [Rest EXCEPT !.pc = "spawned",
                                                    !.own = thread[p].own]]
    /\ UNCHANGED <<mailbox, idle, cancelled, doomed, followUps, sent, history,
                   dropped, events, numTasks, interrupts>>
-----------------------------------------------------------------------------
(* A task: RegularTask::run and run_turn. *)

StartTurn(k) ==
    /\ Pc(k) = "spawned"
    /\ Emit(k, "started")
    /\ GoTo(k, "prewarm")
    /\ UNCHANGED <<active, turns, mailbox, idle, cancelled, doomed, followUps,
                   sent, history, dropped, numTasks, numTurns, interrupts>>

\* consume_startup_prewarm_for_regular_turn; a cancelled task gives up here.
Prewarm(k) ==
    /\ Pc(k) = "prewarm"
    /\ GoTo(k, "run")
    /\ UNCHANGED <<active, turns, mailbox, idle, cancelled, doomed, followUps,
                   sent, history, dropped, events, numTasks, numTurns, interrupts>>

PrewarmCancelled(k) ==
    /\ Pc(k) = "prewarm"
    /\ k \in cancelled
    /\ dropped' = dropped \cup thread[k].own
    /\ Become(k, [thread[k] EXCEPT !.own = {}, !.pc = "flushed"])
    /\ UNCHANGED <<active, turns, mailbox, idle, cancelled, doomed, followUps,
                   sent, history, events, numTasks, numTurns, interrupts>>

\* run_turn: nothing to do without input, own or pending.  The own input is
\* recorded and sampled before what is pending.
RunTurn(k) ==
    /\ Pc(k) = "run"
    /\ history' = history \cup thread[k].own
    /\ Become(k, [thread[k] EXCEPT !.own = {},
                    !.pc = IF thread[k].own # {} THEN "sample"
                           ELSE IF HasPendingInput THEN "drain" ELSE "again"])
    /\ UNCHANGED <<active, turns, mailbox, idle, cancelled, doomed, followUps,
                   sent, dropped, events, numTasks, numTurns, interrupts>>

\* An early return of run_turn before the input is recorded: the compaction
\* fails, the tools cannot be listed, a hook stops the turn.  While input is
\* pending RegularTask::run tries again without end; the model bounds that as it
\* bounds follow-ups.
RunTurnFails(k) ==
    /\ RunMayFail
    /\ Pc(k) = "run"
    /\ followUps[k] < MaxFollowUps
    /\ followUps' = [followUps EXCEPT ![k] = @ + 1]
    /\ dropped' = dropped \cup thread[k].own
    /\ Become(k, [thread[k] EXCEPT !.own = {}, !.pc = "again"])
    /\ UNCHANGED <<active, turns, mailbox, idle, cancelled, doomed, sent,
                   history, events, numTasks, numTurns, interrupts>>

\* get_pending_input at the top of run_turn's loop.
DrainPendingInput(k) == TakePendingInput(k, "drain", "drain mail", "record")
DrainMail(k) == DrainMailbox(k, "drain mail", "record")

RecordPendingInput(k) ==
    /\ Pc(k) = "record"
    /\ history' = history \cup thread[k].items
    /\ Become(k, [thread[k] EXCEPT !.items = {}, !.pc = "sample"])
    /\ UNCHANGED <<active, turns, mailbox, idle, cancelled, doomed, followUps,
                   sent, dropped, events, numTasks, numTurns, interrupts>>

\* A hook blocks a user message: the ones before it are recorded, the ones
\* after it go back to the active turn, if there is one.
BlockPendingInput(k) ==
    /\ HooksMayBlock
    /\ Pc(k) = "record"
    /\ \E i \in thread[k].items \cap UserMessages :
         \E accepted \in SUBSET (thread[k].items \ {i}) :
           LET rest == thread[k].items \ (accepted \cup {i})
           IN  /\ history' = history \cup accepted
               /\ IF active = NoTurn
                  THEN dropped' = dropped \cup {i} \cup rest /\ UNCHANGED turns
                  ELSE dropped' = dropped \cup {i} /\ turns' = PushInput(active, rest)
               /\ Become(k, [thread[k] EXCEPT !.items = {},
                               !.pc = IF accepted # {} THEN "sample"
                                      ELSE IF rest # {} THEN "drain" ELSE "again"])
    /\ UNCHANGED <<active, mailbox, idle, cancelled, doomed, followUps, sent,
                   events, numTasks, numTurns, interrupts>>

\* Visible final text while sampling: late mail is for the next turn, unless
\* input is pending.  A tool call afterwards reopens the turn for mail.
DeferMailbox(k) ==
    /\ Pc(k) = "sample"
    /\ k \in ActiveTasks
    /\ turns[active].input = {}
    /\ turns' = [turns EXCEPT ![active].phase = "NextTurn"]
    /\ UNCHANGED <<active, mailbox, idle, thread, cancelled, doomed, followUps,
                   sent, history, dropped, events, numTasks, numTurns, interrupts>>

ReopenMailbox(k) ==
    /\ Pc(k) = "sample"
    /\ k \in ActiveTasks
    /\ turns' = [turns EXCEPT ![active].phase = "CurrentTurn"]
    /\ UNCHANGED <<active, mailbox, idle, thread, cancelled, doomed, followUps,
                   sent, history, dropped, events, numTasks, numTurns, interrupts>>

\* The model, or a stop hook, asks for a follow-up; after a compaction the
\* follow-up resumes before pending input is drained.
FollowUp(k) ==
    /\ Pc(k) = "sample"
    /\ followUps[k] < MaxFollowUps
    /\ followUps' = [followUps EXCEPT ![k] = @ + 1]
    /\ \E next \in {"drain", "sample"} : GoTo(k, next)
    /\ UNCHANGED <<active, turns, mailbox, idle, cancelled, doomed, sent,
                   history, dropped, events, numTasks, numTurns, interrupts>>

\* The answer is complete: go on only for pending input.
SampleEnds(k) ==
    /\ Pc(k) = "sample"
    /\ GoTo(k, IF HasPendingInput THEN "drain" ELSE "again")
    /\ UNCHANGED <<active, turns, mailbox, idle, cancelled, doomed, followUps,
                   sent, history, dropped, events, numTasks, numTurns, interrupts>>

\* A request fails or sees the cancellation.
SampleFails(k) ==
    /\ Pc(k) = "sample"
    /\ GoTo(k, "again")
    /\ UNCHANGED <<active, turns, mailbox, idle, cancelled, doomed, followUps,
                   sent, history, dropped, events, numTasks, numTurns, interrupts>>

\* RegularTask::run: once more while input is pending.
RunAgain(k) ==
    /\ Pc(k) = "again"
    /\ GoTo(k, IF HasPendingInput THEN "run" ELSE "flushed")
    /\ UNCHANGED <<active, turns, mailbox, idle, cancelled, doomed, followUps,
                   sent, history, dropped, events, numTasks, numTurns, interrupts>>
-----------------------------------------------------------------------------
(* The end of a task: on_task_finished. *)

\* A task that has been cancelled leaves the last word to whoever aborts it.
CheckCancelled(k) ==
    /\ Pc(k) = "flushed"
    /\ GoTo(k, IF k \in cancelled THEN "done" ELSE "remove")
    /\ UNCHANGED <<active, turns, mailbox, idle, cancelled, doomed, followUps,
                   sent, history, dropped, events, numTasks, numTurns, interrupts>>

\* Mutant: the task that empties the turn does not clear it.
RemoveTaskOnly(k) ==
    /\ Pc(k) = "remove"
    /\ turns' = IF k \in ActiveTasks THEN [turns EXCEPT ![active].tasks = @ \ {k}]
                                     ELSE turns
    /\ GoTo(k, "complete")
    /\ UNCHANGED <<active, mailbox, idle, cancelled, doomed, followUps, sent,
                   history, dropped, events, numTasks, numTurns, interrupts>>

\* remove_task, which detaches the task; the one that empties the turn is to
\* clear it.
RemoveTask(k) ==
    /\ Pc(k) = "remove"
    /\ IF k \in ActiveTasks
       THEN /\ turns' = [turns EXCEPT ![active].tasks = @ \ {k}]
            /\ Become(k, IF turns[active].tasks = {k}
                         THEN [thread[k] EXCEPT !.pc = "flush input", !.turn = active]
                         ELSE [thread[k] EXCEPT !.pc = "complete"])
       ELSE GoTo(k, "complete") /\ UNCHANGED turns
    /\ UNCHANGED <<active, mailbox, idle, cancelled, doomed, followUps, sent,
                   history, dropped, events, numTasks, numTurns, interrupts>>

\* Mutant: what is still pending is not looked at.
SkipLeftovers(k) ==
    /\ Pc(k) = "flush input"
    /\ GoTo(k, "complete")
    /\ UNCHANGED <<active, turns, mailbox, idle, cancelled, doomed, followUps, sent,
                   history, dropped, events, numTasks, numTurns, interrupts>>

\* What is still pending is recorded; a hook may block user messages.
RecordLeftovers(k) ==
    /\ Pc(k) = "flush input"
    /\ \E blocked \in SUBSET IF HooksMayBlock
                             THEN turns[thread[k].turn].input \cap UserMessages
                             ELSE {} :
         /\ history' = history \cup (turns[thread[k].turn].input \ blocked)
         /\ dropped' = dropped \cup blocked
    /\ turns' = [turns EXCEPT ![thread[k].turn].input = {}]
    /\ GoTo(k, "complete")
    /\ UNCHANGED <<active, mailbox, idle, cancelled, doomed, followUps, sent,
                   events, numTasks, numTurns, interrupts>>

CompleteTurn(k) ==
    /\ Pc(k) = "complete"
    /\ Emit(k, "complete")
    /\ Become(k, IF thread[k].turn = NoTurn THEN Returned(k)
                 ELSE [thread[k] EXCEPT !.pc = "clear"])
    /\ UNCHANGED <<active, turns, mailbox, idle, cancelled, doomed, followUps,
                   sent, history, dropped, numTasks, numTurns, interrupts>>

\* Mutant: whatever turn is active is cleared.
ClearAnyTurn(k) ==
    /\ Pc(k) = "clear"
    /\ active' = NoTurn
    /\ Become(k, [Rest EXCEPT !.pc = "check"])
    /\ UNCHANGED <<turns, mailbox, idle, cancelled, doomed, followUps, sent,
                   history, dropped, events, numTasks, numTurns, interrupts>>

\* Mutant: the task does not look for pending work.
ClearTurnOnly(k) ==
    /\ Pc(k) = "clear"
    /\ active' = IF active = thread[k].turn THEN NoTurn ELSE active
    /\ Become(k, Returned(k))
    /\ UNCHANGED <<turns, mailbox, idle, cancelled, doomed, followUps, sent,
                   history, dropped, events, numTasks, numTurns, interrupts>>

\* The turn is cleared unless it has been taken or has a task again; the task
\* that cleared it looks for pending work.
ClearTurn(k) ==
    /\ Pc(k) = "clear"
    /\ IF active = thread[k].turn /\ turns[active].tasks = {}
       THEN active' = NoTurn /\ Become(k, [Rest EXCEPT !.pc = "check"])
       ELSE UNCHANGED active /\ Become(k, Returned(k))
    /\ UNCHANGED <<turns, mailbox, idle, cancelled, doomed, followUps, sent,
                   history, dropped, events, numTasks, numTurns, interrupts>>

\* An aborted task stops at some await after its handle was aborted, and what
\* it held is gone.
Die(k) ==
    /\ k \in doomed
    /\ Pc(k) # "done"
    /\ dropped' = dropped \cup thread[k].own \cup thread[k].items
    /\ Become(k, Returned(k))
    /\ UNCHANGED <<active, turns, mailbox, idle, cancelled, doomed, followUps,
                   sent, history, events, numTasks, numTurns, interrupts>>
-----------------------------------------------------------------------------
\* What comes from outside.
Input ==
    \/ \E i \in Fresh(SteerItems) : Steer(i)
    \/ \E i \in Fresh(UserItems) : UserInputSteered(i) \/ UserInputSpawns(i)
    \/ \E i \in Fresh(TriggerMail \cup PlainMail) : Mail(i)
    \/ \E i \in Fresh(Approvals) : Approve(i)
    \/ \E i \in Fresh(Injected) : Inject(i)
    \/ Interrupt
    \/ \E k \in Tasks : AbortTurnIfActive(k)

\* The steps of a thread that is starting a task.
StartStep(p) ==
    \/ CheckPendingWork(p)
    \/ ReserveTurn(p)
    \/ TakeQueuedItems(p)
    \/ GatherPending(p)
    \/ GatherMail(p)
    \/ AttachInput(p)
    \/ LaunchTask(p)

SpawnerStep(p) ==
    \/ p = Loop /\ (QueueForNextTurn \/ AbortAllTasks)
    \/ \E k \in Tasks : CancelVictim(p, k)
    \/ KillVictim(p)
    \/ ClearPending(p)
    \/ StartStep(p)

\* The steps a task takes by itself; what the model answers is not its choice.
TaskStep(k) ==
    \/ StartTurn(k)
    \/ Prewarm(k)
    \/ PrewarmCancelled(k)
    \/ RunTurn(k)
    \/ DrainPendingInput(k)
    \/ DrainMail(k)
    \/ RecordPendingInput(k)
    \/ SampleEnds(k)
    \/ SampleFails(k)
    \/ RunAgain(k)
    \/ CheckCancelled(k)
    \/ RemoveTask(k)
    \/ RecordLeftovers(k)
    \/ CompleteTurn(k)
    \/ ClearTurn(k)
    \/ Die(k)
    \/ StartStep(k)

ModelStep(k) ==
    \/ RunTurnFails(k)
    \/ BlockPendingInput(k)
    \/ DeferMailbox(k)
    \/ ReopenMailbox(k)
    \/ FollowUp(k)

Next ==
    \/ Input
    \/ \E p \in Spawners : SpawnerStep(p)
    \/ \E k \in Tasks : TaskStep(k) \/ ModelStep(k)

Spec == Init /\ [][Next]_vars

\* Every thread the runtime has spawned goes on running.
LiveSpec ==
    /\ Spec
    /\ \A p \in Spawners : WF_vars(SpawnerStep(p))
    /\ \A k \in Tasks : WF_vars(TaskStep(k))
    /\ \A k \in Tasks : WF_vars(Die(k))
-----------------------------------------------------------------------------
(* Properties. *)

PcsOfSpawner == {"idle", "abort", "queue", "cancel", "grace", "clear pending",
                 "check", "reserve", "gather", "pending", "mail", "attach",
                 "launch"}
PcsOfTask == {"idle", "spawned", "prewarm", "run", "drain", "drain mail", "record",
              "sample", "again", "flushed", "remove", "flush input", "complete",
              "clear", "check", "reserve", "gather", "pending", "mail", "attach",
              "launch", "done"}

TurnRows == [tasks : SUBSET Tasks, input : SUBSET Items, phase : Phases]
Locals == [pc : PcsOfSpawner \cup PcsOfTask, own : SUBSET Items,
           new : Tasks \cup {NoTask}, turn : Turns \cup {NoTurn},
           items : SUBSET Items, victims : SUBSET Tasks,
           victim : Tasks \cup {NoTask}, reason : {"Replaced", "Interrupted"}]

\* Every variable keeps its type.
TypeOK ==
    /\ active \in Turns \cup {NoTurn}
    /\ turns \in [Turns -> TurnRows]
    /\ mailbox \subseteq TriggerMail \cup PlainMail
    /\ idle \subseteq Items
    /\ thread \in [Threads -> Locals]
    /\ \A p \in Spawners : Pc(p) \in PcsOfSpawner
    /\ \A k \in Tasks : Pc(k) \in PcsOfTask
    /\ cancelled \subseteq Tasks
    /\ doomed \subseteq cancelled
    /\ followUps \in [Tasks -> 0..MaxFollowUps]
    /\ sent \subseteq Items /\ history \subseteq Items /\ dropped \subseteq Items
    /\ events \in [Tasks -> Seq({"started", "complete", "aborted"})]
    /\ numTasks \in 0..MaxTasks
    /\ numTurns \in 0..MaxTurns
    /\ interrupts \in 0..MaxInterrupts

\* The steps of start_task, and those of an abort that has found tasks.
Starting == {"gather", "pending", "mail", "attach", "launch"}
Aborting == {"cancel", "grace", "clear pending"}
\* The steps of a task that has emptied its turn, until it is cleared.
Finishing == {"flush input", "complete", "clear"}

\* A task that is working on its turn and has not been stopped.
WorkingPcs == {"spawned", "prewarm", "run", "drain", "drain mail", "record",
               "sample", "again"}
Working(k) == Pc(k) \in WorkingPcs

\* No task runs on unreachable: one that is still working is in the active
\* turn, where an interrupt finds it, or someone is already aborting it.
WorkingTasksAreReachable ==
    \A k \in Tasks : Working(k) =>
        \/ k \in ActiveTasks \cup doomed
        \/ \E p \in Spawners : k \in thread[p].victims \cup {thread[p].victim}

\* A task is aborted by one thread only, and once: the early return of
\* handle_task_abort for a token that has fired is never needed.
TokensFireOnce ==
    /\ \A p \in Spawners : thread[p].victims \cap (cancelled \cup ActiveTasks) = {}
    /\ thread[Loop].victims \cap thread[Guardian].victims = {}
    /\ ActiveTasks \cap cancelled = {}

\* An active turn without a task is no dead end for the session: some thread
\* is about to give it a task, or to clear it.
EmptyTurnHasAnOwner ==
    active # NoTurn /\ ActiveTasks = {} =>
        \E p \in Threads :
            \/ Pc(p) \in Starting
            \/ Pc(p) \in Finishing /\ thread[p].turn = active

\* Only the active turn has tasks, and no turn object is used twice.
TasksAreInActiveTurn ==
    /\ active <= numTurns
    /\ \A t \in Turns : t # active => turns[t].tasks = {}

\* The task that a thread is to start is its own and has not run.
NewTasksAreUnborn ==
    /\ \A p \in Threads : thread[p].new # NoTask =>
         thread[p].new <= numTasks /\ Pc(thread[p].new) = "idle"
    /\ \A p, q \in Threads : p # q /\ thread[p].new = thread[q].new
                               => thread[p].new = NoTask
    /\ \A k \in Tasks : k > numTasks => Pc(k) = "idle"
    /\ \A p \in Threads : Pc(p) \in Starting => thread[p].new # NoTask
    /\ \A p \in Spawners :
         Pc(p) \in {"abort"} \cup Aborting /\ thread[p].reason = "Replaced"
           => thread[p].new # NoTask

\* Nobody aborts a task that has not started.
UnbornAreUntouched ==
    \A k \in Tasks : Pc(k) = "idle" =>
        /\ thread[k] = Rest
        /\ k \notin cancelled \cup ActiveTasks
        /\ \A p \in Spawners : k \notin thread[p].victims

\* What an aborting thread has on its list is what it has still to abort.
VictimsAreHeld ==
    /\ \A p \in Threads : thread[p].victims # {} =>
         p \in Spawners /\ Pc(p) \in {"cancel", "grace"}
    /\ \A p \in Threads : thread[p].victim # NoTask =>
         Pc(p) = "grace" /\ thread[p].victim \in cancelled
    /\ \A p \in Threads : Pc(p) = "grace" => thread[p].victim # NoTask
    /\ \A p \in Threads : Pc(p) \in Aborting \cup {"flush input", "clear"}
                            => thread[p].turn # NoTurn

\* A task that has left its turn by itself is beyond every abort, so that it
\* will clear the turn and look for pending work.
Free(local) ==
    \/ local.pc \in {"flush input", "check", "reserve"} \cup Starting
    \/ local.pc \in {"complete", "clear"} /\ local.turn # NoTurn

FinishersAreFree ==
    \A k \in Tasks :
        /\ Free(thread[k]) => /\ k \notin cancelled \cup ActiveTasks
                              /\ \A p \in Spawners : k \notin thread[p].victims
        /\ Working(k) \/ Pc(k) \in {"flushed", "remove"} => thread[k].turn = NoTurn

\* What is inductive.
TurnsInv ==
    /\ TypeOK /\ TasksAreInActiveTurn /\ NewTasksAreUnborn /\ UnbornAreUntouched
    /\ VictimsAreHeld /\ FinishersAreFree
    /\ TokensFireOnce /\ WorkingTasksAreReachable /\ EmptyTurnHasAnOwner

\* What an accepted user message can still come to: it is held by the loop or a
\* task, waits in the active turn, or its turn is being aborted or finished.
InGoodHands(i) ==
    \/ i \in history \cup dropped
    \/ \E p \in Threads : i \in thread[p].own \cup thread[p].items
    \/ i \in ActiveInput
    \/ \E p \in Threads : /\ Pc(p) \in Aborting \cup {"flush input"}
                          /\ i \in turns[thread[p].turn].input

\* A user message that was accepted, by spawning a turn or by steering one, is
\* never left in a turn object nobody looks at any more.
UserInputInGoodHands == \A i \in sent \cap UserInputs : InGoodHands(i)

\* debug_assert!(turn.tasks.is_empty()): a task is attached to and launched
\* in a turn that has no task.
StartsInEmptyTurn ==
    \A p \in Threads : Pc(p) \in {"attach", "launch"} => ActiveTasks = {}

\* Without mail that triggers turns and approved denials nothing is ever queued
\* for a next turn, and the submission loop alone starts tasks.
OnlyLoopStarts ==
    /\ idle = {}
    /\ \A p \in Threads :
         /\ Pc(p) \notin {"reserve", "queue"}
         /\ Pc(p) \in Starting => p = Loop
         /\ p = Guardian /\ Pc(p) \in Aborting => thread[p].reason = "Interrupted"

\* It does so after it has taken the active turn away, and nobody else enters
\* one; the turn it launches its task in is not one that is being finished.
LoopStartsAlone ==
    /\ Pc(Loop) \in Starting \ {"launch"} => active = NoTurn
    /\ Pc(Loop) \in Aborting /\ thread[Loop].reason = "Replaced" => active = NoTurn
    /\ Pc(Loop) = "launch" => ActiveTasks = {}
    /\ \A k \in Tasks : thread[k].turn <= numTurns
    /\ \A k \in Tasks : Pc(k) \in Finishing /\ thread[k].turn = active /\ active # NoTurn
                          => ActiveTasks = {} /\ Pc(Loop) # "launch"

\* A thread holds input only where it goes on to pass it on, and a turn whose
\* leftovers have been recorded gets no user message any more.
InputIsPassedOn ==
    /\ \A p \in Threads : thread[p].own # {} =>
         \/ /\ p = Loop /\ thread[p].reason = "Replaced"
            /\ Pc(p) \in {"abort"} \cup Aborting \cup Starting
         \/ p \in Tasks /\ Pc(p) \in {"spawned", "prewarm", "run"}
    /\ \A p \in Threads : thread[p].items # {} =>
         \/ p = Loop /\ Pc(p) \in {"pending", "mail", "attach"}
         \/ p \in Tasks /\ Pc(p) \in {"drain mail", "record"}
    /\ \A k \in Tasks :
         Pc(k) \in {"complete", "clear"} /\ thread[k].turn = active /\ active # NoTurn
           => ActiveInput \cap UserInputs = {}

\* Every turn that has started ends: the client gets its completion or abortion.
StartedTurnEnds ==
    \A k \in Tasks : "spawned" = Pc(k) ~>
        \E n \in DOMAIN events[k] : events[k][n] # "started"

\* Mail that asks for a turn gets one: whoever ends the turn that was in its way
\* looks for pending work, so it does not stay in the mailbox.  Interrupts are
\* excepted: one that takes the turn of a task that is just finishing looks for
\* nothing, and neither does that task (abort_all_tasks, on_task_finished).
TriggerMailIsTaken ==
    \A i \in TriggerMail : i \in mailbox ~> i \notin mailbox \/ interrupts > 0

\* An accepted user message is recorded or deliberately let go.
UserInputIsSettled ==
    \A i \in UserInputs : i \in sent ~> i \in history \cup dropped
=============================================================================
