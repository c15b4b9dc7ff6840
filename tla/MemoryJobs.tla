----------------------------- MODULE MemoryJobs -----------------------------
(***************************************************************************)
(* The memory pipeline that every root session starts                      *)
(* (memories/write/src/start.rs): phase 1 extracts a memory from each idle *)
(* rollout, phase 2 consolidates the extracted memories in a workspace     *)
(* that all processes share.  Processes coordinate through leased rows of  *)
(* the state database (state/src/runtime/memories.rs), every method of     *)
(* which is one transaction and one action here.                           *)
(*                                                                         *)
(* Time.  Every *_until and *_at column is kept as the time left to it; a  *)
(* Tick lowers them all, and Past stands for NULL, which every query       *)
(* treats as a time long gone.  A method reads the clock before its        *)
(* transaction gets the write lock, so it may see a time that is up to     *)
(* MaxLag ticks old.  A rollout's updated_at is its version.               *)
(*                                                                         *)
(* Left out because nothing decides on them: started_at, worker_id, error  *)
(* texts, and the watermarks and the retry budget of the global row.       *)
(***************************************************************************)
EXTENDS Integers, FiniteSets

CONSTANTS
  Threads,      \* source threads, all within the scanned age window
  Procs,        \* processes that may run the pipeline
  Tokens,       \* ownership tokens: Uuid::new_v4 is never one still in use
  Lease,        \* JOB_LEASE_SECONDS
  RetryDelay,   \* JOB_RETRY_DELAY_SECONDS
  Cooldown,     \* PHASE2_SUCCESS_COOLDOWN_SECONDS
  Retries,      \* DEFAULT_RETRY_REMAINING
  MaxClaimed,   \* max_rollouts_per_startup, also the cap of running jobs
  MaxLag,       \* bound: how old a clock reading may be when it is used
  MaxVersion,   \* bound: versions of a rollout
  UserActs,     \* which acts of the user a run has
  MaxActs,      \* bound: how many
  MaxFaults,    \* bound: crashes, failed calls and failed agents
  Phase2,       \* whether a process goes on to phase 2
  Punctual      \* whether steps keep within the lease and agents stop in time

Null == 0
Past == -MaxLag

ASSUME TimingAssumption ==
  /\ {Lease, RetryDelay, Cooldown, Retries, MaxClaimed, MaxVersion} \subseteq Nat \ {0}
  /\ {MaxLag, MaxActs, MaxFaults} \subseteq Nat
  /\ MaxLag < Lease
  /\ {Phase2, Punctual} \subseteq BOOLEAN

ASSUME FinitenessAssumption == IsFiniteSet(Threads) /\ IsFiniteSet(Procs)

\* Enough for the rows, the processes, and a job of each process on each thread.
ASSUME TokenAssumption ==
  /\ Tokens \subseteq Nat \ {0}
  /\ Cardinality(Tokens) > Cardinality(Threads) + 1
                             + Cardinality(Procs \X Threads) + Cardinality(Procs)

VARIABLES
  thread,    \* the threads table: version, idleness and memory mode
  jobs,      \* the memory_stage1 rows of the jobs table
  outputs,   \* the stage1_outputs table
  global,    \* the memory_consolidate_global row of the jobs table
  ws,        \* the memory workspace: inputs, the agent's notes, and the git
             \* baseline (a set: empty when there is no repository)
  proc,      \* the pipeline of each process
  flights,   \* claimed stage-1 jobs that a process is working on
  clearing,  \* a reset has cleared the rows and not yet the workspace
  acts,      \* acts of the user so far
  faults     \* faults so far

db   == <<jobs, outputs, global>>
vars == <<thread, db, ws, proc, flights, clearing, acts, faults>>

NoJob == [status |-> "absent", token |-> Null, lease |-> Past,
          retryAt |-> Past, retries |-> 0, input |-> 0, success |-> 0]

\* `pre' is history: the row comes from a claim older than the last reset.
NoOutput == [src |-> 0, read |-> 0, old |-> FALSE, used |-> FALSE,
             sel |-> FALSE, pre |-> FALSE]

NoGlobal == [status |-> "absent", token |-> Null, lease |-> Past,
             retryAt |-> Past, cooldown |-> Past, error |-> FALSE]

\* Phase-2 inputs: the version of each thread's memory, 0 for none.
Inputs == [Threads -> 0..MaxVersion]
NoInputs == [t \in Threads |-> 0]

\* What the agent has written: the inputs it worked from, and whether it was
\* left in the middle of its work.
Notes(inputs) == [of |-> inputs, whole |-> TRUE]

EmptyWs == [inputs |-> NoInputs, notes |-> Notes(NoInputs), base |-> {}]

IdleProc == [pc |-> "idle", items |-> NoInputs, token |-> Null,
             sel |-> NoInputs, seen |-> NoInputs]

Init ==
  /\ thread = [t \in Threads |-> [version |-> 1, idle |-> TRUE, mode |-> "enabled"]]
  /\ jobs = [t \in Threads |-> NoJob]
  /\ outputs = [t \in Threads |-> NoOutput]
  /\ global = NoGlobal
  /\ ws = EmptyWs
  /\ proc = [p \in Procs |-> IdleProc]
  /\ flights = {}
  /\ clearing = FALSE
  /\ acts = 0
  /\ faults = 0

Goto(p, label) == proc' = [proc EXCEPT ![p].pc = label]
Stop(p) == proc' = [proc EXCEPT ![p] = IdleProc]

Act(kind) == kind \in UserActs /\ acts < MaxActs /\ acts' = acts + 1
Fault == faults < MaxFaults /\ faults' = faults + 1

\* A time that has `left' to go is still ahead for a reader `lag' ticks behind.
Ahead(left, lag) == left > -lag

FlightsOf(p) == {f \in flights : f.proc = p}

InUse == {jobs[t].token : t \in Threads} \union {global.token}
           \union {f.token : f \in flights} \union {proc[p].token : p \in Procs}

FreshToken == CHOOSE k \in Tokens : k \notin InUse

(***************************************************************************)
(* Users, sessions and time.                                               *)
(***************************************************************************)
\* The thread is used: its rollout grows and its updated_at moves.
UpdateThread(t) ==
  /\ Act("update")
  /\ thread[t].version < MaxVersion
  /\ thread' = [thread EXCEPT ![t].version = @ + 1, ![t].idle = FALSE]
  /\ UNCHANGED <<db, ws, proc, flights, clearing, faults>>

set_thread_memory_mode(t, mode) ==
  /\ Act("mode")
  /\ thread[t].mode # mode
  /\ thread' = [thread EXCEPT ![t].mode = mode]
  /\ UNCHANGED <<db, ws, proc, flights, clearing, faults>>

\* The last citation, or the version of a memory never cited, falls out of
\* the max_unused_days window.
Age(t) ==
  /\ Act("age")
  /\ outputs[t].src # 0 /\ ~outputs[t].old
  /\ outputs' = [outputs EXCEPT ![t].old = TRUE]
  /\ UNCHANGED <<thread, jobs, global, ws, proc, flights, clearing, faults>>

record_stage1_output_usage(t) ==
  /\ Act("use")
  /\ outputs[t].src # 0
  /\ outputs' = [outputs EXCEPT ![t].old = FALSE, ![t].used = TRUE]
  /\ UNCHANGED <<thread, jobs, global, ws, proc, flights, clearing, faults>>

\* enqueue_global_consolidation_with_executor: a running job keeps running.
Enqueued ==
  CASE global.status = "absent"  -> [NoGlobal EXCEPT !.status = "pending"]
    [] global.status = "running" -> global
    [] OTHER -> [global EXCEPT !.status = "pending", !.retryAt = Past]

mark_thread_memory_mode_polluted(t) ==
  /\ Act("pollute")
  /\ thread[t].mode # "polluted"
  /\ thread' = [thread EXCEPT ![t].mode = "polluted"]
  /\ global' = IF outputs[t].sel THEN Enqueued ELSE global
  /\ UNCHANGED <<jobs, outputs, ws, proc, flights, clearing, faults>>

\* memory/reset: the rows go in one transaction, then the files.
clear_memory_data ==
  /\ Act("reset")
  /\ ~clearing
  /\ jobs' = [t \in Threads |-> NoJob]
  /\ outputs' = [t \in Threads |-> NoOutput]
  /\ global' = NoGlobal
  /\ flights' = {[f EXCEPT !.pre = TRUE] : f \in flights}
  /\ clearing' = TRUE
  /\ UNCHANGED <<thread, ws, proc, faults>>

clear_memory_roots_contents ==
  /\ clearing
  /\ ws' = EmptyWs
  /\ clearing' = FALSE
  /\ UNCHANGED <<thread, db, proc, flights, acts, faults>>

OwnsJob(f) == jobs[f.thread].status = "running" /\ jobs[f.thread].token = f.token
Owns(p) == global.status = "running" /\ global.token = proc[p].token

\* The steps a process takes between two renewals of its global lease.
Holding == {"prepare", "load", "sync", "diff", "nochange", "agent",
            "confirm", "reset", "mark", "failed"}

Less(left) == IF left > Past THEN left - 1 ELSE left

\* min_rollout_idle_hours are one tick.
Tick ==
  /\ Punctual => /\ \A f \in flights : OwnsJob(f) => jobs[f.thread].lease > 1
                 /\ \A p \in Procs : proc[p].pc \in Holding /\ Owns(p) => global.lease > 1
  /\ jobs' = [t \in Threads |-> [jobs[t] EXCEPT !.lease = Less(@), !.retryAt = Less(@)]]
  /\ global' = [global EXCEPT !.lease = Less(@), !.retryAt = Less(@),
                              !.cooldown = Less(@)]
  /\ thread' = [t \in Threads |-> [thread[t] EXCEPT !.idle = TRUE]]
  /\ UNCHANGED <<outputs, ws, proc, flights, clearing, acts, faults>>

\* The process dies with its tasks and its agent.
Crash(p) ==
  /\ Fault
  /\ proc[p].pc # "idle"
  /\ Stop(p)
  /\ flights' = flights \ FlightsOf(p)
  /\ UNCHANGED <<thread, db, ws, clearing, acts>>

(***************************************************************************)
(* Phase 1: prune, scan, claim, and the extraction jobs.                   *)
(***************************************************************************)
Prunable == {t \in Threads : outputs[t].old /\ ~outputs[t].sel}

\* A session starts the pipeline, and phase1::prune deletes what is out of date
\* (its batch limit is far above the rows a model has; a failed prune is one that
\* comes before the rows are out of date).
start_memories_startup_task(p) ==
  /\ proc[p].pc = "idle"
  /\ outputs' = [t \in Threads |-> IF t \in Prunable THEN NoOutput ELSE outputs[t]]
  /\ Goto(p, "scan")
  /\ UNCHANGED <<thread, jobs, global, ws, flights, clearing, acts, faults>>

\* rate_limits_ok answers no.
SkipRateLimit(p) ==
  /\ Fault
  /\ proc[p].pc = "scan"
  /\ Stop(p)
  /\ UNCHANGED <<thread, db, ws, flights, clearing, acts>>

\* Mutant: only the stored memory is looked at, not the job's watermark.
UpToDateByOutput(t, version) == outputs[t].src >= version

UpToDate(t, version) == outputs[t].src >= version \/ jobs[t].success >= version

\* The scan also leaves out the thread of the session that runs it
\* (current_thread_id): Threads are those of other sessions.
Candidates ==
  [t \in Threads |->
     IF thread[t].mode = "enabled" /\ thread[t].idle /\ ~UpToDate(t, thread[t].version)
       THEN thread[t].version ELSE 0]

Scan(p) ==
  /\ proc[p].pc = "scan"
  /\ proc' = [proc EXCEPT ![p].pc = "claim", ![p].items = Candidates]
  /\ UNCHANGED <<thread, db, ws, flights, clearing, acts, faults>>

\* Mutant: a lease counts as over one tick early.
RunningEarly(lag) ==
  {t \in Threads : jobs[t].status = "running" /\ jobs[t].lease > 1}

\* Mutant: a running row counts as running whatever its lease says.
RunningForever(lag) == {t \in Threads : jobs[t].status = "running"}

RunningAhead(lag) ==
  {t \in Threads : jobs[t].status = "running" /\ Ahead(jobs[t].lease, lag)}

\* Mutant: one job more than the cap.
ClaimableOverCap(t, version, lag) ==
  LET newer == version > jobs[t].input IN
  /\ Cardinality(RunningAhead(lag)) <= MaxClaimed
  /\ t \notin RunningAhead(lag)
  /\ newer \/ ~Ahead(jobs[t].retryAt, lag)
  /\ newer \/ jobs[t].retries > 0

Claimable(t, version, lag) ==
  LET newer == version > jobs[t].input IN
  /\ Cardinality(RunningAhead(lag)) < MaxClaimed
  /\ t \notin RunningAhead(lag)
  /\ newer \/ ~Ahead(jobs[t].retryAt, lag)
  /\ newer \/ jobs[t].retries > 0

\* The claim of one scanned thread.  Claimed adds a job to work on, and ends the
\* loop when it is the last that max_claimed allows; every other outcome goes on
\* to the next item.
try_claim_stage1_job(p, t, lag) ==
  LET version == proc[p].items[t] IN
  /\ proc[p].pc = "claim"
  /\ version # 0
  /\ IF ~UpToDate(t, version) /\ Claimable(t, version, lag)
       THEN /\ jobs' = [jobs EXCEPT ![t] =
                 [status |-> "running", token |-> FreshToken, lease |-> Lease - lag,
                  retryAt |-> Past,
                  retries |-> IF version > @.input THEN Retries ELSE @.retries,
                  input |-> version, success |-> @.success]]
            /\ flights' = flights \union
                 {[proc |-> p, thread |-> t, token |-> FreshToken, version |-> version,
                   read |-> 0, pre |-> FALSE]}
            /\ proc' = [proc EXCEPT ![p].items =
                 IF Cardinality(FlightsOf(p)) + 1 >= MaxClaimed
                   THEN NoInputs ELSE [@ EXCEPT ![t] = 0]]
       ELSE /\ proc' = [proc EXCEPT ![p].items[t] = 0]
            /\ UNCHANGED <<jobs, flights>>
  /\ UNCHANGED <<thread, outputs, global, ws, clearing, acts, faults>>

Working(p) == proc[p].pc = "claim" /\ proc[p].items = NoInputs

AfterPhase1(p) ==
  proc' = [proc EXCEPT ![p] = [IdleProc EXCEPT !.pc = IF Phase2 THEN "phase2" ELSE "idle"]]

\* A query fails: the claims made so far are forgotten, phase 2 goes on.
ClaimsFail(p) ==
  /\ Fault
  /\ proc[p].pc = "scan" \/ proc[p].items # NoInputs
  /\ flights' = flights \ FlightsOf(p)
  /\ AfterPhase1(p)
  /\ UNCHANGED <<thread, db, ws, clearing, acts>>

\* The rollout is read as it is now, which may be newer than the claim.
Sample(f) ==
  /\ f.read = 0
  /\ flights' = (flights \ {f}) \union {[f EXCEPT !.read = thread[f.thread].version]}
  /\ UNCHANGED <<thread, db, ws, proc, clearing, acts, faults>>

Done(row) == [row EXCEPT !.status = "done", !.lease = Past, !.success = row.input]

\* The upsert keeps a newer output, the citations of the row, and its place in
\* the selection of the last baseline.
Published(f) ==
  LET row == outputs[f.thread] IN
  IF f.version >= row.src
    THEN [outputs EXCEPT ![f.thread] =
            [row EXCEPT !.src = f.version, !.read = f.read,
                        !.old = row.old /\ row.used, !.pre = f.pre]]
    ELSE outputs

\* Mutant: the memory is stored before the ownership test.
PublishThenTest(f) ==
  /\ f.read # 0
  /\ flights' = flights \ {f}
  /\ outputs' = Published(f)
  /\ IF OwnsJob(f)
       THEN jobs' = [jobs EXCEPT ![f.thread] = Done(@)] /\ global' = Enqueued
       ELSE UNCHANGED <<jobs, global>>
  /\ UNCHANGED <<thread, ws, proc, clearing, acts, faults>>

\* Mutant: any running claim of the thread is completed, whoever owns it.
SucceedAnyOwner(f) ==
  /\ f.read # 0
  /\ flights' = flights \ {f}
  /\ IF jobs[f.thread].status = "running"
       THEN /\ jobs' = [jobs EXCEPT ![f.thread] = Done(@)]
            /\ outputs' = Published(f)
            /\ global' = Enqueued
       ELSE UNCHANGED db
  /\ UNCHANGED <<thread, ws, proc, clearing, acts, faults>>

mark_stage1_job_succeeded(f) ==
  /\ f.read # 0
  /\ flights' = flights \ {f}
  /\ IF OwnsJob(f)
       THEN /\ jobs' = [jobs EXCEPT ![f.thread] = Done(@)]
            /\ outputs' = Published(f)
            /\ global' = Enqueued
       ELSE UNCHANGED db
  /\ UNCHANGED <<thread, ws, proc, clearing, acts, faults>>

mark_stage1_job_succeeded_no_output(f) ==
  /\ f.read # 0
  /\ flights' = flights \ {f}
  /\ IF OwnsJob(f)
       THEN /\ jobs' = [jobs EXCEPT ![f.thread] = Done(@)]
            /\ outputs' = [outputs EXCEPT ![f.thread] = NoOutput]
            /\ global' = IF outputs[f.thread].src # 0 THEN Enqueued ELSE global
       ELSE UNCHANGED db
  /\ UNCHANGED <<thread, ws, proc, clearing, acts, faults>>

\* The rollout cannot be read or the model's answer cannot be used.
mark_stage1_job_failed(f, lag) ==
  /\ flights' = flights \ {f}
  /\ jobs' = IF OwnsJob(f)
               THEN [jobs EXCEPT ![f.thread].status = "error", ![f.thread].lease = Past,
                                 ![f.thread].retryAt = RetryDelay - lag,
                                 ![f.thread].retries = @ - 1]
               ELSE jobs
  /\ UNCHANGED <<thread, outputs, global, ws, proc, clearing, acts, faults>>

\* The database call that records the result fails: the row stays running.
ResultLost(f) ==
  /\ Fault
  /\ flights' = flights \ {f}
  /\ UNCHANGED <<thread, db, ws, proc, clearing, acts>>

Phase1Done(p) ==
  /\ Working(p)
  /\ FlightsOf(p) = {}
  /\ AfterPhase1(p)
  /\ UNCHANGED <<thread, db, ws, flights, clearing, acts, faults>>

(***************************************************************************)
(* Phase 2: one consolidation at a time, under the lease of the global row *)
(* and its ownership token.                                                *)
(***************************************************************************)
GlobalFree(lag) ==
  /\ ~Ahead(global.retryAt, lag)
  /\ ~(global.status = "running" /\ Ahead(global.lease, lag))
  /\ global.error \/ ~Ahead(global.cooldown, lag)

try_claim_global_phase2_job(p, lag) ==
  /\ proc[p].pc = "phase2"
  /\ IF GlobalFree(lag)
       THEN /\ global' = [NoGlobal EXCEPT !.status = "running", !.token = FreshToken,
                                          !.lease = Lease - lag]
            /\ proc' = [proc EXCEPT ![p].pc = "prepare", ![p].token = FreshToken]
       ELSE UNCHANGED global /\ Stop(p)
  /\ UNCHANGED <<thread, jobs, outputs, ws, flights, clearing, acts, faults>>

\* A baseline is made of the files there are when .git is missing.
Baseline == [inputs |-> ws.inputs, notes |-> ws.notes]

prepare_memory_workspace(p) ==
  /\ proc[p].pc = "prepare"
  /\ ws' = IF ws.base = {} THEN [ws EXCEPT !.base = {Baseline}] ELSE ws
  /\ Goto(p, "load")
  /\ UNCHANGED <<thread, db, flights, clearing, acts, faults>>

\* Mutant: the memory mode is not looked at.
SelectAnyMode(p) ==
  /\ proc[p].pc = "load"
  /\ proc' = [proc EXCEPT ![p].pc = "sync", ![p].sel =
       [t \in Threads |-> IF outputs[t].old THEN 0 ELSE outputs[t].src]]
  /\ UNCHANGED <<thread, db, ws, flights, clearing, acts, faults>>

\* The selection limit is far above the rows a model has.
get_phase2_input_selection(p) ==
  /\ proc[p].pc = "load"
  /\ proc' = [proc EXCEPT ![p].pc = "sync", ![p].sel =
       [t \in Threads |-> IF thread[t].mode = "enabled" /\ ~outputs[t].old
                            THEN outputs[t].src ELSE 0]]
  /\ UNCHANGED <<thread, db, ws, flights, clearing, acts, faults>>

sync_phase2_workspace_inputs(p) ==
  /\ proc[p].pc = "sync"
  /\ ws' = [ws EXCEPT !.inputs = proc[p].sel]
  /\ Goto(p, "diff")
  /\ UNCHANGED <<thread, db, flights, clearing, acts, faults>>

\* memory_workspace_diff fails without a repository; without changes there is
\* nothing to consolidate; otherwise the agent is spawned on the diff.
DiffAndSpawn(p) ==
  /\ proc[p].pc = "diff"
  /\ proc' = [proc EXCEPT
       ![p].pc = CASE ws.base = {}         -> "failed"
                   [] ws.base = {Baseline} -> "nochange"
                   [] OTHER                -> "agent",
       ![p].seen = IF ws.base \in {{}, {Baseline}} THEN @ ELSE ws.inputs]
  /\ UNCHANGED <<thread, db, ws, flights, clearing, acts, faults>>

\* Any of these steps may fail, and so may the agent or its session.
StepFails(p) ==
  /\ Fault
  /\ proc[p].pc \in {"prepare", "load", "sync", "diff", "agent", "confirm", "reset"}
  /\ Goto(p, "failed")
  /\ UNCHANGED <<thread, db, ws, flights, clearing, acts>>

\* An agent writes for as long as it runs, also after its process has given up.
AgentWrites(p) ==
  /\ proc[p].pc \in {"agent", "lost", "closing"}
  /\ ws' = [ws EXCEPT !.notes.whole = FALSE]
  /\ UNCHANGED <<thread, db, proc, flights, clearing, acts, faults>>

AgentCompletes(p) ==
  /\ proc[p].pc = "agent"
  /\ Punctual => \A q \in Procs : proc[q].pc \notin {"lost", "closing"}
  /\ ws' = [ws EXCEPT !.notes = Notes(proc[p].seen)]
  /\ Goto(p, "confirm")
  /\ UNCHANGED <<thread, db, flights, clearing, acts, faults>>

Renewed(lag) == [global EXCEPT !.lease = Lease - lag]

\* The tick of heartbeat_interval in loop_agent.
Heartbeat(p, lag) ==
  /\ proc[p].pc = "agent"
  /\ IF Owns(p) THEN global' = Renewed(lag) /\ UNCHANGED proc
                ELSE Goto(p, "lost") /\ UNCHANGED global
  /\ UNCHANGED <<thread, jobs, outputs, ws, flights, clearing, acts, faults>>

HeartbeatFails(p) ==
  /\ Fault
  /\ proc[p].pc = "agent"
  /\ Goto(p, "lost")
  /\ UNCHANGED <<thread, db, ws, flights, clearing, acts>>

ConfirmOwnership(p, lag) ==
  /\ proc[p].pc = "confirm"
  /\ IF Owns(p) THEN global' = Renewed(lag) /\ Goto(p, "reset")
                ELSE UNCHANGED global /\ Stop(p)
  /\ UNCHANGED <<thread, jobs, outputs, ws, flights, clearing, acts, faults>>

reset_memory_workspace_baseline(p) ==
  /\ proc[p].pc = "reset"
  /\ ws' = [ws EXCEPT !.base = {Baseline}]
  /\ Goto(p, "mark")
  /\ UNCHANGED <<thread, db, flights, clearing, acts, faults>>

\* The old repository is gone and the new one not yet committed.
ResetInterrupted(p) ==
  /\ Fault
  /\ proc[p].pc = "reset"
  /\ ws' = [ws EXCEPT !.base = {}]
  /\ Goto(p, "failed") \/ Stop(p)
  /\ UNCHANGED <<thread, db, flights, clearing, acts>>

\* Only the exact snapshots that were selected stay marked.
mark_global_phase2_job_succeeded(p, lag) ==
  /\ proc[p].pc \in {"nochange", "mark"}
  /\ IF Owns(p)
       THEN /\ global' = [global EXCEPT !.status = "done", !.lease = Past,
                            !.cooldown = Cooldown - lag, !.error = FALSE]
            /\ outputs' = [t \in Threads |-> [outputs[t] EXCEPT
                 !.sel = proc[p].sel[t] # 0 /\ outputs[t].src = proc[p].sel[t]]]
       ELSE UNCHANGED <<global, outputs>>
  /\ Stop(p)
  /\ UNCHANGED <<thread, jobs, ws, flights, clearing, acts, faults>>

\* job::failed: by token, then also a running row that has no token.
mark_global_phase2_job_failed(p, lag) ==
  /\ proc[p].pc \in {"failed", "lost"}
  /\ global' = IF global.status = "running" /\ global.token \in {proc[p].token, Null}
                 THEN [global EXCEPT !.status = "error", !.lease = Past, !.error = TRUE,
                         !.retryAt = RetryDelay - lag, !.cooldown = Cooldown - lag]
                 ELSE global
  /\ IF proc[p].pc = "lost" THEN Goto(p, "closing") ELSE Stop(p)
  /\ UNCHANGED <<thread, jobs, outputs, ws, flights, clearing, acts, faults>>

\* The call that records the outcome fails: the row stays running.
OutcomeLost(p) ==
  /\ Fault
  /\ proc[p].pc \in {"phase2", "nochange", "mark", "failed", "lost"}
  /\ IF proc[p].pc = "lost" THEN Goto(p, "closing") ELSE Stop(p)
  /\ UNCHANGED <<thread, db, ws, flights, clearing, acts>>

shutdown_consolidation_agent(p) ==
  /\ proc[p].pc = "closing"
  /\ Stop(p)
  /\ UNCHANGED <<thread, db, ws, flights, clearing, acts, faults>>

User ==
  \/ \E t \in Threads :
       \/ UpdateThread(t) \/ Age(t) \/ record_stage1_output_usage(t)
       \/ mark_thread_memory_mode_polluted(t)
       \/ \E mode \in {"enabled", "disabled"} : set_thread_memory_mode(t, mode)
  \/ clear_memory_data

Phase1Step(p) ==
  \/ Scan(p) \/ Phase1Done(p)
  \/ \E t \in Threads, lag \in 0..MaxLag : try_claim_stage1_job(p, t, lag)

Result(f) ==
  \/ mark_stage1_job_succeeded(f) \/ mark_stage1_job_succeeded_no_output(f)
  \/ \E lag \in 0..MaxLag : mark_stage1_job_failed(f, lag)

FlightStep(p) == Working(p) /\ \E f \in FlightsOf(p) : Sample(f) \/ Result(f)

Phase2Step(p) ==
  \/ prepare_memory_workspace(p) \/ get_phase2_input_selection(p)
  \/ sync_phase2_workspace_inputs(p) \/ DiffAndSpawn(p)
  \/ AgentCompletes(p) \/ reset_memory_workspace_baseline(p)
  \/ shutdown_consolidation_agent(p)
  \/ \E lag \in 0..MaxLag :
       \/ try_claim_global_phase2_job(p, lag) \/ ConfirmOwnership(p, lag)
       \/ mark_global_phase2_job_succeeded(p, lag)
       \/ mark_global_phase2_job_failed(p, lag)

Beat(p) == \E lag \in 0..MaxLag : Heartbeat(p, lag)

Faulty(p) ==
  \/ Crash(p) \/ SkipRateLimit(p) \/ ClaimsFail(p)
  \/ Working(p) /\ \E f \in FlightsOf(p) : ResultLost(f)
  \/ StepFails(p) \/ HeartbeatFails(p) \/ ResetInterrupted(p) \/ OutcomeLost(p)

Next ==
  \/ User \/ Tick \/ clear_memory_roots_contents
  \/ \E p \in Procs : start_memories_startup_task(p) \/ Phase1Step(p) \/ FlightStep(p)
                        \/ Phase2Step(p) \/ Beat(p) \/ AgentWrites(p) \/ Faulty(p)

Spec == Init /\ [][Next]_vars

\* Sessions keep being started and time passes; a pipeline that is not killed
\* goes on, its agent ends, and its heartbeat timer fires.
Fairness ==
  /\ WF_vars(Tick)
  /\ \A p \in Procs :
       /\ WF_vars(start_memories_startup_task(p)) /\ WF_vars(Phase1Step(p))
       /\ WF_vars(FlightStep(p)) /\ WF_vars(Phase2Step(p)) /\ WF_vars(Beat(p))

FairSpec == Spec /\ Fairness

(***************************************************************************)
(* Properties.                                                             *)
(***************************************************************************)
Time(bound) == Past..bound

Labels == Holding \union {"idle", "scan", "claim", "phase2", "lost", "closing"}
Files == [inputs : Inputs, notes : [of : Inputs, whole : BOOLEAN]]

ThreadRows == [version : 1..MaxVersion, idle : BOOLEAN,
               mode : {"enabled", "disabled", "polluted"}]
JobRows == [status : {"absent", "running", "done", "error"}, token : Tokens \union {Null},
            lease : Time(Lease), retryAt : Time(RetryDelay), retries : 0..Retries,
            input : 0..MaxVersion, success : 0..MaxVersion]
OutputRows == [src : 0..MaxVersion, read : 0..MaxVersion, old : BOOLEAN, used : BOOLEAN,
               sel : BOOLEAN, pre : BOOLEAN]
GlobalRows == [status : {"absent", "pending", "running", "done", "error"},
               token : Tokens \union {Null}, lease : Time(Lease),
               retryAt : Time(RetryDelay), cooldown : Time(Cooldown), error : BOOLEAN]
Pipelines == [pc : Labels, items : Inputs, token : Tokens \union {Null},
              sel : Inputs, seen : Inputs]
Flights == [proc : Procs, thread : Threads, token : Tokens, version : 1..MaxVersion,
            read : 0..MaxVersion, pre : BOOLEAN]

\* The columns, the files and the processes hold what the code stores in them.
TypeOK ==
  /\ thread \in [Threads -> ThreadRows] /\ jobs \in [Threads -> JobRows]
  /\ outputs \in [Threads -> OutputRows] /\ global \in GlobalRows
  /\ ws \in [inputs : Inputs, notes : [of : Inputs, whole : BOOLEAN], base : SUBSET Files]
  /\ proc \in [Procs -> Pipelines] /\ flights \subseteq Flights
  /\ clearing \in BOOLEAN /\ acts \in 0..MaxActs /\ faults \in 0..MaxFaults

\* max_running_jobs holds for all processes together, also when a claim runs on
\* a clock reading that is out of date (try_claim_stage1_job).
RunningCapHolds == Cardinality(RunningAhead(0)) <= MaxClaimed

\* A stored memory is the one its job row vouches for, and it was read from a
\* rollout at least as new as the version it is filed under: results of workers
\* that lost their claim never mix in (mark_stage1_job_succeeded).
OutputMatchesJob ==
  \A t \in Threads : outputs[t].src # 0 =>
    outputs[t].src = jobs[t].success /\ outputs[t].read >= outputs[t].src

\* memory/reset is final for the extractions it interrupts: what they publish
\* later is dropped (clear_memory_data, the token test of the mark_ methods).
NothingSurvivesReset == \A t \in Threads : ~outputs[t].pre

\* A process works on a thread at most once at a time, only behind its claims,
\* and not on a thread it has still to claim.
FlightsAreDistinct ==
  /\ \A f, g \in flights : f.proc = g.proc /\ f.thread = g.thread => f = g
  /\ \A f \in flights : proc[f.proc].pc = "claim" /\ proc[f.proc].items[f.thread] = 0

\* No scan, claim or job is ahead of its rollout, and what a job has read is not
\* older than its claim.
VersionsAreReal ==
  /\ \A p \in Procs, t \in Threads : proc[p].items[t] <= thread[t].version
  /\ \A f \in flights : /\ f.version <= thread[f.thread].version
                        /\ f.read # 0 => f.version <= f.read

\* Who owns a row is the one whose claim the row records, and claimed it after
\* the last reset.
OwnerMatchesRow ==
  \A f \in flights : OwnsJob(f) => jobs[f.thread].input = f.version /\ ~f.pre

\* The watermarks of a row are in order, and a running row has a retry to spend.
RowsAreSound ==
  \A t \in Threads :
    /\ jobs[t].success <= jobs[t].input
    /\ jobs[t].status = "running" => jobs[t].retries > 0

\* What is inductive.
JobsInv ==
  /\ TypeOK /\ FlightsAreDistinct /\ VersionsAreReal /\ OwnerMatchesRow /\ RowsAreSound
  /\ RunningCapHolds /\ OutputMatchesJob /\ NothingSurvivesReset

KeepsLiveLeases ==
  /\ \A t \in Threads :
       jobs[t].status = "running" /\ Ahead(jobs[t].lease, 0) /\ jobs'[t].status = "running"
         => jobs'[t].token = jobs[t].token
  /\ global.status = "running" /\ Ahead(global.lease, 0) /\ global'.status = "running"
       => global'.token = global.token

KeepsProgress ==
  \A t \in Threads :
    /\ jobs'[t] # NoJob => jobs'[t].success >= jobs[t].success
    /\ outputs'[t].src # 0 => outputs'[t].src >= outputs[t].src

\* A claim whose lease has time left is never taken over, whoever claims, on
\* whatever clock reading; only a reset removes it.
LiveLeaseIsKept == [][KeepsLiveLeases]_vars

\* Progress recorded for a thread is never taken back except by a reset or by
\* deleting the memory: a process that works from an old scan cannot lower it.
ProgressIsKept == [][KeepsProgress]_vars

Exhausted(t) == jobs[t].input = thread[t].version /\ jobs[t].retries = 0

\* A thread with new content is extracted in the end, whichever workers die with
\* its claim, unless its retries are used up or its memory is turned off.
StaleThreadIsExtracted ==
  \A t \in Threads :
    thread[t].mode = "enabled"
      ~> UpToDate(t, thread[t].version) \/ Exhausted(t) \/ thread[t].mode # "enabled"

\* What a polluted thread contributed leaves the consolidated memory in the end.
PollutedIsForgotten ==
  \A t \in Threads :
    thread[t].mode = "polluted" ~> ws.notes.of[t] = 0 \/ thread[t].mode # "polluted"
=============================================================================
