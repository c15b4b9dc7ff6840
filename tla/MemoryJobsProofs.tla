-------------------------- MODULE MemoryJobsProofs --------------------------
(***************************************************************************)
(* Proofs about MemoryJobs for any sets of threads and processes and any   *)
(* lease, lag and limits that satisfy the assumptions of that module.      *)
(***************************************************************************)
EXTENDS MemoryJobs, FiniteSetTheorems, TLAPS

(***************************************************************************)
(* Tokens.                                                                 *)
(***************************************************************************)

\* A union has no more elements than its parts together.
LEMMA UnionBound ==
  ASSUME NEW S, NEW T, IsFiniteSet(S), IsFiniteSet(T)
  PROVE  /\ IsFiniteSet(S \union T)
         /\ Cardinality(S \union T) <= Cardinality(S) + Cardinality(T)
         /\ Cardinality(S) \in Nat /\ Cardinality(T) \in Nat
         /\ Cardinality(S \union T) \in Nat
<1>1. IsFiniteSet(S \cap T) /\ IsFiniteSet(S \union T)
  BY FS_Intersection, FS_Union
<1>2. /\ Cardinality(S) \in Nat /\ Cardinality(T) \in Nat
      /\ Cardinality(S \cap T) \in Nat /\ Cardinality(S \union T) \in Nat
  BY <1>1, FS_CardinalityType
<1>3. Cardinality(S \union T) = Cardinality(S) + Cardinality(T) - Cardinality(S \cap T)
  BY FS_Union
<1> QED BY <1>1, <1>2, <1>3

\* A job in flight is known by its process and its thread, so that there are no
\* more of them than pairs.
LEMMA FlightsAreFew ==
  ASSUME TypeOK, FlightsAreDistinct
  PROVE  /\ IsFiniteSet(flights)
         /\ Cardinality(flights) <= Cardinality(Procs \X Threads)
<1> DEFINE f == [x \in flights |-> <<x.proc, x.thread>>]
<1>1. f \in Injection(flights, Procs \X Threads)
  <2>1. f \in [flights -> Procs \X Threads]
    BY DEF TypeOK, Flights
  <2>2. ASSUME NEW x \in flights, NEW y \in flights, f[x] = f[y]
        PROVE  x = y
    BY <2>2 DEF FlightsAreDistinct
  <2> QED BY <2>1, <2>2 DEF Injection, IsInjective
<1>2. IsFiniteSet(Procs \X Threads)
  BY FinitenessAssumption, FS_Product
<1> QED BY <1>1, <1>2, FS_Injection

\* There is always a token that nobody holds, so a claim gets one: the model's
\* counterpart of Uuid::new_v4.
LEMMA FreshTokenIsFresh ==
  ASSUME TypeOK, FlightsAreDistinct
  PROVE  FreshToken \in Tokens /\ FreshToken \notin InUse
<1> DEFINE A == {jobs[t].token : t \in Threads}
           B == {f.token : f \in flights}
           C == {proc[p].token : p \in Procs}
<1>1. IsFiniteSet(A) /\ Cardinality(A) <= Cardinality(Threads)
  <2> DEFINE f == [t \in Threads |-> jobs[t].token]
  <2>1. f \in Surjection(Threads, A)
    BY DEF Surjection
  <2> QED BY <2>1, FS_Surjection, FinitenessAssumption
<1>2. IsFiniteSet(C) /\ Cardinality(C) <= Cardinality(Procs)
  <2> DEFINE f == [p \in Procs |-> proc[p].token]
  <2>1. f \in Surjection(Procs, C)
    BY DEF Surjection
  <2> QED BY <2>1, FS_Surjection, FinitenessAssumption
<1>3. IsFiniteSet(B) /\ Cardinality(B) <= Cardinality(Procs \X Threads)
  <2> DEFINE f == [x \in flights |-> x.token]
  <2>1. f \in Surjection(flights, B)
    BY DEF Surjection
  <2>2. IsFiniteSet(B) /\ Cardinality(B) <= Cardinality(flights)
    BY <2>1, FS_Surjection, FlightsAreFew
  <2>3. Cardinality(B) \in Nat /\ Cardinality(flights) \in Nat
           /\ Cardinality(Procs \X Threads) \in Nat
    BY <2>2, FlightsAreFew, FS_CardinalityType, FS_Product, FinitenessAssumption
  <2> QED BY <2>2, <2>3, FlightsAreFew
<1>4. IsFiniteSet({global.token}) /\ Cardinality({global.token}) = 1
  BY FS_Singleton
<1> DEFINE D == ((A \union {global.token}) \union B) \union C
<1>5. IsFiniteSet(D) /\ Cardinality(D) <=
        Cardinality(A) + 1 + Cardinality(B) + Cardinality(C)
  <2> DEFINE E == A \union {global.token}
             F == E \union B
  <2> HIDE DEF A, B, C, E, F
  <2>1. /\ IsFiniteSet(E) /\ Cardinality(E) <= Cardinality(A) + 1
        /\ Cardinality(E) \in Nat /\ Cardinality(A) \in Nat
    BY <1>1, <1>4, UnionBound DEF E
  <2>2. /\ IsFiniteSet(F) /\ Cardinality(F) <= Cardinality(E) + Cardinality(B)
        /\ Cardinality(F) \in Nat /\ Cardinality(B) \in Nat
    BY <2>1, <1>3, UnionBound DEF F
  <2>3. /\ IsFiniteSet(F \union C)
        /\ Cardinality(F \union C) <= Cardinality(F) + Cardinality(C)
        /\ Cardinality(F \union C) \in Nat /\ Cardinality(C) \in Nat
    BY <2>2, <1>2, UnionBound
  <2>4. D = F \union C
    BY DEF E, F
  <2> HIDE DEF D
  <2> QED BY <2>1, <2>2, <2>3, <2>4
<1>6. D = InUse
  BY DEF InUse
<1>7. ~(Tokens \subseteq InUse)
  <2> SUFFICES ASSUME Tokens \subseteq D PROVE FALSE
    BY <1>6
  <2>1. Cardinality(Tokens) <= Cardinality(D) /\ IsFiniteSet(Tokens)
    BY <1>5, FS_Subset
  <2>2. /\ Cardinality(Threads) \in Nat /\ Cardinality(Procs) \in Nat
        /\ Cardinality(Procs \X Threads) \in Nat
    BY FS_CardinalityType, FS_Product, FinitenessAssumption
  <2>3. /\ Cardinality(A) \in Nat /\ Cardinality(B) \in Nat /\ Cardinality(C) \in Nat
        /\ Cardinality(D) \in Nat /\ Cardinality(Tokens) \in Nat
    BY <1>1, <1>2, <1>3, <1>5, <2>1, FS_CardinalityType
  <2> HIDE DEF A, B, C, D
  <2> QED BY <1>1, <1>2, <1>3, <1>5, <2>1, <2>2, <2>3, TokenAssumption
<1> QED BY <1>7 DEF FreshToken

(***************************************************************************)
(* Types.                                                                  *)
(***************************************************************************)

\* Times, also those computed from an old clock reading, stay within bounds.
LEMMA TimeTypes ==
  /\ MaxLag \in Nat /\ Lease \in Nat /\ RetryDelay \in Nat /\ Cooldown \in Nat
  /\ Past \in Int /\ MaxVersion \in Nat \ {0} /\ MaxActs \in Nat /\ MaxFaults \in Nat
  /\ Retries \in Nat \ {0} /\ MaxClaimed \in Nat \ {0}
  /\ Past \in Time(Lease) /\ Past \in Time(RetryDelay) /\ Past \in Time(Cooldown)
  /\ \A lag \in 0..MaxLag : /\ Lease - lag \in Time(Lease) /\ Lease - lag > 0
                           /\ RetryDelay - lag \in Time(RetryDelay)
                           /\ Cooldown - lag \in Time(Cooldown)
  /\ \A x \in Time(Lease) : Less(x) \in Time(Lease) /\ Less(x) <= x /\ x \in Int
  /\ \A x \in Time(RetryDelay) : Less(x) \in Time(RetryDelay)
  /\ \A x \in Time(Cooldown) : Less(x) \in Time(Cooldown)
BY TimingAssumption DEF Time, Past, Less

\* The rows that the code writes afresh are rows.
LEMMA FreshRows ==
  /\ NoInputs \in Inputs /\ NoJob \in JobRows /\ NoOutput \in OutputRows
  /\ NoGlobal \in GlobalRows /\ IdleProc \in Pipelines
  /\ EmptyWs \in [inputs : Inputs, notes : [of : Inputs, whole : BOOLEAN],
                    base : SUBSET Files]
<1>1. NoInputs \in Inputs
  BY TimeTypes DEF NoInputs, Inputs
<1> QED BY <1>1, TimeTypes DEF NoJob, JobRows, NoOutput, OutputRows, NoGlobal, GlobalRows,
     IdleProc, Pipelines, Labels, EmptyWs, Notes, Files, Null

\* Requesting a consolidation keeps the type of the global row.
LEMMA EnqueuedType == ASSUME TypeOK PROVE Enqueued \in GlobalRows
BY FreshRows, TimeTypes DEF TypeOK, Enqueued, GlobalRows, NoGlobal

\* So do the two results of a job.
LEMMA DoneType == ASSUME NEW row \in JobRows PROVE Done(row) \in JobRows
BY TimeTypes DEF Done, JobRows

\* Publishing an extraction stores an output of its type.
LEMMA PublishedType ==
  ASSUME TypeOK, NEW f \in Flights
  PROVE  Published(f) \in [Threads -> OutputRows]
<1>1. f.thread \in Threads
  BY DEF Flights
<1>2. outputs[f.thread] \in OutputRows
  BY <1>1 DEF TypeOK
<1>3. /\ f.version \in 0..MaxVersion /\ f.read \in 0..MaxVersion /\ f.pre \in BOOLEAN
      /\ (outputs[f.thread].old /\ outputs[f.thread].used) \in BOOLEAN
  BY TimeTypes DEF Flights
<1> DEFINE row == [outputs[f.thread] EXCEPT !.src = f.version, !.read = f.read,
                     !.old = outputs[f.thread].old /\ outputs[f.thread].used, !.pre = f.pre]
<1>4. row \in OutputRows
  BY <1>2, <1>3 DEF OutputRows
<1>5. Published(f) = IF f.version >= outputs[f.thread].src
                       THEN [outputs EXCEPT ![f.thread] = row] ELSE outputs
  BY DEF Published
<1> HIDE DEF row
<1> QED BY <1>1, <1>4, <1>5 DEF TypeOK

\* The tables are empty and every pipeline idle.
LEMMA InitType == Init => TypeOK
<1> SUFFICES ASSUME Init PROVE TypeOK
  OBVIOUS
<1>1. thread \in [Threads -> ThreadRows]
  BY TimeTypes DEF Init, ThreadRows
<1>2. 0 \in 0..MaxActs /\ 0 \in 0..MaxFaults
  BY TimeTypes
<1> QED BY <1>1, <1>2, FreshRows DEF Init, TypeOK

\* What the user does and time, and every step of phase 1, keep the types.
LEMMA UserType ==
  ASSUME TypeOK, User \/ Tick \/ clear_memory_roots_contents
  PROVE  TypeOK'
<1> USE TimeTypes, FreshRows
<1>1. ASSUME NEW t \in Threads, UpdateThread(t) PROVE TypeOK'
  <2>1. thread' \in [Threads -> ThreadRows]
    <3> DEFINE v == thread[t].version + 1
    <3>1. v \in 1..MaxVersion
      BY <1>1 DEF UpdateThread, TypeOK, ThreadRows
    <3>2. thread' = [thread EXCEPT ![t].version = v, ![t].idle = FALSE]
      BY <1>1 DEF UpdateThread
    <3> HIDE DEF v
    <3>3. thread \in [Threads -> ThreadRows]
      BY DEF TypeOK
    <3> QED BY ONLY <3>1, <3>2, <3>3 DEF ThreadRows
  <2>2. acts' \in 0..MaxActs
    BY <1>1 DEF UpdateThread, Act, TypeOK
  <2> QED BY <1>1, <2>1, <2>2 DEF UpdateThread, TypeOK, db
<1>2. ASSUME NEW t \in Threads, Age(t) \/ record_stage1_output_usage(t) PROVE TypeOK'
  <2>1. outputs' \in [Threads -> OutputRows]
    <3>1. CASE Age(t)
      BY <3>1 DEF Age, TypeOK, OutputRows
    <3>2. CASE record_stage1_output_usage(t)
      BY <3>2 DEF record_stage1_output_usage, TypeOK, OutputRows
    <3> QED BY <1>2, <3>1, <3>2
  <2>2. acts' \in 0..MaxActs
    BY <1>2 DEF Age, record_stage1_output_usage, Act, TypeOK
  <2> QED BY <1>2, <2>1, <2>2 DEF Age, record_stage1_output_usage, TypeOK
<1>3. ASSUME NEW t \in Threads, mark_thread_memory_mode_polluted(t) PROVE TypeOK'
  BY <1>3, EnqueuedType DEF mark_thread_memory_mode_polluted, Act, TypeOK, ThreadRows
<1>4. ASSUME NEW t \in Threads, NEW mode \in {"enabled", "disabled"},
             set_thread_memory_mode(t, mode)
      PROVE  TypeOK'
  BY <1>4 DEF set_thread_memory_mode, Act, TypeOK, db, ThreadRows
<1>5. CASE clear_memory_data
  <2>1. flights' \subseteq Flights
    <3>1. ASSUME NEW f \in flights PROVE [f EXCEPT !.pre = TRUE] \in Flights
      BY DEF TypeOK, Flights
    <3> QED BY <1>5, <3>1 DEF clear_memory_data
  <2>2. acts' \in 0..MaxActs
    BY <1>5 DEF clear_memory_data, Act, TypeOK
  <2> QED BY <1>5, <2>1, <2>2 DEF clear_memory_data, TypeOK
<1>6. CASE clear_memory_roots_contents
  BY <1>6 DEF clear_memory_roots_contents, TypeOK, db
<1>7. CASE Tick
  <2>1. jobs' \in [Threads -> JobRows]
    BY <1>7 DEF Tick, TypeOK, JobRows
  <2>2. global' \in GlobalRows
    BY <1>7 DEF Tick, TypeOK, GlobalRows
  <2>3. thread' \in [Threads -> ThreadRows]
    BY <1>7, ZenonT(60) DEF Tick, TypeOK, ThreadRows
  <2> QED BY <1>7, <2>1, <2>2, <2>3 DEF Tick, TypeOK
<1> QED BY <1>1, <1>2, <1>3, <1>4, <1>5, <1>6, <1>7 DEF User

\* A claim writes a fresh token; a failed job has a retry to spend.
LEMMA Phase1Type ==
  ASSUME TypeOK, FlightsAreDistinct, RowsAreSound, NEW p \in Procs,
         start_memories_startup_task(p) \/ Phase1Step(p) \/ FlightStep(p)
  PROVE  TypeOK'
<1> USE TimeTypes, FreshRows
<1>1. CASE start_memories_startup_task(p)
  BY <1>1 DEF start_memories_startup_task, Goto, TypeOK, Pipelines, Labels
<1>2. CASE Scan(p)
  <2>1. Candidates \in Inputs
    BY DEF Candidates, Inputs, TypeOK, ThreadRows
  <2> QED BY <1>2, <2>1 DEF Scan, TypeOK, Pipelines, Labels, db
<1>3. CASE Phase1Done(p)
  BY <1>3 DEF Phase1Done, AfterPhase1, TypeOK, Pipelines, IdleProc, Labels, db
<1>4. ASSUME NEW t \in Threads, NEW lag \in 0..MaxLag, try_claim_stage1_job(p, t, lag)
      PROVE  TypeOK'
  <2> DEFINE version == proc[p].items[t]
  <2>1. version \in 1..MaxVersion
    BY <1>4 DEF try_claim_stage1_job, TypeOK, Pipelines, Inputs
  <2>2. proc' \in [Procs -> Pipelines]
    <3>1. \E w \in Inputs : proc' = [proc EXCEPT ![p].items = w]
      <4>1. proc[p].items \in Inputs /\ [proc[p].items EXCEPT ![t] = 0] \in Inputs
        BY DEF TypeOK, Pipelines, Inputs
      <4>2. \/ proc' = [proc EXCEPT ![p].items = NoInputs]
            \/ proc' = [proc EXCEPT ![p].items = [proc[p].items EXCEPT ![t] = 0]]
        BY <1>4 DEF try_claim_stage1_job, TypeOK, Pipelines
      <4> QED BY <4>1, <4>2
    <3> QED BY <3>1 DEF TypeOK, Pipelines
  <2>3. jobs' \in [Threads -> JobRows]
    <3>1. CASE jobs' = jobs
      BY <3>1 DEF TypeOK
    <3>2. CASE jobs' # jobs
      <4> DEFINE row == [status |-> "running", token |-> FreshToken, lease |-> Lease - lag,
                         retryAt |-> Past,
                         retries |-> IF version > jobs[t].input THEN Retries
                                                                ELSE jobs[t].retries,
                         input |-> version, success |-> jobs[t].success]
      <4>1. jobs' = [jobs EXCEPT ![t] = row]
        BY <1>4, <3>2 DEF try_claim_stage1_job, TypeOK
      <4>2. row \in JobRows
        <5>1. jobs[t] \in JobRows
          BY DEF TypeOK
        <5>2. version \in 0..MaxVersion /\ jobs[t].input \in Int
          BY <2>1, <5>1 DEF JobRows
        <5>3. (IF version > jobs[t].input THEN Retries ELSE jobs[t].retries) \in 0..Retries
          BY <5>1 DEF JobRows
        <5> QED BY <5>1, <5>2, <5>3, FreshTokenIsFresh DEF JobRows
      <4> HIDE DEF row
      <4> QED BY <4>1, <4>2 DEF TypeOK
    <3> QED BY <3>1, <3>2
  <2>4. flights' \subseteq Flights
    <3>1. [proc |-> p, thread |-> t, token |-> FreshToken, version |-> version,
           read |-> 0, pre |-> FALSE] \in Flights
      BY <2>1, FreshTokenIsFresh DEF Flights
    <3> QED BY <1>4, <3>1 DEF try_claim_stage1_job, TypeOK
  <2> QED BY <1>4, <2>2, <2>3, <2>4 DEF try_claim_stage1_job, TypeOK
<1>5. ASSUME NEW f \in FlightsOf(p), Sample(f) PROVE TypeOK'
  BY <1>5 DEF Sample, FlightsOf, TypeOK, Flights, ThreadRows, db
<1>6. ASSUME NEW f \in FlightsOf(p), mark_stage1_job_succeeded(f) PROVE TypeOK'
  <2>1. f \in Flights /\ f.thread \in Threads
    BY <1>6 DEF FlightsOf, TypeOK, Flights
  <2>2. jobs' \in [Threads -> JobRows]
    BY <1>6, <2>1, DoneType DEF mark_stage1_job_succeeded, TypeOK, db
  <2>3. outputs' \in [Threads -> OutputRows]
    BY <1>6, <2>1, PublishedType DEF mark_stage1_job_succeeded, TypeOK, db
  <2>4. global' \in GlobalRows
    BY <1>6, EnqueuedType DEF mark_stage1_job_succeeded, TypeOK, db
  <2> QED BY <1>6, <2>2, <2>3, <2>4 DEF mark_stage1_job_succeeded, TypeOK
<1>7. ASSUME NEW f \in FlightsOf(p), mark_stage1_job_succeeded_no_output(f) PROVE TypeOK'
  <2>1. f \in Flights /\ f.thread \in Threads
    BY <1>7 DEF FlightsOf, TypeOK, Flights
  <2>2. jobs' \in [Threads -> JobRows]
    BY <1>7, <2>1, DoneType DEF mark_stage1_job_succeeded_no_output, TypeOK, db
  <2>3. outputs' \in [Threads -> OutputRows]
    BY <1>7, <2>1 DEF mark_stage1_job_succeeded_no_output, TypeOK, db
  <2>4. global' \in GlobalRows
    BY <1>7, EnqueuedType DEF mark_stage1_job_succeeded_no_output, TypeOK, db
  <2> QED BY <1>7, <2>2, <2>3, <2>4 DEF mark_stage1_job_succeeded_no_output, TypeOK
<1>8. ASSUME NEW f \in FlightsOf(p), NEW lag \in 0..MaxLag, mark_stage1_job_failed(f, lag)
      PROVE  TypeOK'
  <2>1. f \in Flights /\ f.thread \in Threads
    BY <1>8 DEF FlightsOf, TypeOK, Flights
  <2>2. jobs' \in [Threads -> JobRows]
    BY <1>8, <2>1 DEF mark_stage1_job_failed, OwnsJob, RowsAreSound, TypeOK, JobRows
  <2> QED BY <1>8, <2>2 DEF mark_stage1_job_failed, TypeOK
<1> QED BY <1>1, <1>2, <1>3, <1>4, <1>5, <1>6, <1>7, <1>8 DEF Phase1Step, FlightStep, Result

\* The pipeline's record keeps its type when it moves on or stops.
LEMMA GotoType ==
  ASSUME TypeOK, NEW p \in Procs, Stop(p) \/ \E label \in Labels : Goto(p, label)
  PROVE  proc' \in [Procs -> Pipelines]
<1>1. CASE Stop(p)
  BY <1>1, FreshRows DEF Stop, TypeOK
<1>2. ASSUME NEW label \in Labels, Goto(p, label) PROVE proc' \in [Procs -> Pipelines]
  BY <1>2 DEF Goto, TypeOK, Pipelines
<1> QED BY <1>1, <1>2

\* What is on the files is a possible baseline.
LEMMA BaselineType == ASSUME TypeOK PROVE Baseline \in Files
BY DEF TypeOK, Baseline, Files

\* Phase 2 keeps the types.
LEMMA Phase2Type ==
  ASSUME TypeOK, FlightsAreDistinct, NEW p \in Procs,
         Phase2Step(p) \/ Beat(p) \/ AgentWrites(p)
  PROVE  TypeOK'
<1> USE DEF Labels, Holding
<1>1. CASE prepare_memory_workspace(p)
  <2>1. proc' \in [Procs -> Pipelines]
    BY <1>1, GotoType DEF prepare_memory_workspace
  <2> QED BY <1>1, <2>1, BaselineType DEF prepare_memory_workspace, TypeOK, db
<1>2. CASE get_phase2_input_selection(p)
  <2> DEFINE chosen == [t \in Threads |-> IF thread[t].mode = "enabled" /\ ~outputs[t].old
                                          THEN outputs[t].src ELSE 0]
  <2>1. chosen \in Inputs
    BY TimeTypes DEF Inputs, TypeOK, OutputRows
  <2>2. proc' = [proc EXCEPT ![p].pc = "sync", ![p].sel = chosen]
    BY <1>2 DEF get_phase2_input_selection
  <2>3. proc' \in [Procs -> Pipelines]
    <3>1. proc \in [Procs -> Pipelines] /\ "sync" \in Labels
      BY DEF TypeOK
    <3> HIDE DEF chosen, Labels
    <3> QED BY ONLY <2>1, <2>2, <3>1 DEF Pipelines
  <2> QED BY <1>2, <2>3 DEF get_phase2_input_selection, TypeOK, db
<1>3. CASE sync_phase2_workspace_inputs(p)
  <2>1. proc' \in [Procs -> Pipelines]
    BY <1>3, GotoType DEF sync_phase2_workspace_inputs
  <2>2. proc[p].sel \in Inputs
    BY DEF TypeOK, Pipelines
  <2> QED BY <1>3, <2>1, <2>2 DEF sync_phase2_workspace_inputs, TypeOK, db
<1>4. CASE DiffAndSpawn(p)
  <2>1. PICK label \in Labels, seen \in Inputs :
          proc' = [proc EXCEPT ![p].pc = label, ![p].seen = seen]
    BY <1>4 DEF DiffAndSpawn, TypeOK, Pipelines
  <2>2. proc' \in [Procs -> Pipelines]
    <3>1. proc \in [Procs -> Pipelines]
      BY DEF TypeOK
    <3> HIDE DEF Labels
    <3> QED BY ONLY <2>1, <3>1, label \in Labels, seen \in Inputs DEF Pipelines
  <2> QED BY <1>4, <2>2 DEF DiffAndSpawn, TypeOK, db
<1>5. CASE AgentCompletes(p)
  <2>1. proc' \in [Procs -> Pipelines]
    BY <1>5, GotoType DEF AgentCompletes
  <2>2. Notes(proc[p].seen) \in [of : Inputs, whole : BOOLEAN]
    BY DEF TypeOK, Pipelines, Notes
  <2> QED BY <1>5, <2>1, <2>2 DEF AgentCompletes, TypeOK, db
<1>6. CASE reset_memory_workspace_baseline(p)
  <2>1. proc' \in [Procs -> Pipelines]
    BY <1>6, GotoType DEF reset_memory_workspace_baseline
  <2> QED BY <1>6, <2>1, BaselineType DEF reset_memory_workspace_baseline, TypeOK, db
<1>7. CASE shutdown_consolidation_agent(p)
  BY <1>7, GotoType DEF shutdown_consolidation_agent, TypeOK, db
<1>8. ASSUME NEW lag \in 0..MaxLag, try_claim_global_phase2_job(p, lag) PROVE TypeOK'
  <2>1. FreshToken \in Tokens
    BY FreshTokenIsFresh
  <2>2. global' \in GlobalRows
    <3>1. Lease - lag \in Time(Lease)
      BY TimeTypes
    <3>2. [NoGlobal EXCEPT !.status = "running", !.token = FreshToken, !.lease = Lease - lag]
            \in GlobalRows
      BY <2>1, <3>1, FreshRows DEF GlobalRows
    <3> QED BY <1>8, <3>2 DEF try_claim_global_phase2_job, TypeOK
  <2>3. proc' \in [Procs -> Pipelines]
    BY <1>8, <2>1, FreshRows DEF try_claim_global_phase2_job, Stop, TypeOK, Pipelines
  <2> QED BY <1>8, <2>2, <2>3 DEF try_claim_global_phase2_job, TypeOK
<1>9. ASSUME NEW lag \in 0..MaxLag, ConfirmOwnership(p, lag) \/ Heartbeat(p, lag)
      PROVE  TypeOK'
  <2>1. global' \in GlobalRows
    BY <1>9, TimeTypes DEF ConfirmOwnership, Heartbeat, Renewed, TypeOK, GlobalRows
  <2>2. proc' \in [Procs -> Pipelines]
    BY <1>9, GotoType DEF ConfirmOwnership, Heartbeat, TypeOK
  <2> QED BY <1>9, <2>1, <2>2 DEF ConfirmOwnership, Heartbeat, TypeOK
<1>10. ASSUME NEW lag \in 0..MaxLag, mark_global_phase2_job_succeeded(p, lag) PROVE TypeOK'
  <2>1. global' \in GlobalRows
    <3>1. Past \in Time(Lease) /\ Cooldown - lag \in Time(Cooldown)
      BY TimeTypes
    <3>2. global \in GlobalRows
      BY DEF TypeOK
    <3>3. [global EXCEPT !.status = "done", !.lease = Past, !.cooldown = Cooldown - lag,
                         !.error = FALSE] \in GlobalRows
      BY ONLY <3>1, <3>2 DEF GlobalRows
    <3> QED BY <1>10, <3>2, <3>3 DEF mark_global_phase2_job_succeeded
  <2>2. outputs' \in [Threads -> OutputRows]
    <3>1. ASSUME NEW t \in Threads, NEW b \in BOOLEAN
          PROVE  [outputs[t] EXCEPT !.sel = b] \in OutputRows
      BY DEF TypeOK, OutputRows
    <3>2. ASSUME NEW t \in Threads
          PROVE  [outputs[t] EXCEPT
                   !.sel = proc[p].sel[t] # 0 /\ outputs[t].src = proc[p].sel[t]] \in OutputRows
      BY <3>1
    <3> QED BY <1>10, <3>2 DEF mark_global_phase2_job_succeeded, TypeOK
  <2>3. proc' \in [Procs -> Pipelines]
    BY <1>10, GotoType DEF mark_global_phase2_job_succeeded
  <2> QED BY <1>10, <2>1, <2>2, <2>3 DEF mark_global_phase2_job_succeeded, TypeOK
<1>11. ASSUME NEW lag \in 0..MaxLag, mark_global_phase2_job_failed(p, lag) PROVE TypeOK'
  <2>1. global' \in GlobalRows
    BY <1>11, TimeTypes DEF mark_global_phase2_job_failed, TypeOK, GlobalRows
  <2>2. proc' \in [Procs -> Pipelines]
    BY <1>11, GotoType DEF mark_global_phase2_job_failed
  <2> QED BY <1>11, <2>1, <2>2 DEF mark_global_phase2_job_failed, TypeOK
<1>12. CASE AgentWrites(p)
  BY <1>12 DEF AgentWrites, TypeOK, db
<1> QED BY <1>1, <1>2, <1>3, <1>4, <1>5, <1>6, <1>7, <1>8, <1>9, <1>10, <1>11, <1>12
     DEF Phase2Step, Beat

\* So do the faults.
LEMMA FaultType ==
  ASSUME TypeOK, NEW p \in Procs, Faulty(p)
  PROVE  TypeOK'
<1> USE DEF Labels, Holding
<1>1. ASSUME Fault PROVE faults' \in 0..MaxFaults
  BY <1>1, TimeTypes DEF Fault, TypeOK
<1>2. CASE Crash(p) \/ SkipRateLimit(p)
  BY <1>1, <1>2, GotoType DEF Crash, SkipRateLimit, TypeOK, db
<1>3. CASE ClaimsFail(p)
  <2>1. proc' \in [Procs -> Pipelines]
    BY <1>3, FreshRows DEF ClaimsFail, AfterPhase1, IdleProc, TypeOK, Pipelines
  <2> QED BY <1>1, <1>3, <2>1 DEF ClaimsFail, TypeOK, db
<1>4. ASSUME NEW f \in FlightsOf(p), ResultLost(f) PROVE TypeOK'
  BY <1>1, <1>4 DEF ResultLost, TypeOK, db
<1>5. CASE StepFails(p) \/ HeartbeatFails(p) \/ OutcomeLost(p)
  <2>1. proc' \in [Procs -> Pipelines]
    BY <1>5, GotoType DEF StepFails, HeartbeatFails, OutcomeLost
  <2> QED BY <1>1, <1>5, <2>1 DEF StepFails, HeartbeatFails, OutcomeLost, TypeOK, db
<1>6. CASE ResetInterrupted(p)
  <2>1. proc' \in [Procs -> Pipelines]
    BY <1>6, GotoType DEF ResetInterrupted
  <2> QED BY <1>1, <1>6, <2>1 DEF ResetInterrupted, TypeOK, db
<1> QED BY <1>2, <1>3, <1>4, <1>5, <1>6 DEF Faulty

(***************************************************************************)
(* The invariant of the rows and the jobs in flight.                       *)
(***************************************************************************)

\* The empty tables satisfy it.
LEMMA InitInv == Init => JobsInv
<1> SUFFICES ASSUME Init PROVE JobsInv
  OBVIOUS
<1>1. TypeOK
  BY InitType
<1>2. FlightsAreDistinct /\ VersionsAreReal /\ OwnerMatchesRow
  BY DEF Init, FlightsAreDistinct, VersionsAreReal, OwnerMatchesRow, IdleProc, NoInputs
<1>3. RowsAreSound
  BY DEF Init, RowsAreSound, NoJob
<1>4. RunningCapHolds
  <2>1. RunningAhead(0) = {}
    BY DEF Init, RunningAhead, NoJob
  <2> QED BY <2>1, FS_EmptySet, TimeTypes DEF RunningCapHolds
<1>5. OutputMatchesJob /\ NothingSurvivesReset
  BY DEF Init, OutputMatchesJob, NothingSurvivesReset, NoOutput
<1> QED BY <1>1, <1>2, <1>3, <1>4, <1>5 DEF JobsInv

\* A step that leaves the rows alone, loses jobs in flight only, and changes a
\* scan only by dropping it when no job is left keeps the invariant.
LEMMA QuietStep ==
  ASSUME JobsInv, TypeOK', jobs' = jobs, flights' \subseteq flights,
         \A t \in Threads : thread[t].version <= thread'[t].version,
         \A t \in Threads :
            \/ outputs'[t] = NoOutput
            \/ /\ outputs'[t].src = outputs[t].src
               /\ outputs'[t].read = outputs[t].read
               /\ outputs'[t].pre = outputs[t].pre,
         \A p \in Procs :
            \/ /\ proc'[p].items = proc[p].items
               /\ proc[p].pc = "claim" => proc'[p].pc = "claim"
            \/ /\ proc'[p].items \in {NoInputs, proc[p].items}
               /\ \A f \in flights' : f.proc # p
  PROVE  JobsInv'
<1>1. FlightsAreDistinct'
  BY DEF JobsInv, FlightsAreDistinct, TypeOK, Flights
<1>2. VersionsAreReal'
  <2>1. ASSUME NEW p \in Procs, NEW t \in Threads
        PROVE  proc'[p].items[t] <= thread'[t].version
    <3>1. /\ proc[p].items[t] \in Int /\ thread[t].version \in Int
          /\ thread'[t].version \in Nat
      BY DEF JobsInv, TypeOK, Pipelines, Inputs, ThreadRows
    <3> QED BY <3>1 DEF JobsInv, VersionsAreReal, NoInputs
  <2>2. ASSUME NEW f \in flights'
        PROVE  f.version <= thread'[f.thread].version /\ (f.read # 0 => f.version <= f.read)
    <3>1. f \in flights /\ f.version \in Int /\ f.read \in Int /\ f.thread \in Threads
            /\ thread[f.thread].version \in Int /\ thread'[f.thread].version \in Int
      BY DEF JobsInv, TypeOK, Flights, ThreadRows
    <3>2. f.version <= thread[f.thread].version /\ (f.read # 0 => f.version <= f.read)
      <4>1. VersionsAreReal
        BY DEF JobsInv
      <4> QED BY ONLY <3>1, <4>1 DEF VersionsAreReal
    <3>3. thread[f.thread].version <= thread'[f.thread].version
      BY <3>1
    <3> QED BY ONLY <3>1, <3>2, <3>3
  <2> QED BY <2>1, <2>2 DEF VersionsAreReal
<1>3. OwnerMatchesRow' /\ RowsAreSound'
  BY DEF JobsInv, OwnerMatchesRow, RowsAreSound, OwnsJob
<1>4. RunningCapHolds'
  BY DEF JobsInv, RunningCapHolds, RunningAhead
<1>5. OutputMatchesJob' /\ NothingSurvivesReset'
  BY DEF JobsInv, OutputMatchesJob, NothingSurvivesReset, NoOutput
<1> QED BY <1>1, <1>2, <1>3, <1>4, <1>5 DEF JobsInv

\* What users do to threads and memories, and phase 2, are such steps.
LEMMA UserInv ==
  ASSUME JobsInv, TypeOK', NEW t \in Threads,
         \/ UpdateThread(t) \/ Age(t) \/ record_stage1_output_usage(t)
         \/ mark_thread_memory_mode_polluted(t)
         \/ \E mode \in {"enabled", "disabled"} : set_thread_memory_mode(t, mode)
  PROVE  JobsInv'
<1>1. jobs' = jobs /\ flights' = flights /\ proc' = proc
  BY DEF UpdateThread, Age, record_stage1_output_usage, mark_thread_memory_mode_polluted,
     set_thread_memory_mode, db
<1>2. ASSUME NEW u \in Threads PROVE thread[u].version <= thread'[u].version
  BY DEF UpdateThread, Age, record_stage1_output_usage, mark_thread_memory_mode_polluted,
     set_thread_memory_mode, JobsInv, TypeOK, ThreadRows
<1>3. ASSUME NEW u \in Threads
      PROVE  /\ outputs'[u].src = outputs[u].src /\ outputs'[u].read = outputs[u].read
             /\ outputs'[u].pre = outputs[u].pre
  BY DEF UpdateThread, Age, record_stage1_output_usage, mark_thread_memory_mode_polluted,
     set_thread_memory_mode, JobsInv, TypeOK, OutputRows, db
<1> QED BY <1>1, <1>2, <1>3, QuietStep

\* A process outside the claims has no job in flight.
LEMMA NoFlights ==
  ASSUME JobsInv, NEW p \in Procs, proc[p].pc # "claim"
  PROVE  \A f \in flights : f.proc # p
BY DEF JobsInv, FlightsAreDistinct

\* The steps of the second phase leave the jobs in flight alone.
LEMMA Phase2Inv ==
  ASSUME JobsInv, TypeOK', NEW p \in Procs,
         \/ Phase2Step(p) \/ Beat(p) \/ AgentWrites(p) \/ start_memories_startup_task(p)
         \/ SkipRateLimit(p) \/ StepFails(p) \/ HeartbeatFails(p) \/ ResetInterrupted(p)
         \/ OutcomeLost(p)
  PROVE  JobsInv'
<1> USE DEF Phase2Step, Beat, prepare_memory_workspace, get_phase2_input_selection,
        sync_phase2_workspace_inputs, DiffAndSpawn, AgentCompletes,
        reset_memory_workspace_baseline, shutdown_consolidation_agent,
        try_claim_global_phase2_job, ConfirmOwnership, mark_global_phase2_job_succeeded,
        mark_global_phase2_job_failed, Heartbeat, AgentWrites, start_memories_startup_task,
        SkipRateLimit, StepFails, HeartbeatFails, ResetInterrupted, OutcomeLost
<1>1. thread' = thread /\ jobs' = jobs /\ flights' = flights
  BY DEF db
<1>2. ASSUME NEW t \in Threads
      PROVE  \/ outputs'[t] = NoOutput
             \/ /\ outputs'[t].src = outputs[t].src /\ outputs'[t].read = outputs[t].read
                /\ outputs'[t].pre = outputs[t].pre
  <2>1. \/ outputs' = outputs
        \/ outputs' = [u \in Threads |-> IF u \in Prunable THEN NoOutput ELSE outputs[u]]
        \/ outputs' = [u \in Threads |-> [outputs[u] EXCEPT
                 !.sel = proc[p].sel[u] # 0 /\ outputs[u].src = proc[p].sel[u]]]
    BY DEF db
  <2>2. outputs[t] \in OutputRows
    BY DEF JobsInv, TypeOK
  <2> QED BY ONLY <2>1, <2>2, t \in Threads DEF OutputRows
<1>3. proc[p].pc # "claim"
  BY DEF db
<1>4. \A f \in flights' : f.proc # p
  BY <1>1, <1>3, NoFlights
<1>5. proc'[p].items \in {NoInputs, proc[p].items}
  <2>1. \/ proc' = proc \/ Stop(p) \/ \E label : Goto(p, label)
        \/ \E label, x : proc' = [proc EXCEPT ![p].pc = label, ![p].sel = x]
        \/ \E label, x : proc' = [proc EXCEPT ![p].pc = label, ![p].seen = x]
        \/ \E label, x : proc' = [proc EXCEPT ![p].pc = label, ![p].token = x]
    BY ZenonT(60) DEF db, Goto
  <2>2. proc \in [Procs -> Pipelines]
    BY DEF JobsInv, TypeOK
  <2>3. ASSUME Stop(p) PROVE proc'[p].items = NoInputs
    BY ONLY <2>2, <2>3, p \in Procs DEF Stop, IdleProc
  <2>4. ASSUME NEW label, Goto(p, label) PROVE proc'[p].items = proc[p].items
    BY ONLY <2>2, <2>4, p \in Procs DEF Goto, Pipelines
  <2>5. ASSUME NEW label, NEW x, proc' = [proc EXCEPT ![p].pc = label, ![p].sel = x]
        PROVE  proc'[p].items = proc[p].items
    BY ONLY <2>2, <2>5, p \in Procs DEF Pipelines
  <2>6. ASSUME NEW label, NEW x, proc' = [proc EXCEPT ![p].pc = label, ![p].seen = x]
        PROVE  proc'[p].items = proc[p].items
    BY ONLY <2>2, <2>6, p \in Procs DEF Pipelines
  <2>7. ASSUME NEW label, NEW x, proc' = [proc EXCEPT ![p].pc = label, ![p].token = x]
        PROVE  proc'[p].items = proc[p].items
    BY ONLY <2>2, <2>7, p \in Procs DEF Pipelines
  <2> QED BY ONLY <2>1, <2>3, <2>4, <2>5, <2>6, <2>7
<1>6. ASSUME NEW q \in Procs, q # p PROVE proc'[q] = proc[q]
  BY <1>6 DEF db, JobsInv, TypeOK, Goto, Stop
<1>7. \A t \in Threads : thread[t].version <= thread'[t].version
  <2>1. thread \in [Threads -> ThreadRows]
    BY DEF JobsInv, TypeOK
  <2> QED BY ONLY <1>1, <2>1 DEF ThreadRows
<1> HIDE DEF Phase2Step, Beat, prepare_memory_workspace, get_phase2_input_selection,
        sync_phase2_workspace_inputs, DiffAndSpawn, AgentCompletes,
        reset_memory_workspace_baseline, shutdown_consolidation_agent,
        try_claim_global_phase2_job, ConfirmOwnership, mark_global_phase2_job_succeeded,
        mark_global_phase2_job_failed, Heartbeat, AgentWrites, start_memories_startup_task,
        SkipRateLimit, StepFails, HeartbeatFails, ResetInterrupted, OutcomeLost
<1> QED BY <1>1, <1>2, <1>4, <1>5, <1>6, <1>7, QuietStep

\* A process that gives up its claims, dies or loses a result drops jobs only.
LEMMA DropInv ==
  ASSUME JobsInv, TypeOK', NEW p \in Procs,
         Crash(p) \/ ClaimsFail(p) \/ Phase1Done(p) \/ \E f \in FlightsOf(p) : ResultLost(f)
  PROVE  JobsInv'
<1>1. thread' = thread /\ jobs' = jobs /\ outputs' = outputs /\ flights' \subseteq flights
  BY DEF Crash, ClaimsFail, Phase1Done, ResultLost, db
<1>2. \A t \in Threads : thread[t].version <= thread'[t].version
  <2>1. thread \in [Threads -> ThreadRows]
    BY DEF JobsInv, TypeOK
  <2> QED BY ONLY <1>1, <2>1 DEF ThreadRows
<1>3. CASE \E f \in FlightsOf(p) : ResultLost(f)
  <2>1. proc' = proc
    BY <1>3 DEF ResultLost
  <2> QED BY <1>1, <1>2, <2>1, QuietStep
<1>4. CASE Crash(p) \/ ClaimsFail(p) \/ Phase1Done(p)
  <2>1. \A f \in flights' : f.proc # p
    BY <1>4 DEF Crash, ClaimsFail, Phase1Done, FlightsOf
  <2>2. proc'[p].items = NoInputs /\ \A q \in Procs : q # p => proc'[q] = proc[q]
    BY <1>4 DEF Crash, ClaimsFail, Phase1Done, Stop, AfterPhase1, IdleProc, JobsInv, TypeOK
  <2> QED BY <1>1, <1>2, <2>1, <2>2, QuietStep
<1> QED BY <1>3, <1>4

\* A scan finds versions that exist, in a process that has no jobs yet.
LEMMA ScanInv ==
  ASSUME JobsInv, TypeOK', NEW p \in Procs, Scan(p)
  PROVE  JobsInv'
<1>1. thread' = thread /\ jobs' = jobs /\ outputs' = outputs /\ flights' = flights
  BY DEF Scan, db
<1>2. \A f \in flights : f.proc # p
  BY NoFlights DEF Scan
<1>3. proc'[p].items = Candidates /\ \A q \in Procs : q # p => proc'[q] = proc[q]
  BY DEF Scan, JobsInv, TypeOK, Pipelines
<1>4. FlightsAreDistinct'
  BY <1>1, <1>2, <1>3 DEF JobsInv, FlightsAreDistinct, TypeOK, Flights
<1>5. VersionsAreReal'
  <2>1. ASSUME NEW t \in Threads PROVE Candidates[t] <= thread[t].version
    BY DEF Candidates, JobsInv, TypeOK, ThreadRows
  <2> QED BY <1>1, <1>3, <2>1 DEF JobsInv, VersionsAreReal
<1>6. OwnerMatchesRow' /\ RowsAreSound' /\ RunningCapHolds'
  BY <1>1 DEF JobsInv, OwnerMatchesRow, RowsAreSound, OwnsJob, RunningCapHolds, RunningAhead
<1>7. OutputMatchesJob' /\ NothingSurvivesReset'
  BY <1>1 DEF JobsInv, OutputMatchesJob, NothingSurvivesReset
<1> QED BY <1>4, <1>5, <1>6, <1>7 DEF JobsInv

\* The cap still holds when no row starts running.
LEMMA CapShrinks ==
  ASSUME JobsInv,
         \A t \in Threads : jobs'[t].status = "running" /\ Ahead(jobs'[t].lease, 0)
           => jobs[t].status = "running" /\ Ahead(jobs[t].lease, 0)
  PROVE  RunningCapHolds'
<1> DEFINE A == {t \in Threads : jobs[t].status = "running" /\ Ahead(jobs[t].lease, 0)}
           B == {t \in Threads : jobs'[t].status = "running" /\ Ahead(jobs'[t].lease, 0)}
<1>1. B \in SUBSET A /\ A \subseteq Threads
  OBVIOUS
<1>2. IsFiniteSet(A)
  BY <1>1, FinitenessAssumption, FS_Subset
<1>3. /\ IsFiniteSet(B) /\ Cardinality(B) <= Cardinality(A)
      /\ Cardinality(A) \in Nat /\ Cardinality(B) \in Nat
  BY <1>1, <1>2, FS_Subset, FS_CardinalityType
<1>4. Cardinality(A) <= MaxClaimed
  BY DEF JobsInv, RunningCapHolds, RunningAhead
<1>5. Cardinality(B) <= MaxClaimed
  BY ONLY <1>3, <1>4, TimeTypes
<1> QED BY <1>5 DEF RunningCapHolds, RunningAhead

\* After a reset no row is owned, and nothing is stored.
LEMMA ResetInv ==
  ASSUME JobsInv, TypeOK', clear_memory_data
  PROVE  JobsInv'
<1> USE DEF clear_memory_data
<1>1. ASSUME NEW f \in flights' 
      PROVE  \E g \in flights : f = [g EXCEPT !.pre = TRUE]
  BY <1>1
<1>2. FlightsAreDistinct'
  <2>1. ASSUME NEW f \in flights', NEW g \in flights', f.proc = g.proc, f.thread = g.thread
        PROVE  f = g
    <3>1. PICK a \in flights, b \in flights :
            f = [a EXCEPT !.pre = TRUE] /\ g = [b EXCEPT !.pre = TRUE]
      BY <1>1
    <3>2. a \in Flights /\ b \in Flights
      BY DEF JobsInv, TypeOK
    <3>3. f.proc = a.proc /\ f.thread = a.thread /\ g.proc = b.proc /\ g.thread = b.thread
      BY ONLY <3>1, <3>2 DEF Flights
    <3>4. a = b
      BY <2>1, <3>3 DEF JobsInv, FlightsAreDistinct
    <3> QED BY <3>1, <3>4
  <2>2. ASSUME NEW f \in flights'
        PROVE  proc'[f.proc].pc = "claim" /\ proc'[f.proc].items[f.thread] = 0
    <3>1. PICK a \in flights : f = [a EXCEPT !.pre = TRUE]
      BY <1>1
    <3>2. a \in Flights
      BY DEF JobsInv, TypeOK
    <3>3. f.proc = a.proc /\ f.thread = a.thread
      BY ONLY <3>1, <3>2 DEF Flights
    <3> QED BY <3>3 DEF JobsInv, FlightsAreDistinct
  <2> QED BY <2>1, <2>2 DEF FlightsAreDistinct
<1>3. VersionsAreReal'
  <2>1. ASSUME NEW f \in flights'
        PROVE  /\ f.version <= thread'[f.thread].version
               /\ f.read # 0 => f.version <= f.read
    <3>1. PICK a \in flights : f = [a EXCEPT !.pre = TRUE]
      BY <1>1
    <3>2. a \in Flights
      BY DEF JobsInv, TypeOK
    <3>3. f.version = a.version /\ f.thread = a.thread /\ f.read = a.read
      BY ONLY <3>1, <3>2 DEF Flights
    <3> QED BY <3>3 DEF JobsInv, VersionsAreReal
  <2> QED BY <2>1 DEF JobsInv, VersionsAreReal
<1>4. OwnerMatchesRow' /\ RowsAreSound'
  <2>1. \A f \in flights' : f.thread \in Threads
    BY DEF TypeOK, Flights
  <2> QED BY <2>1 DEF OwnerMatchesRow, OwnsJob, RowsAreSound, NoJob
<1>5. RunningCapHolds'
  <2>1. ASSUME NEW t \in Threads PROVE jobs'[t].status # "running"
    BY DEF NoJob
  <2> QED BY <2>1, CapShrinks
<1>6. OutputMatchesJob' /\ NothingSurvivesReset'
  BY DEF OutputMatchesJob, NothingSurvivesReset, NoOutput
<1> QED BY <1>2, <1>3, <1>4, <1>5, <1>6 DEF JobsInv

\* Time only ends leases.
LEMMA TickInv ==
  ASSUME JobsInv, TypeOK', Tick
  PROVE  JobsInv'
<1>1. flights' = flights /\ outputs' = outputs /\ proc' = proc
  BY DEF Tick
<1>2. ASSUME NEW t \in Threads
      PROVE  /\ jobs'[t].status = jobs[t].status /\ jobs'[t].token = jobs[t].token
             /\ jobs'[t].input = jobs[t].input /\ jobs'[t].success = jobs[t].success
             /\ jobs'[t].retries = jobs[t].retries /\ jobs'[t].lease = Less(jobs[t].lease)
             /\ thread'[t].version = thread[t].version
  <2>1. /\ jobs'[t] = [jobs[t] EXCEPT !.lease = Less(@), !.retryAt = Less(@)]
        /\ thread'[t] = [thread[t] EXCEPT !.idle = TRUE]
    BY DEF Tick
  <2>2. jobs[t] \in JobRows /\ thread[t] \in ThreadRows
    BY DEF JobsInv, TypeOK
  <2> QED BY ONLY <2>1, <2>2 DEF JobRows, ThreadRows
<1>3. FlightsAreDistinct'
  BY <1>1 DEF JobsInv, FlightsAreDistinct
<1>4. \A f \in flights : f.thread \in Threads
  BY DEF JobsInv, TypeOK, Flights
<1>5. VersionsAreReal'
  BY <1>1, <1>2, <1>4 DEF JobsInv, VersionsAreReal
<1>6. OwnerMatchesRow' /\ RowsAreSound'
  BY <1>1, <1>2, <1>4 DEF JobsInv, OwnerMatchesRow, OwnsJob, RowsAreSound
<1>7. RunningCapHolds'
  <2>1. ASSUME NEW t \in Threads, Ahead(jobs'[t].lease, 0) PROVE Ahead(jobs[t].lease, 0)
    <3>1. jobs[t].lease \in Time(Lease)
      BY DEF JobsInv, TypeOK, JobRows
    <3>2. Less(jobs[t].lease) <= jobs[t].lease /\ Less(jobs[t].lease) \in Int
            /\ jobs[t].lease \in Int
      BY <3>1, TimeTypes
    <3> QED BY <1>2, <2>1, <3>2 DEF Ahead
  <2> QED BY <1>2, <2>1, CapShrinks
<1>8. OutputMatchesJob' /\ NothingSurvivesReset'
  BY <1>1, <1>2 DEF JobsInv, OutputMatchesJob, NothingSurvivesReset
<1> QED BY <1>3, <1>5, <1>6, <1>7, <1>8 DEF JobsInv

\* The rollout that a job reads is at least as new as its claim.
LEMMA SampleInv ==
  ASSUME JobsInv, TypeOK', NEW f \in flights, Sample(f)
  PROVE  JobsInv'
<1> DEFINE g == [f EXCEPT !.read = thread[f.thread].version]
<1>1. thread' = thread /\ jobs' = jobs /\ outputs' = outputs /\ proc' = proc
        /\ flights' = (flights \ {f}) \union {g}
  BY DEF Sample, db
<1>2. f \in Flights
  BY DEF JobsInv, TypeOK
<1>3. /\ g.proc = f.proc /\ g.thread = f.thread /\ g.token = f.token
      /\ g.version = f.version /\ g.pre = f.pre /\ g.read = thread[f.thread].version
  BY <1>2 DEF Flights
<1> HIDE DEF g
<1>4. FlightsAreDistinct'
  BY <1>1, <1>3 DEF JobsInv, FlightsAreDistinct
<1>5. VersionsAreReal'
  BY <1>1, <1>3 DEF JobsInv, VersionsAreReal
<1>6. OwnerMatchesRow' /\ RowsAreSound' /\ RunningCapHolds'
  BY <1>1, <1>3 DEF JobsInv, OwnerMatchesRow, RowsAreSound, OwnsJob, RunningCapHolds,
     RunningAhead
<1>7. OutputMatchesJob' /\ NothingSurvivesReset'
  BY <1>1 DEF JobsInv, OutputMatchesJob, NothingSurvivesReset
<1> QED BY <1>4, <1>5, <1>6, <1>7 DEF JobsInv

\* A job that ends leaves the other jobs as they are.
LEMMA FlightEnds ==
  ASSUME JobsInv, NEW f \in flights, flights' = flights \ {f},
         thread' = thread, proc' = proc,
         \A t \in Threads \ {f.thread} : jobs'[t] = jobs[t],
         jobs'[f.thread] = jobs[f.thread] \/ jobs'[f.thread].status # "running"
  PROVE  /\ FlightsAreDistinct' /\ VersionsAreReal' /\ OwnerMatchesRow' /\ RunningCapHolds'
<1>1. FlightsAreDistinct'
  BY DEF JobsInv, FlightsAreDistinct
<1>2. VersionsAreReal'
  BY DEF JobsInv, VersionsAreReal
<1>3. ASSUME NEW t \in Threads PROVE jobs'[t] = jobs[t] \/ jobs'[t].status # "running"
  OBVIOUS
<1>4. \A g \in flights : g.thread \in Threads
  BY DEF JobsInv, TypeOK, Flights
<1>5. OwnerMatchesRow'
  BY <1>3, <1>4 DEF JobsInv, OwnerMatchesRow, OwnsJob
<1>6. RunningCapHolds'
  BY <1>3, CapShrinks
<1> QED BY <1>1, <1>2, <1>5, <1>6

\* Only the owner of a row stores a memory, under the version the row names:
\* mark_stage1_job_succeeded and its two siblings.
LEMMA ResultInv ==
  ASSUME JobsInv, TypeOK', NEW f \in flights, Result(f)
  PROVE  JobsInv'
<1>1. /\ f \in Flights /\ f.thread \in Threads /\ jobs \in [Threads -> JobRows]
      /\ outputs \in [Threads -> OutputRows]
  BY DEF JobsInv, TypeOK, Flights
<1>2. f.version \in Nat /\ f.read \in Nat /\ jobs[f.thread].success \in Nat
        /\ jobs[f.thread].input \in Nat /\ outputs[f.thread].src \in Nat
  BY <1>1 DEF Flights, JobRows, OutputRows
<1>3. flights' = flights \ {f} /\ thread' = thread /\ proc' = proc
  BY DEF Result, mark_stage1_job_succeeded, mark_stage1_job_succeeded_no_output,
     mark_stage1_job_failed
<1>4. CASE mark_stage1_job_succeeded(f) /\ OwnsJob(f)
  <2>1. jobs' = [jobs EXCEPT ![f.thread] = Done(jobs[f.thread])] /\ outputs' = Published(f)
    BY <1>4 DEF mark_stage1_job_succeeded
  <2>2. /\ jobs'[f.thread].status = "done" /\ jobs'[f.thread].success = jobs[f.thread].input
        /\ jobs'[f.thread].input = jobs[f.thread].input
        /\ \A t \in Threads \ {f.thread} : jobs'[t] = jobs[t]
    BY ONLY <1>1, <2>1 DEF Done, JobRows
  <2>3. jobs[f.thread].input = f.version /\ f.pre = FALSE /\ f.version <= f.read
    BY <1>4 DEF mark_stage1_job_succeeded, JobsInv, OwnerMatchesRow, VersionsAreReal, TypeOK,
       Flights
  <2>4. outputs[f.thread].src <= f.version
    <3>1. outputs[f.thread].src # 0 => outputs[f.thread].src = jobs[f.thread].success
      BY <1>1 DEF JobsInv, OutputMatchesJob
    <3>2. jobs[f.thread].success <= jobs[f.thread].input
      BY <1>1 DEF JobsInv, RowsAreSound
    <3> QED BY ONLY <1>2, <2>3, <3>1, <3>2
  <2>5. /\ outputs'[f.thread].src = f.version /\ outputs'[f.thread].read = f.read
        /\ outputs'[f.thread].pre = f.pre
        /\ \A t \in Threads \ {f.thread} : outputs'[t] = outputs[t]
    <3> DEFINE row == [outputs[f.thread] EXCEPT !.src = f.version, !.read = f.read,
                         !.old = outputs[f.thread].old /\ outputs[f.thread].used,
                         !.pre = f.pre]
    <3>1. outputs' = [outputs EXCEPT ![f.thread] = row]
      BY <2>1, <2>4, <1>2 DEF Published
    <3>2. row.src = f.version /\ row.read = f.read /\ row.pre = f.pre
      BY ONLY <1>1 DEF OutputRows
    <3> HIDE DEF row
    <3> QED BY ONLY <1>1, <3>1, <3>2
  <2>6. RowsAreSound'
    BY <1>1, <1>2, <2>2 DEF JobsInv, RowsAreSound
  <2>7. OutputMatchesJob' /\ NothingSurvivesReset'
    BY <1>1, <1>2, <2>2, <2>3, <2>5 DEF JobsInv, OutputMatchesJob, NothingSurvivesReset
  <2> QED BY <1>3, <2>2, <2>6, <2>7, FlightEnds DEF JobsInv
<1>5. CASE mark_stage1_job_succeeded_no_output(f) /\ OwnsJob(f)
  <2>1. /\ jobs' = [jobs EXCEPT ![f.thread] = Done(jobs[f.thread])]
        /\ outputs' = [outputs EXCEPT ![f.thread] = NoOutput]
    BY <1>5 DEF mark_stage1_job_succeeded_no_output
  <2>2. /\ jobs'[f.thread].status = "done" /\ jobs'[f.thread].success = jobs[f.thread].input
        /\ jobs'[f.thread].input = jobs[f.thread].input
        /\ \A t \in Threads \ {f.thread} : jobs'[t] = jobs[t]
    BY ONLY <1>1, <2>1 DEF Done, JobRows
  <2>3. RowsAreSound'
    BY <1>1, <1>2, <2>2 DEF JobsInv, RowsAreSound
  <2>4. OutputMatchesJob' /\ NothingSurvivesReset'
    BY <1>1, <2>1, <2>2 DEF JobsInv, OutputMatchesJob, NothingSurvivesReset, NoOutput
  <2> QED BY <1>3, <2>2, <2>3, <2>4, FlightEnds DEF JobsInv
<1>6. CASE \E lag \in 0..MaxLag : mark_stage1_job_failed(f, lag) /\ OwnsJob(f)
  <2>1. PICK lag \in 0..MaxLag : 
          jobs' = [jobs EXCEPT ![f.thread].status = "error", ![f.thread].lease = Past,
                               ![f.thread].retryAt = RetryDelay - lag,
                               ![f.thread].retries = @ - 1]
    BY <1>6 DEF mark_stage1_job_failed
  <2>2. /\ jobs'[f.thread].status = "error" /\ jobs'[f.thread].success = jobs[f.thread].success
        /\ jobs'[f.thread].input = jobs[f.thread].input
        /\ \A t \in Threads \ {f.thread} : jobs'[t] = jobs[t]
    BY ONLY <1>1, <2>1 DEF JobRows
  <2>3. outputs' = outputs
    BY <1>6 DEF mark_stage1_job_failed
  <2>4. RowsAreSound'
    BY <1>1, <1>2, <2>2 DEF JobsInv, RowsAreSound
  <2>5. OutputMatchesJob' /\ NothingSurvivesReset'
    BY <1>1, <2>2, <2>3 DEF JobsInv, OutputMatchesJob, NothingSurvivesReset
  <2> QED BY <1>3, <2>2, <2>4, <2>5, FlightEnds DEF JobsInv
<1>7. CASE ~OwnsJob(f)
  <2>1. jobs' = jobs /\ outputs' = outputs
    BY <1>7 DEF Result, mark_stage1_job_succeeded, mark_stage1_job_succeeded_no_output,
       mark_stage1_job_failed, db
  <2>2. RowsAreSound' /\ OutputMatchesJob' /\ NothingSurvivesReset'
    BY <2>1 DEF JobsInv, RowsAreSound, OutputMatchesJob, NothingSurvivesReset
  <2> QED BY <1>3, <2>1, <2>2, FlightEnds DEF JobsInv
<1> QED BY <1>4, <1>5, <1>6, <1>7 DEF Result

\* What a claim does to the row, on whatever clock reading it runs.
LEMMA ClaimFacts ==
  ASSUME JobsInv, NEW p \in Procs, NEW t \in Threads, NEW lag \in 0..MaxLag,
         try_claim_stage1_job(p, t, lag), jobs' # jobs
  PROVE  /\ jobs'[t].status = "running" /\ jobs'[t].token = FreshToken
         /\ jobs'[t].input = proc[p].items[t] /\ jobs'[t].success = jobs[t].success
         /\ jobs'[t].retries > 0 /\ jobs[t].success < proc[p].items[t]
         /\ outputs[t].src < proc[p].items[t]
         /\ \A u \in Threads \ {t} : jobs'[u] = jobs[u]
         /\ flights' = flights \union
              {[proc |-> p, thread |-> t, token |-> FreshToken, version |-> proc[p].items[t],
                read |-> 0, pre |-> FALSE]}
         /\ t \notin RunningAhead(lag) /\ Cardinality(RunningAhead(lag)) < MaxClaimed
<1> DEFINE version == proc[p].items[t]
           row == [status |-> "running", token |-> FreshToken, lease |-> Lease - lag,
                   retryAt |-> Past,
                   retries |-> IF version > jobs[t].input THEN Retries ELSE jobs[t].retries,
                   input |-> version, success |-> jobs[t].success]
<1>1. /\ ~UpToDate(t, version) /\ Claimable(t, version, lag)
      /\ jobs' = [jobs EXCEPT ![t] = row]
      /\ flights' = flights \union
              {[proc |-> p, thread |-> t, token |-> FreshToken, version |-> version,
                read |-> 0, pre |-> FALSE]}
  BY DEF try_claim_stage1_job
<1>2. /\ version \in Nat /\ jobs[t].input \in Nat /\ jobs[t].success \in Nat
      /\ outputs[t].src \in Nat /\ jobs[t].retries \in Nat
  BY DEF JobsInv, TypeOK, Pipelines, Inputs, JobRows, OutputRows
<1>3. jobs \in [Threads -> JobRows]
  BY DEF JobsInv, TypeOK
<1>4. row.retries > 0
  BY <1>1, <1>2, TimeTypes DEF Claimable
<1>5. jobs[t].success < version /\ outputs[t].src < version
  BY <1>1, <1>2 DEF UpToDate
<1>6. jobs'[t] = row /\ \A u \in Threads \ {t} : jobs'[u] = jobs[u]
  BY ONLY <1>1, <1>3
<1>7. t \notin RunningAhead(lag) /\ Cardinality(RunningAhead(lag)) < MaxClaimed
  BY <1>1 DEF Claimable
<1> QED BY <1>1, <1>4, <1>5, <1>6, <1>7

\* A claim leaves its process with one thread less to claim, or none.
LEMMA ClaimItems ==
  ASSUME JobsInv, NEW p \in Procs, NEW t \in Threads, NEW lag \in 0..MaxLag,
         try_claim_stage1_job(p, t, lag)
  PROVE  /\ proc[p].pc = "claim" /\ proc[p].items[t] # 0
         /\ \A q \in Procs : proc'[q].pc = proc[q].pc
         /\ \A q \in Procs, u \in Threads : proc'[q].items[u] \in {0, proc[q].items[u]}
         /\ proc'[p].items[t] = 0
<1>1. proc \in [Procs -> Pipelines] /\ proc[p].items \in Inputs
  BY DEF JobsInv, TypeOK, Pipelines
<1>2. \/ proc' = [proc EXCEPT ![p].items = NoInputs]
      \/ proc' = [proc EXCEPT ![p].items = [proc[p].items EXCEPT ![t] = 0]]
  BY <1>1 DEF try_claim_stage1_job, Pipelines
<1>3. CASE proc' = [proc EXCEPT ![p].items = NoInputs]
  BY <1>1, <1>3 DEF try_claim_stage1_job, Pipelines, NoInputs
<1>4. CASE proc' = [proc EXCEPT ![p].items = [proc[p].items EXCEPT ![t] = 0]]
  BY <1>1, <1>4 DEF try_claim_stage1_job, Pipelines, Inputs
<1> QED BY <1>2, <1>3, <1>4

\* A claim on an old clock reading sees every lease that still has time left, so
\* that the running rows are one more than those it counted, at most.
LEMMA ClaimCap ==
  ASSUME JobsInv, TypeOK', NEW p \in Procs, NEW t \in Threads, NEW lag \in 0..MaxLag,
         try_claim_stage1_job(p, t, lag), jobs' # jobs
  PROVE  RunningCapHolds'
<1> DEFINE A == {u \in Threads : jobs[u].status = "running" /\ Ahead(jobs[u].lease, lag)}
           B == {u \in Threads : jobs'[u].status = "running" /\ Ahead(jobs'[u].lease, 0)}
<1>1. /\ \A u \in Threads \ {t} : jobs'[u] = jobs[u]
      /\ Cardinality(A) < MaxClaimed
  BY ClaimFacts DEF RunningAhead
<1>2. ASSUME NEW u \in Threads, Ahead(jobs[u].lease, 0) PROVE Ahead(jobs[u].lease, lag)
  <2>1. jobs[u].lease \in Int
    BY TimeTypes DEF JobsInv, TypeOK, JobRows
  <2> QED BY <1>2, <2>1 DEF Ahead
<1>3. B \in SUBSET (A \union {t})
  BY <1>1, <1>2
<1>4. IsFiniteSet(A)
  BY FinitenessAssumption, FS_Subset
<1>5. /\ IsFiniteSet(A \union {t}) /\ Cardinality(A) \in Nat
      /\ Cardinality(A \union {t}) <= Cardinality(A) + 1
  BY <1>4, FS_Singleton, UnionBound
<1>6. /\ IsFiniteSet(B) /\ Cardinality(B) <= Cardinality(A \union {t})
      /\ Cardinality(A \union {t}) \in Nat /\ Cardinality(B) \in Nat
  BY <1>3, <1>5, FS_Subset, FS_CardinalityType
<1>7. Cardinality(B) <= MaxClaimed
  BY ONLY <1>1, <1>5, <1>6, TimeTypes
<1> QED BY <1>7 DEF RunningCapHolds, RunningAhead

\* A claim makes its process the only owner of the row, because nobody else holds
\* the token.
LEMMA ClaimInv ==
  ASSUME JobsInv, TypeOK', NEW p \in Procs, NEW t \in Threads, NEW lag \in 0..MaxLag,
         try_claim_stage1_job(p, t, lag)
  PROVE  JobsInv'
<1> DEFINE new == [proc |-> p, thread |-> t, token |-> FreshToken,
                   version |-> proc[p].items[t], read |-> 0, pre |-> FALSE]
<1>1. thread' = thread /\ outputs' = outputs
  BY DEF try_claim_stage1_job
<1>2. /\ proc[p].items[t] # 0 /\ proc[p].pc = "claim"
      /\ \A q \in Procs : proc'[q].pc = proc[q].pc
      /\ \A q \in Procs, u \in Threads : proc'[q].items[u] \in {0, proc[q].items[u]}
      /\ proc'[p].items[t] = 0
  BY ClaimItems
<1>3. /\ \A f \in flights : f \in Flights
      /\ \A q \in Procs, u \in Threads : proc[q].items[u] \in Nat /\ thread[u].version \in Nat
  BY DEF JobsInv, TypeOK, Pipelines, Inputs, ThreadRows
<1>4. CASE jobs' = jobs /\ flights' = flights
  <2>1. FlightsAreDistinct'
    BY <1>2, <1>3, <1>4 DEF JobsInv, FlightsAreDistinct, Flights
  <2>2. VersionsAreReal'
    BY <1>1, <1>2, <1>3, <1>4 DEF JobsInv, VersionsAreReal
  <2>3. OwnerMatchesRow' /\ RowsAreSound' /\ RunningCapHolds'
    BY <1>4 DEF JobsInv, OwnerMatchesRow, RowsAreSound, OwnsJob, RunningCapHolds, RunningAhead
  <2>4. OutputMatchesJob' /\ NothingSurvivesReset'
    BY <1>1, <1>4 DEF JobsInv, OutputMatchesJob, NothingSurvivesReset
  <2> QED BY <2>1, <2>2, <2>3, <2>4 DEF JobsInv
<1>5. CASE jobs' # jobs
  <2>1. /\ flights' = flights \union {new}
        /\ jobs'[t].token = FreshToken /\ jobs'[t].input = proc[p].items[t]
        /\ jobs'[t].success = jobs[t].success /\ jobs'[t].retries > 0
        /\ jobs[t].success < proc[p].items[t]
        /\ outputs[t].src < proc[p].items[t]
        /\ \A u \in Threads \ {t} : jobs'[u] = jobs[u]
    BY <1>5, ClaimFacts
  <2>2. \A f \in flights : f.token # FreshToken
    BY FreshTokenIsFresh DEF JobsInv, InUse
  <2>3. /\ new.proc = p /\ new.thread = t /\ new.token = FreshToken /\ new.read = 0
        /\ new.version = proc[p].items[t] /\ new.pre = FALSE
    OBVIOUS
  <2> HIDE DEF new
  <2>4. \A f \in flights : ~(f.proc = p /\ f.thread = t)
    BY <1>2 DEF JobsInv, FlightsAreDistinct
  <2>5. FlightsAreDistinct'
    BY <1>2, <1>3, <2>1, <2>3, <2>4 DEF JobsInv, FlightsAreDistinct, Flights
  <2>6. VersionsAreReal'
    BY <1>1, <1>2, <1>3, <2>1, <2>3 DEF JobsInv, VersionsAreReal
  <2>7. OwnerMatchesRow'
    BY <1>3, <2>1, <2>2, <2>3 DEF JobsInv, OwnerMatchesRow, OwnsJob, Flights
  <2>8. RowsAreSound'
    <3>1. jobs'[t].success <= jobs'[t].input
      BY <1>3, <2>1 DEF JobsInv, TypeOK, JobRows
    <3> QED BY <2>1, <3>1 DEF JobsInv, RowsAreSound
  <2>9. OutputMatchesJob' /\ NothingSurvivesReset'
    BY <1>1, <2>1 DEF JobsInv, OutputMatchesJob, NothingSurvivesReset
  <2> QED BY <1>5, <2>5, <2>6, <2>7, <2>8, <2>9, ClaimCap DEF JobsInv
<1>6. jobs' # jobs \/ flights' = flights
  <2>1. CASE ~UpToDate(t, proc[p].items[t]) /\ Claimable(t, proc[p].items[t], lag)
    <3>1. jobs'[t].token = FreshToken
      BY <2>1 DEF try_claim_stage1_job, JobsInv, TypeOK
    <3>2. jobs[t].token # FreshToken
      BY FreshTokenIsFresh DEF JobsInv, InUse
    <3> QED BY <3>1, <3>2
  <2>2. CASE ~(~UpToDate(t, proc[p].items[t]) /\ Claimable(t, proc[p].items[t], lag))
    BY <2>2 DEF try_claim_stage1_job
  <2> QED BY <2>1, <2>2
<1> QED BY <1>4, <1>5, <1>6

\* Every step keeps the types.
LEMMA StepType ==
  ASSUME JobsInv, [Next]_vars
  PROVE  TypeOK'
<1>1. CASE UNCHANGED vars
  BY <1>1 DEF JobsInv, TypeOK, vars, db
<1>2. CASE User \/ Tick \/ clear_memory_roots_contents
  BY <1>2, UserType DEF JobsInv
<1>3. ASSUME NEW p \in Procs, start_memories_startup_task(p) \/ Phase1Step(p) \/ FlightStep(p)
      PROVE  TypeOK'
  BY <1>3, Phase1Type DEF JobsInv
<1>4. ASSUME NEW p \in Procs, Phase2Step(p) \/ Beat(p) \/ AgentWrites(p) PROVE TypeOK'
  BY <1>4, Phase2Type DEF JobsInv
<1>5. ASSUME NEW p \in Procs, Faulty(p) PROVE TypeOK'
  BY <1>5, FaultType DEF JobsInv
<1> QED BY <1>1, <1>2, <1>3, <1>4, <1>5 DEF Next

\* Every step keeps the invariant.
LEMMA StepInv ==
  ASSUME JobsInv, [Next]_vars
  PROVE  JobsInv'
<1> USE StepType
<1>1. CASE UNCHANGED <<thread, jobs, outputs, proc, flights>>
  <2>1. \A t \in Threads : thread[t].version <= thread'[t].version
    BY <1>1 DEF JobsInv, TypeOK, ThreadRows
  <2> QED BY <1>1, <2>1, QuietStep
<1>2. CASE User
  <2>1. CASE clear_memory_data
    BY <2>1, ResetInv
  <2> QED BY <1>2, <2>1, UserInv DEF User
<1>3. CASE Tick
  BY <1>3, TickInv
<1>4. ASSUME NEW p \in Procs,
             start_memories_startup_task(p) \/ Phase2Step(p) \/ Beat(p) \/ AgentWrites(p)
      PROVE  JobsInv'
  BY <1>4, Phase2Inv
<1>5. ASSUME NEW p \in Procs, Phase1Step(p) PROVE JobsInv'
  BY <1>5, ScanInv, DropInv, ClaimInv DEF Phase1Step
<1>6. ASSUME NEW p \in Procs, FlightStep(p) PROVE JobsInv'
  BY <1>6, SampleInv, ResultInv DEF FlightStep, FlightsOf
<1>7. ASSUME NEW p \in Procs, Faulty(p) PROVE JobsInv'
  BY <1>7, DropInv, Phase2Inv DEF Faulty
<1> QED BY <1>1, <1>2, <1>3, <1>4, <1>5, <1>6, <1>7
     DEF Next, vars, db, clear_memory_roots_contents

\* The invariant of the rows and the jobs in flight holds for every number of
\* threads and processes, every lease and every lag below it.
THEOREM JobsSafety == Spec => []JobsInv
<1>1. Init => JobsInv
  BY InitInv
<1>2. JobsInv /\ [Next]_vars => JobsInv'
  BY StepInv
<1> QED BY <1>1, <1>2, PTL DEF Spec

\* The cap on running jobs holds for all processes together, whatever clock
\* readings their claims run on (try_claim_stage1_job).
THEOREM RunningCapHoldsAlways == Spec => []RunningCapHolds
<1>1. JobsInv => RunningCapHolds
  BY DEF JobsInv
<1> QED BY <1>1, JobsSafety, PTL

\* A stored memory is the one its job row vouches for (mark_stage1_job_succeeded).
THEOREM OutputMatchesJobAlways == Spec => []OutputMatchesJob
<1>1. JobsInv => OutputMatchesJob
  BY DEF JobsInv
<1> QED BY <1>1, JobsSafety, PTL

\* What an extraction publishes after memory/reset is dropped (clear_memory_data).
THEOREM NothingSurvivesResetAlways == Spec => []NothingSurvivesReset
<1>1. JobsInv => NothingSurvivesReset
  BY DEF JobsInv
<1> QED BY <1>1, JobsSafety, PTL

\* A step that takes no claim leaves the tokens of running rows as they are.
LEMMA RowTokensStep ==
  ASSUME JobsInv, [Next]_vars, NEW t \in Threads,
         jobs[t].status = "running", Ahead(jobs[t].lease, 0), jobs'[t].status = "running"
  PROVE  jobs'[t].token = jobs[t].token
<1>1. CASE jobs' = jobs
  BY <1>1
<1>2. CASE clear_memory_data
  BY <1>2 DEF clear_memory_data, NoJob
<1>3. CASE Tick
  <2>1. jobs'[t] = [jobs[t] EXCEPT !.lease = Less(@), !.retryAt = Less(@)]
    BY <1>3 DEF Tick
  <2>2. jobs[t] \in JobRows
    BY DEF JobsInv, TypeOK
  <2> QED BY ONLY <2>1, <2>2 DEF JobRows
<1>4. ASSUME NEW f \in flights, Result(f), jobs' # jobs PROVE jobs'[t].token = jobs[t].token
  <2>1. jobs'[f.thread].status # "running" /\ \A u \in Threads \ {f.thread} : jobs'[u] = jobs[u]
    <3>1. f.thread \in Threads /\ jobs \in [Threads -> JobRows]
      BY DEF JobsInv, TypeOK, Flights
    <3>2. \/ jobs' = [jobs EXCEPT ![f.thread] = Done(@)]
          \/ \E lag \in 0..MaxLag :
               jobs' = [jobs EXCEPT ![f.thread].status = "error", ![f.thread].lease = Past,
                                    ![f.thread].retryAt = RetryDelay - lag,
                                    ![f.thread].retries = @ - 1]
      BY <1>4 DEF Result, mark_stage1_job_succeeded, mark_stage1_job_succeeded_no_output,
         mark_stage1_job_failed, db
    <3>3. CASE jobs' = [jobs EXCEPT ![f.thread] = Done(@)]
      BY ONLY <3>1, <3>3 DEF Done, JobRows
    <3>4. ASSUME NEW lag,
                 jobs' = [jobs EXCEPT ![f.thread].status = "error", ![f.thread].lease = Past,
                                      ![f.thread].retryAt = RetryDelay - lag,
                                      ![f.thread].retries = @ - 1]
          PROVE  /\ jobs'[f.thread].status # "running"
                 /\ \A u \in Threads \ {f.thread} : jobs'[u] = jobs[u]
      BY ONLY <3>1, <3>4 DEF JobRows
    <3> QED BY ONLY <3>2, <3>3, <3>4
  <2> QED BY <2>1
<1>5. ASSUME NEW p \in Procs, NEW u \in Threads, NEW lag \in 0..MaxLag,
             try_claim_stage1_job(p, u, lag), jobs' # jobs
      PROVE  jobs'[t].token = jobs[t].token
  <2>1. u \notin RunningAhead(lag) /\ \A v \in Threads \ {u} : jobs'[v] = jobs[v]
    BY <1>5, ClaimFacts
  <2>2. jobs[t].lease \in Int
    BY TimeTypes DEF JobsInv, TypeOK, JobRows
  <2>3. t \in RunningAhead(lag)
    BY <2>2 DEF RunningAhead, Ahead
  <2> QED BY <2>1, <2>3
<1>6. ASSUME NEW p \in Procs, jobs' # jobs,
             start_memories_startup_task(p) \/ Phase1Step(p) \/ FlightStep(p) \/ Phase2Step(p)
               \/ Beat(p) \/ AgentWrites(p) \/ Faulty(p)
      PROVE  jobs'[t].token = jobs[t].token
  <2>1. \/ \E f \in flights : Result(f)
        \/ \E u \in Threads, lag \in 0..MaxLag : try_claim_stage1_job(p, u, lag)
    BY <1>6 DEF start_memories_startup_task, Phase1Step, FlightStep, Phase2Step, Beat,
       AgentWrites, Faulty, Scan, Phase1Done, Sample, prepare_memory_workspace,
       get_phase2_input_selection, sync_phase2_workspace_inputs, DiffAndSpawn, AgentCompletes,
       reset_memory_workspace_baseline, shutdown_consolidation_agent,
       try_claim_global_phase2_job, ConfirmOwnership, mark_global_phase2_job_succeeded,
       mark_global_phase2_job_failed, Heartbeat, Crash, SkipRateLimit, ClaimsFail, ResultLost,
       StepFails, HeartbeatFails, ResetInterrupted, OutcomeLost, FlightsOf, db
  <2> QED BY <1>4, <1>5, <1>6, <2>1
<1>7. CASE User /\ jobs' # jobs
  BY <1>2, <1>7 DEF User, UpdateThread, Age, record_stage1_output_usage,
     mark_thread_memory_mode_polluted, set_thread_memory_mode, db
<1> QED BY <1>1, <1>3, <1>6, <1>7 DEF Next, vars, db, clear_memory_roots_contents

\* The same for the global row.
LEMMA GlobalTokenStep ==
  ASSUME JobsInv, [Next]_vars,
         global.status = "running", Ahead(global.lease, 0), global'.status = "running"
  PROVE  global'.token = global.token
<1>1. global \in GlobalRows
  BY DEF JobsInv, TypeOK
<1>2. CASE global' = global \/ global' = Enqueued
  BY <1>2 DEF Enqueued
<1>3. CASE global' = NoGlobal
  BY <1>3 DEF NoGlobal
<1>4. CASE Tick
  BY <1>1, <1>4 DEF Tick, GlobalRows
<1>5. ASSUME NEW p \in Procs, NEW lag \in 0..MaxLag,
             \/ try_claim_global_phase2_job(p, lag) \/ ConfirmOwnership(p, lag)
             \/ mark_global_phase2_job_succeeded(p, lag)
             \/ mark_global_phase2_job_failed(p, lag) \/ Heartbeat(p, lag)
      PROVE  global'.token = global.token
  <2>1. CASE try_claim_global_phase2_job(p, lag)
    <3>1. Ahead(global.lease, lag)
      <4>1. global.lease \in Int
        BY <1>1, TimeTypes DEF GlobalRows
      <4> QED BY <4>1 DEF Ahead
    <3> QED BY <2>1, <3>1 DEF try_claim_global_phase2_job, GlobalFree
  <2>2. CASE ConfirmOwnership(p, lag) \/ Heartbeat(p, lag)
    BY <1>1, <2>2 DEF ConfirmOwnership, Heartbeat, Renewed, GlobalRows
  <2>3. CASE mark_global_phase2_job_succeeded(p, lag) \/ mark_global_phase2_job_failed(p, lag)
    BY <1>1, <2>3 DEF mark_global_phase2_job_succeeded, mark_global_phase2_job_failed,
       GlobalRows
  <2> QED BY <1>5, <2>1, <2>2, <2>3
<1>6. ASSUME NEW p \in Procs,
             start_memories_startup_task(p) \/ Phase1Step(p) \/ FlightStep(p) \/ Phase2Step(p)
               \/ Beat(p) \/ AgentWrites(p) \/ Faulty(p)
      PROVE  global'.token = global.token
  <2>1. \/ global' = global \/ global' = Enqueued
        \/ \E lag \in 0..MaxLag :
             \/ try_claim_global_phase2_job(p, lag) \/ ConfirmOwnership(p, lag)
             \/ mark_global_phase2_job_succeeded(p, lag)
             \/ mark_global_phase2_job_failed(p, lag) \/ Heartbeat(p, lag)
    BY <1>6 DEF start_memories_startup_task, Phase1Step, FlightStep, Phase2Step, Beat,
       AgentWrites, Faulty, Scan, Phase1Done, Sample, Result, try_claim_stage1_job,
       mark_stage1_job_succeeded, mark_stage1_job_succeeded_no_output,
       mark_stage1_job_failed, prepare_memory_workspace,
       get_phase2_input_selection, sync_phase2_workspace_inputs, DiffAndSpawn, AgentCompletes,
       reset_memory_workspace_baseline, shutdown_consolidation_agent,
       Crash, SkipRateLimit, ClaimsFail, ResultLost,
       StepFails, HeartbeatFails, ResetInterrupted, OutcomeLost, FlightsOf, db
  <2> QED BY <1>2, <1>5, <2>1
<1>7. CASE User
  BY <1>2, <1>3, <1>7 DEF User, UpdateThread, Age, record_stage1_output_usage,
     mark_thread_memory_mode_polluted, set_thread_memory_mode, clear_memory_data, db
<1> QED BY <1>2, <1>4, <1>6, <1>7 DEF Next, vars, db, clear_memory_roots_contents

\* A claim whose lease has time left is never taken over, on whatever clock reading
\* the other process runs: the row's state is tested in the claim's transaction.
THEOREM LiveLeaseIsKeptAlways == Spec => LiveLeaseIsKept
<1>1. JobsInv /\ [Next]_vars => [KeepsLiveLeases]_vars
  BY RowTokensStep, GlobalTokenStep DEF KeepsLiveLeases
<1> QED BY <1>1, JobsSafety, PTL DEF Spec, LiveLeaseIsKept

\* A step never lowers the watermark of a row or the version of a memory it keeps.
LEMMA ProgressStep ==
  ASSUME JobsInv, [Next]_vars, NEW t \in Threads
  PROVE  /\ jobs'[t] # NoJob => jobs'[t].success >= jobs[t].success
         /\ outputs'[t].src # 0 => outputs'[t].src >= outputs[t].src
<1>0. /\ jobs[t] \in JobRows /\ jobs[t].success \in Nat /\ jobs[t].input \in Nat
      /\ outputs[t] \in OutputRows /\ outputs[t].src \in Nat
      /\ jobs[t].success <= jobs[t].input
  BY DEF JobsInv, TypeOK, JobRows, OutputRows, RowsAreSound
<1>1. \/ jobs'[t] \in {jobs[t], NoJob, Done(jobs[t])}
      \/ jobs'[t].success = jobs[t].success
  <2>1. CASE Tick
    <3>1. jobs'[t] = [jobs[t] EXCEPT !.lease = Less(@), !.retryAt = Less(@)]
      BY <2>1 DEF Tick
    <3> QED BY ONLY <1>0, <3>1 DEF JobRows
  <2>2. ASSUME NEW f \in flights, Result(f)
        PROVE  jobs'[t] \in {jobs[t], Done(jobs[t])} \/ jobs'[t].success = jobs[t].success
    <3>1. jobs \in [Threads -> JobRows] /\ f.thread \in Threads
      BY DEF JobsInv, TypeOK, Flights
    <3>2. \/ jobs' = jobs
          \/ jobs' = [jobs EXCEPT ![f.thread] = Done(@)]
          \/ \E lag \in 0..MaxLag :
               jobs' = [jobs EXCEPT ![f.thread].status = "error", ![f.thread].lease = Past,
                                    ![f.thread].retryAt = RetryDelay - lag,
                                    ![f.thread].retries = @ - 1]
      BY <2>2 DEF Result, mark_stage1_job_succeeded, mark_stage1_job_succeeded_no_output,
         mark_stage1_job_failed, db
    <3>3. ASSUME NEW lag,
                 jobs' = [jobs EXCEPT ![f.thread].status = "error", ![f.thread].lease = Past,
                                      ![f.thread].retryAt = RetryDelay - lag,
                                      ![f.thread].retries = @ - 1]
          PROVE  jobs'[t].success = jobs[t].success
      BY ONLY <3>1, <3>3, t \in Threads DEF JobRows
    <3> QED BY <3>1, <3>2, <3>3
  <2>3. ASSUME NEW p \in Procs, NEW u \in Threads, NEW lag \in 0..MaxLag,
               try_claim_stage1_job(p, u, lag)
        PROVE  jobs'[t].success = jobs[t].success
    <3>1. CASE jobs' = jobs
      BY <3>1
    <3>2. CASE jobs' # jobs
      BY <2>3, <3>2, ClaimFacts
    <3> QED BY <3>1, <3>2
  <2>4. ASSUME NEW p \in Procs,
               start_memories_startup_task(p) \/ Phase1Step(p) \/ FlightStep(p) \/ Phase2Step(p)
                 \/ Beat(p) \/ AgentWrites(p) \/ Faulty(p)
        PROVE  \/ jobs' = jobs
               \/ \E f \in flights : Result(f)
               \/ \E u \in Threads, lag \in 0..MaxLag : try_claim_stage1_job(p, u, lag)
    BY <2>4 DEF start_memories_startup_task, Phase1Step, FlightStep, Phase2Step, Beat,
       AgentWrites, Faulty, Scan, Phase1Done, Sample, prepare_memory_workspace,
       get_phase2_input_selection, sync_phase2_workspace_inputs, DiffAndSpawn, AgentCompletes,
       reset_memory_workspace_baseline, shutdown_consolidation_agent,
       try_claim_global_phase2_job, ConfirmOwnership, mark_global_phase2_job_succeeded,
       mark_global_phase2_job_failed, Heartbeat, Crash, SkipRateLimit, ClaimsFail, ResultLost,
       StepFails, HeartbeatFails, ResetInterrupted, OutcomeLost, FlightsOf, db
  <2>5. CASE User
    BY <2>5 DEF User, UpdateThread, Age, record_stage1_output_usage, clear_memory_data,
       mark_thread_memory_mode_polluted, set_thread_memory_mode, db
  <2> QED BY <2>1, <2>2, <2>3, <2>4, <2>5 DEF Next, vars, db, clear_memory_roots_contents
<1>2. Done(jobs[t]).success = jobs[t].input
  BY <1>0 DEF Done, JobRows
<1>3. jobs'[t] # NoJob => jobs'[t].success >= jobs[t].success
  BY ONLY <1>0, <1>1, <1>2
<1>4. \/ outputs'[t].src \in {0, outputs[t].src}
      \/ \E f \in flights : outputs' = Published(f)
  <2>1. \/ outputs' = outputs \/ clear_memory_data
        \/ \E u \in Threads : Age(u) \/ record_stage1_output_usage(u)
        \/ \E p \in Procs : start_memories_startup_task(p)
        \/ \E p \in Procs, lag \in 0..MaxLag : mark_global_phase2_job_succeeded(p, lag)
        \/ \E f \in flights : outputs' = [outputs EXCEPT ![f.thread] = NoOutput]
        \/ \E f \in flights : outputs' = Published(f)
    <3>1. ASSUME NEW p \in Procs, Phase1Step(p) \/ Beat(p) \/ AgentWrites(p) \/ Faulty(p)
          PROVE  outputs' = outputs
      BY <3>1 DEF Phase1Step, Beat, AgentWrites, Faulty, Scan, Phase1Done,
         try_claim_stage1_job, Heartbeat, Crash, SkipRateLimit, ClaimsFail, ResultLost,
         StepFails, HeartbeatFails, ResetInterrupted, OutcomeLost, db
    <3>2. ASSUME NEW p \in Procs, Phase2Step(p)
          PROVE  \/ outputs' = outputs
                 \/ \E lag \in 0..MaxLag : mark_global_phase2_job_succeeded(p, lag)
      BY <3>2 DEF Phase2Step, prepare_memory_workspace, get_phase2_input_selection,
         sync_phase2_workspace_inputs, DiffAndSpawn, AgentCompletes,
         reset_memory_workspace_baseline, shutdown_consolidation_agent,
         try_claim_global_phase2_job, ConfirmOwnership, mark_global_phase2_job_failed, db
    <3>3. ASSUME NEW f \in flights, Sample(f) \/ Result(f)
          PROVE  \/ outputs' = outputs \/ outputs' = Published(f)
                 \/ outputs' = [outputs EXCEPT ![f.thread] = NoOutput]
      BY <3>3 DEF Sample, Result, mark_stage1_job_succeeded, mark_stage1_job_failed,
         mark_stage1_job_succeeded_no_output, db
    <3>4. CASE User \/ Tick \/ clear_memory_roots_contents \/ UNCHANGED vars
      BY <3>4 DEF User, Tick, clear_memory_roots_contents, UpdateThread, vars, db,
         mark_thread_memory_mode_polluted, set_thread_memory_mode
    <3> QED BY <3>1, <3>2, <3>3, <3>4 DEF Next, FlightStep, FlightsOf
  <2>2. outputs \in [Threads -> OutputRows]
    BY DEF JobsInv, TypeOK
  <2>3. ASSUME NEW u \in Threads, Age(u) \/ record_stage1_output_usage(u)
        PROVE  outputs'[t].src = outputs[t].src
    BY <2>2, <2>3 DEF Age, record_stage1_output_usage, OutputRows
  <2>4. CASE clear_memory_data \/ \E p \in Procs : start_memories_startup_task(p)
    BY <2>4 DEF clear_memory_data, start_memories_startup_task, NoOutput
  <2>5. ASSUME NEW p \in Procs, NEW lag \in 0..MaxLag, mark_global_phase2_job_succeeded(p, lag)
        PROVE  outputs'[t].src = outputs[t].src
    BY <2>2, <2>5 DEF mark_global_phase2_job_succeeded, OutputRows
  <2>6. ASSUME NEW f \in flights, outputs' = [outputs EXCEPT ![f.thread] = NoOutput]
        PROVE  outputs'[t].src \in {0, outputs[t].src}
    BY <2>2, <2>6 DEF NoOutput
  <2> QED BY <2>1, <2>3, <2>4, <2>5, <2>6
<1>5. ASSUME NEW f \in flights, outputs' = Published(f) PROVE outputs'[t].src >= outputs[t].src
  BY <1>0, <1>5 DEF Published, JobsInv, TypeOK, OutputRows, Flights
<1>6. outputs'[t].src # 0 => outputs'[t].src >= outputs[t].src
  BY <1>0, <1>4, <1>5
<1> QED BY <1>3, <1>6

\* Recorded progress is never taken back except by a reset or by deleting the
\* memory, also not by a process that works from an old scan.
THEOREM ProgressIsKeptAlways == Spec => ProgressIsKept
<1>1. JobsInv /\ [Next]_vars => [KeepsProgress]_vars
  BY ProgressStep DEF KeepsProgress
<1> QED BY <1>1, JobsSafety, PTL DEF Spec, ProgressIsKept
=============================================================================
