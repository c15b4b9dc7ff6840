--------------------------- MODULE RolloutRecorder ---------------------------
(***************************************************************************)
(* The rollout file of one thread and everything that writes to it         *)
(* (codex-rs/rollout/src/recorder.rs and codex-rs/thread-store/src/local). *)
(*                                                                         *)
(* A session reaches its file through the table of live recorders of its   *)
(* local thread store.  Every session is given a store of its own          *)
(* (thread_store_from_config), so a thread that is resumed while an        *)
(* earlier session has not ended has two recorders, and both append to     *)
(* the file.  A recorder is a bounded channel to a writer task.  Items are *)
(* only queued there; persist, flush and shutdown are barriers whose       *)
(* caller waits for an answer.  A new recorder defers its file until a     *)
(* barrier, and writes the session metadata before its items.  A failed    *)
(* write drops the file handle and is tried once more on a reopened file;  *)
(* what was not written stays buffered for the next command.               *)
(*                                                                         *)
(* A line is one write.  A write that fails, or is cut by a crash, may     *)
(* leave a part of its line behind: a "tear".  Files are opened to append  *)
(* and nobody repairs the end, so the line written after a tear runs into  *)
(* it and the reader skips both.  A tear that cuts a character of several  *)
(* bytes ("split") makes the whole file unreadable.  A cut exactly before  *)
(* the newline, where the part is a whole line, is not modelled.           *)
(***************************************************************************)
EXTENDS Integers, Sequences, FiniteSets

CONSTANTS
  Callers,        \* tasks of the sessions that use their recorder
  NoCaller,       \* the caller of no command
  ChannelCap,     \* capacity of the command channel (256 in the code)
  MaxRecorders,   \* bound: recorders ever opened for the thread
  MaxCalls,       \* bound: items recorded and barriers called
  MaxTroubles     \* bound: failing opens, writes and index updates, crashes, and
                  \* metadata updates that bypass the recorder, together

ASSUME RolloutAssumption ==
  /\ NoCaller \notin Callers
  /\ {ChannelCap, MaxRecorders} \subseteq Nat \ {0}
  /\ {MaxCalls, MaxTroubles} \subseteq Nat

VARIABLES
  file,       \* the lines of the rollout file, tears included
  rec,        \* the recorders of the thread, each with its writer task
  exists,     \* the file has been created
  session,    \* the session of each recorder, and with it the store's entry
  caller,     \* what each task of the sessions is doing
  indexed,    \* the items the state database has been told of
  promised,   \* history: the lines that barriers answered Ok stand for
  tears,      \* history: how many tears the file has
  count       \* calls and troubles so far

vars == <<file, exists, rec, session, caller, indexed, promised, tears, count>>

Recorders == 1..MaxRecorders

ItemLine(i) == [kind |-> "item", n |-> i]
MetaLine == [kind |-> "meta", n |-> 0]     \* by the recorder of a new thread
ModeLine == [kind |-> "meta", n |-> 1]     \* the metadata again, with a memory mode
NoteLine == [kind |-> "note", n |-> 0]     \* a new name
Tears == {[kind |-> "tear", n |-> 0], [kind |-> "split", n |-> 0]}
IsTear(l) == l.kind \in {"tear", "split"}

-----------------------------------------------------------------------------
(* Commands and recorders *)

Barriers == {"persist", "flush", "shutdown"}

\* n is the item of an "add"; of a barrier it is the number of items that
\* were queued ahead of it, which only the properties use.
Cmd(op, n, c) == [op |-> op, n |-> n, by |-> c]

\* A recorder that does not exist yet.
Unopened ==
  [st |-> "none", open |-> FALSE, deferred |-> FALSE, meta |-> FALSE,
   pending |-> <<>>, chan |-> <<>>, queued |-> <<>>,
   at |-> "recv", cmd |-> Cmd("none", 0, NoCaller), try |-> 1, written |-> 0]

\* A recorder whose writer task has ended.
Gone(w) == [Unopened EXCEPT !.st = "gone", !.queued = w.queued]

\* RolloutRecorder::new for a new thread: the file is only planned.
Created == [Unopened EXCEPT !.st = "up", !.deferred = TRUE, !.meta = TRUE]

\* RolloutRecorder::new for an existing file, opened at once.
Resumed == [Unopened EXCEPT !.st = "up", !.open = TRUE]

Free == {r \in Recorders : rec[r].st = "none"}

is_deferred(w) == ~w.open /\ w.deferred

\* live_recorders of the session's store has the recorder.
InTable(r) == session[r] \in {"init", "open", "failed"}

\* Somebody still holds a clone of the recorder's sender.
HasSender(r) ==
  \/ InTable(r)
  \/ \E c \in Callers : caller[c].at # "idle" /\ caller[c].rec = r

-----------------------------------------------------------------------------
(* Reading the file back: load_rollout_items *)

\* The lines that parse: complete, and not run into a tear.
Parsed(f) ==
  {f[i] : i \in {j \in DOMAIN f : ~IsTear(f[j]) /\ (j = 1 \/ ~IsTear(f[j - 1]))}}

\* read_to_string takes the file whole, and only if it is valid UTF-8.
Readable(f) == \A k \in DOMAIN f : f[k].kind # "split"

Loaded(f) == IF Readable(f) THEN Parsed(f) ELSE {}

\* get_rollout_history refuses a file without session metadata.
Loadable(f) == \E l \in Loaded(f) : l.kind = "meta"

-----------------------------------------------------------------------------

Idle == [at |-> "idle", op |-> "none", rec |-> 0]

Init ==
  /\ file = <<>>
  /\ rec = [r \in Recorders |-> Unopened]
  /\ exists = FALSE
  /\ session = [r \in Recorders |-> "none"]
  /\ caller = [c \in Callers |-> Idle]
  /\ indexed = {}
  /\ promised = {}
  /\ tears = 0
  /\ count = [calls |-> 0, troubles |-> 0]

Bump(f) == count' = [count EXCEPT ![f] = @ + 1]

-----------------------------------------------------------------------------
(* The thread store: opening and closing the recorder of the thread *)

\* insert_live_recorder puts the recorder into the table of the store of the
\* session being started.
InsertLiveRecorder(r, w) ==
  /\ rec' = [rec EXCEPT ![r] = w]
  /\ session' = [session EXCEPT ![r] = "init"]

\* create_thread: a thread is created once, under a new name.
CreateThread ==
  /\ file = <<>> /\ \A r \in Recorders : rec[r].st = "none"
  /\ InsertLiveRecorder(1, Created)
  /\ UNCHANGED <<file, exists, caller, indexed, promised, tears, count>>

\* resume_thread, for a caller that has read the history.  The check for a
\* live recorder looks into the new session's store and finds none, whether
\* or not an earlier session still writes.
ResumeThread ==
  /\ Loadable(file)
  /\ \E r \in Free : InsertLiveRecorder(r, Resumed)
  /\ UNCHANGED <<file, exists, caller, indexed, promised, tears, count>>

\* LiveThreadInitGuard: the session takes the thread, or its start failed
\* and the recorder is removed from the table.
EndInit(r, ok) ==
  /\ session[r] = "init"
  /\ session' = [session EXCEPT ![r] = IF ok THEN "open" ELSE "ended"]
  /\ UNCHANGED <<file, exists, rec, caller, indexed, promised, tears, count>>

\* Session::shutdown calls the barrier and ends whatever it answers; only a
\* successful one removes the recorder from the table (shutdown_thread).
ShutdownThread(c) ==
  /\ caller[c].at \in {"ok", "err"}
  /\ caller' = [caller EXCEPT ![c] = Idle]
  /\ session' = [session EXCEPT ![caller[c].rec] = IF caller[c].at = "ok" THEN "ended" ELSE "failed"]
  /\ UNCHANGED <<file, exists, rec, indexed, promised, tears, count>>

\* The last reference to a session goes, and with it its store.
DropSession(r) ==
  /\ session[r] \in {"open", "failed"}
  /\ \A c \in Callers : caller[c].rec # r
  /\ session' = [session EXCEPT ![r] = "ended"]
  /\ UNCHANGED <<file, exists, rec, caller, indexed, promised, tears, count>>

-----------------------------------------------------------------------------
(* The callers *)

\* live_recorder: a clone of the recorder is taken from the table.  A session
\* shuts down once: its submission loop ends with it.
Begin(c, r, op) ==
  /\ session[r] = "open"
  /\ caller[c].at = "idle"
  /\ op = "shutdown" => \A d \in Callers : ~(caller[d].rec = r /\ caller[d].op = "shutdown")
  /\ caller' = [caller EXCEPT ![c] = [at |-> "sending", op |-> op, rec |-> r]]
  /\ count.calls < MaxCalls /\ Bump("calls")
  /\ UNCHANGED <<file, exists, rec, session, indexed, promised, tears>>

\* Items are numbered in the order in which they enter a channel.
Slots == UNION {{<<r, k>> : k \in DOMAIN rec[r].queued} : r \in Recorders}
NextItem == 1 + Cardinality(Slots)

\* The caller has its answer.  Only a shutdown goes on with it.
Answered(c, ok) ==
  IF caller[c].op = "shutdown"
  THEN [caller[c] EXCEPT !.at = IF ok THEN "ok" ELSE "err"] ELSE Idle

\* record_items, persist, flush and shutdown: the send waits for room in the
\* channel and fails once the writer task is gone.
Send(c) ==
  LET r == caller[c].rec
      op == caller[c].op
      cmd == Cmd(op, IF op = "add" THEN NextItem ELSE Len(rec[r].queued), c)
  IN
  /\ caller[c].at = "sending"
  /\ \/ /\ rec[r].st = "up"
        /\ Len(rec[r].chan) < ChannelCap
        /\ rec' = [rec EXCEPT ![r].chan = Append(@, cmd),
                              ![r].queued = IF op = "add" THEN Append(@, cmd.n) ELSE @]
        /\ caller' = [caller EXCEPT ![c] = IF op = "add" THEN Idle ELSE [@ EXCEPT !.at = "waiting"]]
     \/ /\ rec[r].st = "gone"
        /\ caller' = [caller EXCEPT ![c] = Answered(c, FALSE)]
        /\ UNCHANGED rec
  /\ UNCHANGED <<file, exists, session, indexed, promised, tears, count>>

-----------------------------------------------------------------------------
(* The writer task *)

\* The callers that wait for an answer to cmds.
Waiting(cmds) == {cmds[k].by : k \in {j \in DOMAIN cmds : cmds[j].op \in Barriers}}

\* What an Ok to the command stands for.
Promise(w, cmd) ==
  {ItemLine(w.queued[k]) : k \in 1..cmd.n}
    \cup (IF cmd.op = "persist" THEN {MetaLine} ELSE {})

\* The end of a command: the answer of a barrier; a shutdown that succeeded
\* ends the task, and what is still in the channel is dropped with it.
Reply(r, w, ok) ==
  LET cmd == w.cmd
      ends == cmd.op = "shutdown" /\ ok
      next == [w EXCEPT !.at = "recv", !.try = 1, !.written = 0,
                        !.cmd = Cmd("none", 0, NoCaller)]
  IN
  /\ rec' = [rec EXCEPT ![r] = IF ends THEN Gone(w) ELSE next]
  /\ promised' = IF cmd.op \in Barriers /\ ok
                 THEN promised \cup Promise(w, cmd) ELSE promised
  /\ caller' = [c \in Callers |->
       IF cmd.op \in Barriers /\ c = cmd.by
       THEN Answered(c, ok)
       ELSE IF ends /\ c \in Waiting(w.chan) THEN Answered(c, FALSE) ELSE caller[c]]

\* A mutant: the second error is swallowed instead of answered.
MFailUnanswered(r, w) ==
  LET closed == [w EXCEPT !.open = FALSE, !.written = 0]
  IN /\ rec' = [rec EXCEPT ![r] =
          IF w.try = 1 THEN [closed EXCEPT !.try = 2, !.at = "open"]
          ELSE [closed EXCEPT !.try = 1, !.at = "recv", !.cmd = Cmd("none", 0, NoCaller)]]
     /\ UNCHANGED <<caller, promised>>

\* enter_recovery_mode drops the handle; the first failure of a command is
\* tried again, the second is its result (write_pending_with_recovery).
Fail(r, w) ==
  LET closed == [w EXCEPT !.open = FALSE, !.written = 0]
  IN IF w.try = 1
     THEN /\ rec' = [rec EXCEPT ![r] = [closed EXCEPT !.try = 2, !.at = "open"]]
          /\ UNCHANGED <<caller, promised>>
     ELSE Reply(r, closed, FALSE)

\* A mutant: items buffered for a planned file count as flushed.
MNothingToFlushWhenDeferred(w) == is_deferred(w)

\* flush and shutdown do nothing while the file is planned and nothing waits.
NothingToFlush(w) == is_deferred(w) /\ w.pending = <<>>

\* write_pending_once opens the file, writes the metadata and then the items;
\* what is done already is passed over.
Stage(w) == IF ~w.open THEN "open" ELSE IF w.meta THEN "meta" ELSE "items"

\* rollout_writer receives a command and starts on it: add_items with
\* flush_if_materialized, persist, flush or shutdown.
Receive(r) ==
  LET w == rec[r]
      cmd == Head(w.chan)
      taken == [w EXCEPT !.chan = Tail(@), !.cmd = cmd,
                         !.pending = IF cmd.op = "add" THEN Append(@, cmd.n) ELSE @]
  IN
  /\ w.st = "up" /\ w.at = "recv" /\ w.chan # <<>>
  /\ IF \/ cmd.op = "add" /\ is_deferred(w)
        \/ cmd.op \in {"flush", "shutdown"} /\ NothingToFlush(w)
     THEN Reply(r, taken, TRUE)
     ELSE /\ rec' = [rec EXCEPT ![r] = [taken EXCEPT !.at = Stage(w)]]
          /\ UNCHANGED <<caller, promised>>
  /\ UNCHANGED <<file, exists, session, indexed, tears, count>>

\* The channel is closed and drained.
ReceiveNone(r) ==
  /\ rec[r].st = "up" /\ rec[r].at = "recv" /\ rec[r].chan = <<>>
  /\ ~HasSender(r)
  /\ rec' = [rec EXCEPT ![r] = Gone(@)]
  /\ UNCHANGED <<file, exists, session, caller, indexed, promised, tears, count>>

Trouble == count.troubles < MaxTroubles /\ Bump("troubles")

\* ensure_writer_open: the file is opened to append, and created if need be.
EnsureWriterOpen(r) ==
  LET w == rec[r]
      opened == [w EXCEPT !.open = TRUE, !.deferred = FALSE]
  IN
  /\ w.at = "open"
  /\ \/ /\ rec' = [rec EXCEPT ![r] = [opened EXCEPT !.at = Stage(opened)]]
        /\ exists' = TRUE
        /\ UNCHANGED <<caller, promised, count>>
     \/ /\ Trouble
        /\ Fail(r, w)
        /\ UNCHANGED exists
  /\ UNCHANGED <<file, session, indexed, tears>>

\* A write that is cut short: nothing, or only a part of the line, is on the
\* file.
Torn ==
  \/ UNCHANGED <<file, tears>>
  \/ \E t \in Tears : file' = Append(file, t) /\ tears' = tears + 1

TornWrite == Trouble /\ Torn

\* A mutant: the metadata is taken before it is written.
MMetaTakenFirst(w) == FALSE

\* self.meta is cleared only behind the write's "?".
MetaAfterFailure(w) == w.meta

\* write_session_meta_if_needed.
WriteMeta(r) ==
  LET w == rec[r] IN
  /\ w.at = "meta"
  /\ \/ /\ file' = Append(file, MetaLine)
        /\ rec' = [rec EXCEPT ![r].meta = FALSE, ![r].at = "items"]
        /\ UNCHANGED <<caller, promised, tears, count>>
     \/ /\ TornWrite
        /\ Fail(r, [w EXCEPT !.meta = MetaAfterFailure(w)])
  /\ UNCHANGED <<exists, session, indexed>>

\* A mutant: only a write of the whole buffer is drained.
MDrainedWhenComplete(w) ==
  IF w.written = Len(w.pending) THEN [w EXCEPT !.pending = <<>>, !.written = 0] ELSE w

\* pending_items.drain(..written_count): exactly what was written leaves.
Drained(w) == [w EXCEPT !.pending = SubSeq(@, w.written + 1, Len(@)), !.written = 0]

\* sync_thread_state_after_write tells the state database of what was
\* written.
SyncThreadState(w) == indexed' = indexed \cup {w.pending[k] : k \in 1..w.written}

\* write_pending_items_once, one line at a time.
WriteItem(r) ==
  LET w == rec[r] IN
  /\ w.at = "items" /\ w.written < Len(w.pending)
  /\ \/ /\ file' = Append(file, ItemLine(w.pending[w.written + 1]))
        /\ rec' = [rec EXCEPT ![r].written = @ + 1]
        /\ UNCHANGED <<caller, indexed, promised, tears, count>>
     \/ /\ TornWrite
        /\ SyncThreadState(w) \/ UNCHANGED indexed
        /\ Fail(r, Drained(w))
  /\ UNCHANGED <<exists, session>>

\* The loop is over: drain, index and answer.  An error of the state database
\* is only logged.  The last flush of the handle has nothing left to do, since
\* every line was flushed when written.
FinishWrite(r) ==
  LET w == rec[r] IN
  /\ w.at = "items" /\ w.written = Len(w.pending)
  /\ \/ SyncThreadState(w) /\ UNCHANGED count
     \/ Trouble /\ UNCHANGED indexed
  /\ Reply(r, Drained(w), TRUE)
  /\ UNCHANGED <<file, exists, session, tears>>

-----------------------------------------------------------------------------
(* The rest of the process *)

\* append_rollout_item_to_path opens the file to append and never creates it;
\* then reconcile_rollout rebuilds the index from the file.  Nothing but the
\* index sees what others append in between.
AppendToPath(line) ==
  /\ exists
  /\ Trouble
  /\ \/ /\ file' = Append(file, line)
        /\ \/ indexed' = indexed \cup {l.n : l \in {k \in Loaded(file') : k.kind = "item"}}
           \/ UNCHANGED indexed
        /\ UNCHANGED tears
     \/ Torn /\ UNCHANGED indexed
  /\ UNCHANGED <<rec, exists, session, caller, promised>>

\* update_thread_metadata with a name: the line is appended behind the
\* recorders' back, whatever the file holds.
ApplyThreadName == AppendToPath(NoteLine)

\* update_thread_metadata with a memory mode: the metadata, which must be
\* there, is appended once more.
ApplyThreadMemoryMode ==
  /\ \E l \in Parsed(file) : l.kind = "meta"
  /\ AppendToPath(ModeLine)

\* The process dies.  Once there is a file, a recorder or a metadata update
\* may be in the middle of a write and leave a tear.
Crash ==
  /\ Trouble
  /\ IF exists THEN Torn ELSE UNCHANGED <<file, tears>>
  /\ rec' = [r \in Recorders |->
       IF rec[r].st = "none" THEN rec[r] ELSE Gone(rec[r])]
  /\ session' = [r \in Recorders |-> IF rec[r].st = "none" THEN "none" ELSE "ended"]
  /\ caller' = [c \in Callers |-> Idle]
  /\ UNCHANGED <<exists, indexed, promised>>

-----------------------------------------------------------------------------

WriterStep(r) ==
  \/ Receive(r)
  \/ ReceiveNone(r)
  \/ EnsureWriterOpen(r)
  \/ WriteMeta(r)
  \/ WriteItem(r)
  \/ FinishWrite(r)

CallerStep(c) == Send(c) \/ ShutdownThread(c)

Next ==
  \/ CreateThread
  \/ ResumeThread
  \/ \E r \in Recorders, ok \in BOOLEAN : EndInit(r, ok)
  \/ \E r \in Recorders : DropSession(r)
  \/ \E c \in Callers, r \in Recorders, op \in Barriers \cup {"add"} : Begin(c, r, op)
  \/ \E c \in Callers : CallerStep(c)
  \/ \E r \in Recorders : WriterStep(r)
  \/ ApplyThreadName
  \/ ApplyThreadMemoryMode
  \/ Crash

\* The writer is a task of the runtime: while it can go on it does.  A
\* caller goes on once it is answered, or its send has room.
Fairness ==
  /\ \A r \in Recorders : WF_vars(WriterStep(r))
  /\ \A c \in Callers : WF_vars(CallerStep(c))

Spec == Init /\ [][Next]_vars /\ Fairness

-----------------------------------------------------------------------------
(* Properties *)

\* The items a recorder accepted, and where they are: complete lines of the
\* file, buffered behind the lines of a write in progress, or in the channel.
Numbers(w) == {w.queued[k] : k \in DOMAIN w.queued}
OnFile(f, i) == \E k \in DOMAIN f : f[k] = ItemLine(i)
Buffered(w) == {w.pending[k] : k \in w.written + 1 .. Len(w.pending)}
InChannel(w) == {w.chan[k].n : k \in {j \in DOMAIN w.chan : w.chan[j].op = "add"}}

\* Items are numbered as they are accepted: in the order of their numbers they
\* are first on the file, without a gap, then in the buffer, then in the
\* channel, each at one place.
ItemsInOrder(f, w) ==
  /\ \A i, j \in Numbers(w) : i < j /\ OnFile(f, j) => OnFile(f, i)
  /\ \A j, k \in DOMAIN f :
       /\ j < k
       /\ f[j].kind = "item" /\ f[j].n \in Numbers(w)
       /\ f[k].kind = "item" /\ f[k].n \in Numbers(w)
       => f[j].n < f[k].n
  /\ \A j, k \in w.written + 1 .. Len(w.pending) : j < k => w.pending[j] < w.pending[k]
  /\ \A j, k \in DOMAIN w.chan :
       j < k /\ w.chan[j].op = "add" /\ w.chan[k].op = "add" => w.chan[j].n < w.chan[k].n
  /\ \A i \in Numbers(w), j \in Buffered(w) \cup InChannel(w) : OnFile(f, i) => i < j
  /\ \A i \in Buffered(w), j \in InChannel(w) : i < j

\* Nothing is lost, repeated or reordered on the way to the file: at every
\* moment what a recorder accepted is what it has written, then what it has
\* buffered, then what is in its channel, through failed writes, retries on a
\* reopened file and the lines that others write in between
\* (write_pending_items_once and the comment on RolloutWriterState).  Of a
\* recorder that has ended, the file has the first ones; and the state
\* database knows only items that the file has.
ItemsAccountedFor ==
  /\ \A r \in Recorders :
       /\ ItemsInOrder(file, rec[r])
       /\ rec[r].st # "gone" => \A i \in Numbers(rec[r]) :
            OnFile(file, i) \/ i \in Buffered(rec[r]) \/ i \in InChannel(rec[r])
  /\ \A i \in indexed : OnFile(file, i)

\* A barrier that answered Ok has put every item queued before it on the
\* file, for good: after crashes, resumed sessions, a second writer and
\* metadata updates the reader still finds them, except for at most one line
\* for each tear the file has suffered, as long as no tear has cut a
\* character in two, which makes load_rollout_items refuse the whole file.
\* (This is less than the documentation of flush says: see PromisedIsLoaded
\* of MC_RolloutRecorder.)
PromisesAreKept == Readable(file) => Cardinality(promised \ Loaded(file)) <= tears

\* The session metadata, written once, comes before every item and every
\* changed copy of the metadata: a failed write of it, a crash, a resumed
\* session or a metadata update never lets one of these go first, and a retry
\* never writes it twice (write_session_meta_if_needed).  Only names and
\* tears may stand before it.
IsBody(l) == l.kind \in {"meta", "item"}
MetaComesFirst ==
  /\ \A k \in DOMAIN file : IsBody(file[k]) => \E j \in 1 .. k : file[j] = MetaLine
  /\ \A j, k \in DOMAIN file : file[j] = MetaLine /\ file[k] = MetaLine => j = k

\* Every caller of persist, flush or shutdown is answered, also when the
\* writes fail, the channel is full or a shutdown overtakes it.
BarriersAreAnswered ==
  \A c \in Callers : caller[c].at \in {"sending", "waiting"} ~> caller[c].at = "idle"

-----------------------------------------------------------------------------
(* What is inductive *)

Line == [kind : {"item", "meta", "note", "tear", "split"}, n : Nat]

Command == [op : Barriers \cup {"add", "none"}, n : Nat, by : Callers \cup {NoCaller}]

Writer ==
  [st : {"none", "up", "gone"}, open : BOOLEAN, deferred : BOOLEAN, meta : BOOLEAN,
   pending : Seq(Nat), chan : Seq(Command), queued : Seq(Nat),
   at : {"recv", "open", "meta", "items"}, cmd : Command, try : {1, 2}, written : Nat]

TypeOK ==
  /\ file \in Seq(Line)
  /\ rec \in [Recorders -> Writer]
  /\ exists \in BOOLEAN
  /\ session \in [Recorders -> {"none", "init", "open", "failed", "ended"}]
  /\ caller \in [Callers -> [at : {"idle", "sending", "waiting", "ok", "err"},
                             op : Barriers \cup {"add", "none"}, rec : 0 .. MaxRecorders]]
  /\ indexed \subseteq Nat
  /\ promised \subseteq Line
  /\ tears \in Nat
  /\ count \in [{"calls", "troubles"} -> Nat]

\* Where the writer task is.
PlaceInv(w) ==
  /\ w.at # "recv" => w.st = "up"
  /\ w.st = "none" => w.queued = <<>>
  /\ w.written <= Len(w.pending)
  /\ w.at # "items" => w.written = 0

\* Only the recorder that created the thread may have the metadata to write,
\* and while it has, no metadata and no item is on the file.
NoBody(f) == \A k \in DOMAIN f : ~IsBody(f[k])
HasMeta(f) == \E k \in DOMAIN f : f[k] = MetaLine
MetaInv(f, r, w) ==
  /\ w.meta => r = 1 /\ NoBody(f)
  /\ ~w.meta /\ w.st = "up" => HasMeta(f)
  /\ (w.at = "meta" => w.meta) /\ (w.at = "items" => ~w.meta)

\* Buffer and channel hold only accepted items; a barrier counts items that
\* were accepted before it.
OwnInv(f, w) ==
  /\ \A k \in DOMAIN w.pending : w.pending[k] \in Numbers(w)
  /\ \A k \in 1 .. w.written : OnFile(f, w.pending[k])
  /\ \A k \in DOMAIN w.chan :
       /\ w.chan[k].op = "add" => w.chan[k].n \in Numbers(w)
       /\ w.chan[k].op \in Barriers => w.chan[k].n <= Len(w.queued)
  /\ w.cmd.op \in Barriers => w.cmd.n <= Len(w.queued)

\* An item that is still in the channel is behind no barrier that counts it.
Behind(w, k, j) ==
  /\ w.chan[j].op = "add" /\ w.chan[j].n = w.queued[k]
  /\ \A i \in 1 .. j : w.chan[i].op \in Barriers => w.chan[i].n < k
  /\ w.cmd.op \in Barriers => w.cmd.n < k
Covered(f, w) ==
  w.st # "gone" => \A k \in DOMAIN w.queued :
    \/ OnFile(f, w.queued[k])
    \/ w.queued[k] \in Buffered(w)
    \/ \E j \in DOMAIN w.chan : Behind(w, k, j)

WriterInv(f, r, w) ==
  /\ PlaceInv(w) /\ MetaInv(f, r, w) /\ OwnInv(f, w) /\ ItemsInOrder(f, w) /\ Covered(f, w)

\* A number is given once.
NumbersInv ==
  /\ IsFiniteSet(Slots)
  /\ \A r \in Recorders : \A i \in Numbers(rec[r]) :
       i < NextItem /\ \A s \in Recorders : i \in Numbers(rec[s]) => s = r
  /\ \A k \in DOMAIN file : file[k].kind = "item" => file[k].n < NextItem

\* What was promised is on the file, if only as a line that does not parse.
PromisedInv ==
  \A l \in promised : ~IsTear(l) /\ \E k \in DOMAIN file : file[k] = l

TearsOf(f) == {k \in DOMAIN f : IsTear(f[k])}

RecorderInv ==
  /\ TypeOK
  /\ \A c \in Callers : caller[c].at = "sending" => caller[c].rec # 0 /\ caller[c].op # "none"
  /\ \A r \in Recorders : WriterInv(file, r, rec[r])
  /\ NumbersInv /\ MetaComesFirst /\ PromisedInv
  /\ \A i \in indexed : OnFile(file, i)
  /\ Cardinality(TearsOf(file)) = tears
=============================================================================
