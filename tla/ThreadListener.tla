--------------------------- MODULE ThreadListener ---------------------------
(***************************************************************************)
(* The app server's side of one thread: which connections follow it        *)
(* (thread_state.rs), the listener task that forwards the events of the    *)
(* conversation and runs commands in the same order                        *)
(* (codex_message_processor.rs), the requests the server sends to clients  *)
(* with the callbacks that wait for their answers (outgoing_message.rs,    *)
(* bespoke_event_handling.rs), and the unloading of a thread nobody        *)
(* follows.  Client requests that name the thread run one at a time        *)
(* (request_serialization.rs); answers, closed connections, the listener,  *)
(* the tasks that wait for answers and the unloader interleave with them.  *)
(*                                                                         *)
(* The conversation is external: it starts turns, asks for approvals, ends *)
(* turns and, once told to shut down, stops; its events wait in a queue.   *)
(* A server request carries the number of the approval it asks for.        *)
(***************************************************************************)
EXTENDS Naturals, Sequences, FiniteSets

CONSTANTS
    Conns,        \* connections; a closed one does not come back
    MaxRequests,  \* bound: client requests about the thread
    MaxAsks,      \* bound: approvals the conversations ask for
    MaxTurns,     \* bound: turns the conversations start
    Timeouts      \* whether waiting 10 s for a shutdown may run out

ASSUME ListenerAssumption ==
    /\ MaxRequests \in Nat /\ MaxAsks \in Nat /\ MaxTurns \in Nat
    /\ Timeouts \in BOOLEAN

VARIABLES
    conv,      \* thread_manager: the loaded conversation, 0 when there is none
    core,      \* the conversations: phase, approval awaited, events, shutdown
    live,      \* live_connections
    entry,     \* threads[id]: the number of its ThreadState, 0 when absent
    subs,      \* its connection_ids
    tstate,    \* ThreadState -> its listener, 0 when cleared
    lis,       \* the listener tasks
    req,       \* the client request being handled
    requests,  \* client requests so far
    unloads,   \* whether pending_thread_unloads holds the thread
    unloader,  \* the task unload_thread_without_subscribers spawns
    closer,    \* connection_closed tearing down a thread that is gone
    cb,        \* request_id_to_callback: requests with a callback
    ask,       \* every server request: its conversation, task and result
    view,      \* what each connection was last told of each request
    watch      \* thread_watch_manager: the runtime facts of the thread

coreVars == <<conv, core>>
entryVars == <<live, entry, subs, tstate, lis>>
taskVars == <<req, requests, unloads, unloader, closer>>
askVars == <<cb, ask, view>>
vars == <<coreVars, entryVars, taskVars, askVars, watch>>

Idle == [kind |-> "none", pc |-> "idle", conn |-> 0, conv |-> 0, st |-> 0]
NotWatched == [running |-> FALSE, pending |-> 0]
Event(t, a) == [t |-> t, a |-> a]
Convs == 1 .. Len(core)
Asks == 1 .. Len(ask)
Listeners == 1 .. Len(lis)

Init ==
    /\ conv = 0 /\ core = <<>>
    /\ live = Conns /\ entry = 0 /\ subs = {} /\ tstate = <<>> /\ lis = <<>>
    /\ req = Idle /\ requests = 0
    /\ unloads = FALSE /\ unloader = [pc |-> "off", conv |-> 0] /\ closer = "off"
    /\ cb = {} /\ ask = <<>>
    /\ view = [c \in Conns |-> [a \in 1 .. MaxAsks |-> "new"]]
    /\ watch = NotWatched

----------------------------------------------------------------------------
(* The conversation, as the app server sees it.                            *)

\* A turn starts; AgentStatus is Running from here to its end.
StartTurn(k) ==
    /\ core[k].phase = "idle" /\ core[k].turns < MaxTurns
    /\ core' = [core EXCEPT ![k].phase = "turn", ![k].turns = @ + 1,
                            ![k].ev = Append(@, Event("start", 0))]
    /\ UNCHANGED <<conv, entryVars, taskVars, askVars, watch>>

\* The turn asks for an approval and waits for the decision.
AskApproval(k) ==
    /\ core[k].phase = "turn" /\ core[k].ask = 0 /\ Len(ask) < MaxAsks
    /\ LET a == Len(ask) + 1 IN
       /\ ask' = Append(ask, [conv |-> k, task |-> "queued", result |-> "none",
                              st |-> 0, lis |-> 0])
       /\ core' = [core EXCEPT ![k].ask = a, ![k].ev = Append(@, Event("ask", a))]
    /\ UNCHANGED <<conv, entryVars, taskVars, cb, view, watch>>

\* The turn completes, or is interrupted while it waits.
EndTurn(k) ==
    /\ core[k].phase = "turn"
    /\ core' = [core EXCEPT ![k].phase = "idle", ![k].ask = 0,
                            ![k].ev = Append(@, Event("end", 0))]
    /\ UNCHANGED <<conv, entryVars, taskVars, askVars, watch>>

\* Op::Shutdown ends the turn and the session loop.
ShutDown(k) ==
    /\ core[k].stop /\ core[k].phase # "dead"
    /\ core' = [core EXCEPT ![k].phase = "dead", ![k].ask = 0,
                            ![k].ev = @ \o (IF core[k].phase = "turn"
                                            THEN <<Event("end", 0), Event("shutdown", 0)>>
                                            ELSE <<Event("shutdown", 0)>>)]
    /\ UNCHANGED <<conv, entryVars, taskVars, askVars, watch>>

----------------------------------------------------------------------------
(* Callbacks of server requests.                                           *)

\* The requests with a callback leave the table with this result.
Settled(as, result) ==
    [a \in Asks |-> IF a \in as THEN [ask[a] EXCEPT !.result = result] ELSE ask[a]]

\* notify_client_response and notify_client_error: the first answer of any
\* connection that was sent the request takes the callback; later ones find none.
Answer(c, a) ==
    /\ c \in live /\ view[c][a] # "new"
    /\ a \in cb
    /\ cb' = cb \ {a} /\ ask' = Settled({a}, "answer")
    /\ UNCHANGED <<coreVars, entryVars, taskVars, view, watch>>

\* cancel_requests_for_thread: all requests of the thread; without an error
\* their callbacks are dropped.
cancel_requests_for_thread(result) ==
    cb' = {} /\ ask' = Settled(cb, result)

----------------------------------------------------------------------------
(* Entries, subscriptions and listeners.                                   *)

\* thread_state: the entry is created when it is absent.
EnsureEntry(more) ==
    /\ subs' = subs \cup more
    /\ IF entry = 0
       THEN tstate' = Append(tstate, 0) /\ entry' = Len(tstate) + 1
       ELSE UNCHANGED <<tstate, entry>>

\* clear_listener of ThreadState s: cancel its listener and forget it.
Cleared(s) == IF tstate[s] = 0 THEN lis ELSE [lis EXCEPT ![tstate[s]].cancel = TRUE]

\* remove_thread_state.
remove_thread_state ==
    /\ entry' = 0 /\ subs' = {}
    /\ IF entry = 0
       THEN UNCHANGED <<tstate, lis>>
       ELSE lis' = Cleared(entry) /\ tstate' = [tstate EXCEPT ![entry] = 0]

\* set_listener: a new task on ThreadState s supersedes the one before.
set_listener(s, k) ==
    /\ lis' = Append(Cleared(s), [conv |-> k, st |-> s, entry |-> entry, pc |-> "idle",
                                  cancel |-> FALSE, cmds |-> <<>>, conn |-> 0,
                                  ids |-> {}, todo |-> {}, a |-> 0])
    /\ tstate' = [tstate EXCEPT ![s] = Len(lis) + 1]

listener_matches(s, k) == tstate[s] # 0 /\ lis[tstate[s]].conv = k

----------------------------------------------------------------------------
(* Client requests about the thread.                                       *)

Step(pc) == req' = [req EXCEPT !.pc = pc]
Finish == req' = Idle

\* The thread's queue starts the next request of a connection that is open.
Begin(c, kind) ==
    /\ req = Idle /\ requests < MaxRequests /\ c \in live
    /\ requests' = requests + 1
    /\ req' = [Idle EXCEPT !.kind = kind, !.pc = "begin", !.conn = c]
    /\ UNCHANGED <<coreVars, entryVars, unloads, unloader, closer, askVars, watch>>

\* thread_resume: refused while the thread is being unloaded; the answer is
\* not looked at again before the permit is acquired and the thread read.
ResumeCheck ==
    /\ req.kind = "resume" /\ req.pc = "begin"
    /\ IF unloads THEN Finish ELSE Step("read")
    /\ UNCHANGED <<coreVars, entryVars, requests, unloads, unloader, closer, askVars, watch>>

\* resume_running_thread: the loaded conversation, and the thread's state.
ResumeRunning ==
    /\ req.kind = "resume" /\ req.pc = "read" /\ conv # 0
    /\ EnsureEntry({})
    /\ req' = [req EXCEPT !.pc = "listen", !.conv = conv, !.st = entry']
    /\ UNCHANGED <<coreVars, live, lis, requests, unloads, unloader, closer, askVars, watch>>

\* ensure_listener_task_running: fails when the entry is gone again.
ResumeListen ==
    /\ req.kind = "resume" /\ req.pc = "listen"
    /\ IF entry = 0
       THEN Finish /\ UNCHANGED <<tstate, lis>>
       ELSE /\ Step("command")
            /\ IF listener_matches(req.st, req.conv)
               THEN UNCHANGED <<tstate, lis>>
               ELSE set_listener(req.st, req.conv)
    /\ UNCHANGED <<coreVars, live, entry, subs, requests, unloads, unloader, closer, askVars, watch>>

\* The resume is answered by the listener, in the order of the events.
ResumeCommand ==
    /\ req.kind = "resume" /\ req.pc = "command"
    /\ LET l == tstate[req.st] IN
       IF l # 0 /\ lis[l].pc # "ended"
       THEN lis' = [lis EXCEPT ![l].cmds = Append(@, [t |-> "resume", c |-> req.conn, a |-> 0])]
       ELSE UNCHANGED lis
    /\ Finish
    /\ UNCHANGED <<coreVars, live, entry, subs, tstate, requests, unloads, unloader, closer, askVars, watch>>

\* thread_resume of a thread that is not loaded: a new conversation.
ResumeCold ==
    /\ req.kind = "resume" /\ req.pc = "read" /\ conv = 0
    /\ core' = Append(core, [phase |-> "idle", turns |-> 0, ask |-> 0, ev |-> <<>>, stop |-> FALSE])
    /\ conv' = Len(core) + 1
    /\ req' = [req EXCEPT !.pc = "attach", !.conv = Len(core) + 1]
    /\ UNCHANGED <<entryVars, requests, unloads, unloader, closer, askVars, watch>>

\* ensure_conversation_listener: subscribes unless the thread is being
\* unloaded or is gone; its error is only logged.
Attach ==
    /\ req.pc = "attach"
    /\ IF conv = 0 \/ unloads \/ req.conn \notin live
       THEN Step("answer") /\ UNCHANGED <<entry, subs, tstate>>
       ELSE /\ EnsureEntry({req.conn})
            /\ req' = [req EXCEPT !.pc = "start", !.conv = conv, !.st = entry']
    /\ UNCHANGED <<coreVars, live, lis, requests, unloads, unloader, closer, askVars, watch>>

\* Then it starts the listener, or takes the subscription back.
AttachListen ==
    /\ req.pc = "start"
    /\ Step("answer")
    /\ IF entry = 0
       THEN UNCHANGED <<subs, tstate, lis>>
       ELSE /\ UNCHANGED subs
            /\ IF listener_matches(req.st, req.conv)
               THEN UNCHANGED <<tstate, lis>>
               ELSE set_listener(req.st, req.conv)
    /\ UNCHANGED <<coreVars, live, entry, requests, unloads, unloader, closer, askVars, watch>>

\* upsert_thread, and the response.
ResumeAnswer ==
    /\ req.pc = "answer"
    /\ Finish
    /\ UNCHANGED <<coreVars, entryVars, requests, unloads, unloader, closer, askVars, watch>>

\* A request reaches a connection that follows the thread, or has left it
\* meanwhile; one that leaves keeps what it was shown.
Shown(c) == IF c \in subs THEN "shown" ELSE "left"
Left(seen) == [a \in DOMAIN seen |-> IF seen[a] = "shown" THEN "left" ELSE seen[a]]

\* thread_unsubscribe; a thread that is no longer loaded is torn down.
Unsubscribe ==
    /\ req.kind = "unsubscribe" /\ req.pc = "begin"
    /\ IF conv = 0
       THEN Step("cancel") /\ UNCHANGED <<subs, view>>
       ELSE /\ Finish
            /\ subs' = subs \ {req.conn}
            /\ view' = [view EXCEPT ![req.conn] = Left(@)]
    /\ UNCHANGED <<coreVars, live, entry, tstate, lis, requests, unloads, unloader, closer, cb, ask, watch>>

\* prepare_thread_for_archive: the conversation is removed and told to stop.
Archive ==
    /\ req.kind = "archive" /\ req.pc = "begin"
    /\ req' = [req EXCEPT !.pc = IF conv = 0 THEN "cancel" ELSE "wait", !.conv = conv]
    /\ conv' = 0
    /\ core' = IF conv = 0 THEN core ELSE [core EXCEPT ![conv].stop = TRUE]
    /\ UNCHANGED <<entryVars, requests, unloads, unloader, closer, askVars, watch>>

ArchiveWait ==
    /\ req.kind = "archive" /\ req.pc = "wait"
    /\ core[req.conv].phase = "dead" \/ Timeouts
    /\ Step("cancel")
    /\ UNCHANGED <<coreVars, entryVars, requests, unloads, unloader, closer, askVars, watch>>

\* finalize_thread_teardown, for a request or for a closed connection: the
\* callbacks first, then the thread's state and its status.
TeardownCancel ==
    /\ unloads' = FALSE
    /\ cancel_requests_for_thread("drop")
    /\ UNCHANGED <<coreVars, entryVars, requests, unloader, view, watch>>
TeardownRemove ==
    /\ remove_thread_state
    /\ watch' = NotWatched
    /\ UNCHANGED <<coreVars, live, requests, unloads, unloader, askVars>>

RequestCancel == req.pc = "cancel" /\ Step("remove") /\ TeardownCancel /\ UNCHANGED closer
RequestRemove == req.pc = "remove" /\ Finish /\ TeardownRemove /\ UNCHANGED closer

\* connection_closed: after the requests of the connection that run; a thread
\* it followed last is torn down when it is no longer loaded.
CloseConnection(c) ==
    /\ c \in live /\ req.conn # c /\ closer = "off"
    /\ live' = live \ {c} /\ subs' = subs \ {c}
    /\ closer' = IF subs = {c} /\ conv = 0 THEN "cancel" ELSE "off"
    /\ UNCHANGED <<coreVars, entry, tstate, lis, req, requests, unloads, unloader, askVars, watch>>
CloserCancel == closer = "cancel" /\ closer' = "remove" /\ TeardownCancel /\ UNCHANGED req
CloserRemove == closer = "remove" /\ closer' = "off" /\ TeardownRemove /\ UNCHANGED req

RequestStep ==
    \/ ResumeCheck \/ ResumeRunning \/ ResumeListen \/ ResumeCommand \/ ResumeCold
    \/ Attach \/ AttachListen \/ ResumeAnswer
    \/ Unsubscribe \/ Archive \/ ArchiveWait \/ RequestCancel \/ RequestRemove

----------------------------------------------------------------------------
(* The listener task.                                                      *)

\* The loop is at its select, and nothing with priority is ready.
AtSelect(l) == lis[l].pc = "idle" /\ ~lis[l].cancel
Goto(l, pc) == lis' = [lis EXCEPT ![l].pc = pc]
Select(l) == lis' = [lis EXCEPT ![l].pc = "idle", ![l].conn = 0, ![l].a = 0]

\* Mutant: the generation is not compared.
EndsAndClears(l) ==
    /\ lis[l].pc = "idle" /\ lis[l].cancel
    /\ lis' = [lis EXCEPT ![l].pc = "ended", ![l].cmds = <<>>]
    /\ tstate' = [tstate EXCEPT ![lis[l].st] = 0]
    /\ UNCHANGED <<coreVars, live, entry, subs, taskVars, askVars, watch>>

\* The listener is cancelled, or the watchers of its entry are gone, or the
\* conversation has no more events: the loop ends and clears its state.
\* Commands left in its channel are dropped.
ListenerEnds(l) ==
    /\ lis[l].pc = "idle"
    /\ \/ lis[l].cancel
       \/ /\ lis[l].cmds = <<>> /\ core[lis[l].conv].ev = <<>>
          /\ entry # lis[l].entry \/ core[lis[l].conv].phase = "dead"
    /\ lis' = [lis EXCEPT ![l].pc = "ended", ![l].cmds = <<>>]
    /\ tstate' = IF tstate[lis[l].st] = l THEN [tstate EXCEPT ![lis[l].st] = 0] ELSE tstate
    /\ UNCHANGED <<coreVars, live, entry, subs, taskVars, askVars, watch>>

TakeResume(l) ==
    /\ AtSelect(l) /\ lis[l].cmds # <<>> /\ Head(lis[l].cmds).t = "resume"
    /\ lis' = [lis EXCEPT ![l].pc = "resume", ![l].conn = Head(lis[l].cmds).c, ![l].cmds = Tail(@)]
    /\ UNCHANGED <<coreVars, live, entry, subs, tstate, taskVars, askVars, watch>>

\* Mutant: the pending unloads are not looked at.
SubscribeAnyway(l) ==
    /\ lis[l].pc = "resume"
    /\ IF lis[l].conn \notin live
       THEN Select(l) /\ UNCHANGED <<entry, subs, tstate>>
       ELSE Goto(l, "replay") /\ EnsureEntry({lis[l].conn})
    /\ UNCHANGED <<coreVars, live, taskVars, askVars, watch>>

\* handle_pending_thread_resume_request: the subscription is made under the
\* lock of the pending unloads, then the response is sent.
ResumeSubscribe(l) ==
    /\ lis[l].pc = "resume"
    /\ IF unloads \/ lis[l].conn \notin live
       THEN Select(l) /\ UNCHANGED <<entry, subs, tstate>>
       ELSE Goto(l, "replay") /\ EnsureEntry({lis[l].conn})
    /\ UNCHANGED <<coreVars, live, taskVars, askVars, watch>>

\* Mutant: nothing is replayed.
ReplayNothing(l) ==
    /\ lis[l].pc = "replay"
    /\ lis' = [lis EXCEPT ![l].pc = "resend", ![l].todo = {}]
    /\ UNCHANGED <<coreVars, live, entry, subs, tstate, taskVars, askVars, watch>>

\* replay_requests_to_connection_for_thread: the pending requests, by number.
ReplaySnapshot(l) ==
    /\ lis[l].pc = "replay"
    /\ lis' = [lis EXCEPT ![l].pc = "resend", ![l].todo = cb]
    /\ UNCHANGED <<coreVars, live, entry, subs, tstate, taskVars, askVars, watch>>
ReplaySend(l) ==
    /\ lis[l].pc = "resend"
    /\ \/ lis[l].todo = {} /\ Select(l) /\ UNCHANGED view
       \/ \E a \in lis[l].todo :
            /\ \A b \in lis[l].todo : a <= b
            /\ lis' = [lis EXCEPT ![l].todo = @ \ {a}]
            /\ view' = [view EXCEPT ![lis[l].conn][a] = Shown(lis[l].conn)]
    /\ UNCHANGED <<coreVars, live, entry, subs, tstate, taskVars, cb, ask, watch>>

\* resolve_pending_server_request: the connections that follow the thread are
\* told, then the task that waits for the answer goes on.
ResolveRequest(l) ==
    /\ AtSelect(l) /\ lis[l].cmds # <<>> /\ Head(lis[l].cmds).t = "resolve"
    /\ LET a == Head(lis[l].cmds).a IN
       /\ view' = [c \in Conns |-> IF c \in subs THEN [view[c] EXCEPT ![a] = "resolved"] ELSE view[c]]
       /\ ask' = [ask EXCEPT ![a].task = "finish", ![a].lis = 0]
    /\ lis' = [lis EXCEPT ![l].cmds = Tail(@)]
    /\ UNCHANGED <<coreVars, live, entry, subs, tstate, taskVars, cb, watch>>

\* The next event of the conversation.
NextEvent(l, t) ==
    /\ AtSelect(l) /\ lis[l].cmds = <<>>
    /\ core[lis[l].conv].ev # <<>> /\ Head(core[lis[l].conv].ev).t = t
    /\ core' = [core EXCEPT ![lis[l].conv].ev = Tail(@)]
    /\ UNCHANGED <<conv, live, entry, subs, tstate, taskVars>>

\* TurnStarted: abort_pending_server_requests, note_turn_started.
OnTurnStarted(l) ==
    /\ NextEvent(l, "start")
    /\ cancel_requests_for_thread("abort")
    /\ watch' = [watch EXCEPT !.running = TRUE]
    /\ UNCHANGED <<lis, view>>

\* TurnComplete and TurnAborted: the requests belong to the turn that ended.
OnTurnEnded(l) ==
    /\ NextEvent(l, "end")
    /\ cancel_requests_for_thread("abort")
    /\ watch' = NotWatched
    /\ UNCHANGED <<lis, view>>

OnShutdownComplete(l) ==
    /\ NextEvent(l, "shutdown")
    /\ watch' = NotWatched
    /\ UNCHANGED <<lis, askVars>>

\* An approval request: note_permission_requested, then
\* send_request_to_connections to those subscribed when the event came.
OnApprovalRequest(l) ==
    /\ NextEvent(l, "ask")
    /\ LET a == Head(core[lis[l].conv].ev).a IN
       /\ cb' = cb \cup {a}
       /\ ask' = [ask EXCEPT ![a].task = "sending", ![a].st = lis[l].st]
       /\ lis' = [lis EXCEPT ![l].pc = "send", ![l].ids = subs, ![l].a = a]
    /\ watch' = [watch EXCEPT !.pending = @ + 1]
    /\ UNCHANGED view
SendRequest(l) ==
    /\ lis[l].pc = "send"
    /\ \/ \E c \in lis[l].ids :
            /\ lis' = [lis EXCEPT ![l].ids = @ \ {c}]
            /\ view' = [view EXCEPT ![c][lis[l].a] = Shown(c)]
            /\ UNCHANGED ask
       \/ /\ lis[l].ids = {}
          /\ Select(l)
          /\ ask' = [ask EXCEPT ![lis[l].a].task = "await"]
          /\ UNCHANGED view
    /\ UNCHANGED <<coreVars, live, entry, subs, tstate, taskVars, cb, watch>>

----------------------------------------------------------------------------
(* Unloading.                                                              *)

Active == watch.running \/ watch.pending > 0

\* wait_for_unloading_trigger, and the agent's own status: half an hour
\* without followers and without activity has passed.
UnloadDue(l) ==
    /\ AtSelect(l) /\ lis[l].cmds = <<>> /\ core[lis[l].conv].ev = <<>>
    /\ entry = lis[l].entry /\ subs = {} /\ ~Active
    /\ core[lis[l].conv].phase # "turn"
    /\ Goto(l, "unload")
    /\ UNCHANGED <<coreVars, live, entry, subs, tstate, taskVars, askVars, watch>>

\* should_unload_now again, under the lock of the pending unloads; then
\* unload_thread_without_subscribers cancels what is pending.
UnloadMark(l) ==
    /\ lis[l].pc = "unload"
    /\ IF unloads \/ subs # {} \/ Active
       THEN Select(l) /\ UNCHANGED <<unloads, cb, ask>>
       ELSE Goto(l, "forget") /\ unloads' = TRUE /\ cancel_requests_for_thread("drop")
    /\ UNCHANGED <<coreVars, live, entry, subs, tstate, req, requests, unloader, closer, view, watch>>

\* It forgets the thread's state and leaves the rest to a task of its own; the
\* listener ends.
UnloadForget(l) ==
    /\ lis[l].pc = "forget" /\ unloader.pc = "off"
    /\ entry' = 0 /\ subs' = {}
    /\ lis' = [lis EXCEPT ![l].pc = "idle", ![l].cancel = TRUE]
    /\ tstate' = IF entry = 0 THEN tstate ELSE [tstate EXCEPT ![entry] = 0]
    /\ unloader' = [pc |-> "wait", conv |-> lis[l].conv]
    /\ core' = [core EXCEPT ![lis[l].conv].stop = TRUE]
    /\ UNCHANGED <<conv, live, req, requests, unloads, closer, askVars, watch>>

\* wait_for_thread_shutdown: complete, or given up with the thread loaded.
UnloaderWait ==
    /\ unloader.pc = "wait"
    /\ \/ /\ core[unloader.conv].phase = "dead"
          /\ unloader' = [unloader EXCEPT !.pc = "remove"]
          /\ UNCHANGED unloads
       \/ /\ Timeouts
          /\ unloader' = [unloader EXCEPT !.pc = "off"]
          /\ unloads' = FALSE
    /\ UNCHANGED <<coreVars, entryVars, req, requests, closer, askVars, watch>>
UnloaderRemove ==
    /\ unloader.pc = "remove"
    /\ conv' = 0
    /\ watch' = NotWatched
    /\ unloader' = [unloader EXCEPT !.pc = "clear"]
    /\ UNCHANGED <<core, entryVars, req, requests, unloads, closer, askVars>>
UnloaderClear ==
    /\ unloader.pc = "clear"
    /\ unloader' = [unloader EXCEPT !.pc = "off"]
    /\ unloads' = FALSE
    /\ UNCHANGED <<coreVars, entryVars, req, requests, closer, askVars, watch>>

UnloaderStep == UnloaderWait \/ UnloaderRemove \/ UnloaderClear

ListenerStep(l) ==
    \/ ListenerEnds(l)
    \/ TakeResume(l) \/ ResumeSubscribe(l) \/ ReplaySnapshot(l) \/ ReplaySend(l)
    \/ ResolveRequest(l)
    \/ OnTurnStarted(l) \/ OnTurnEnded(l) \/ OnShutdownComplete(l)
    \/ OnApprovalRequest(l) \/ SendRequest(l)
    \/ UnloadMark(l) \/ UnloadForget(l)

----------------------------------------------------------------------------
(* The task that waits for an answer (on_..._approval_response).           *)

\* Mutant: the task notifies the connections itself.
ResolveDirectly(a) ==
    /\ ask[a].task = "await" /\ ask[a].result # "none"
    /\ ask' = [ask EXCEPT ![a].task = "finish"]
    /\ view' = [c \in Conns |-> IF c \in subs THEN [view[c] EXCEPT ![a] = "resolved"] ELSE view[c]]
    /\ UNCHANGED <<coreVars, entryVars, taskVars, cb, watch>>

\* Mutant: the task does not wait until the listener has told the connections.
ResolveWithoutWaiting(a) ==
    /\ ask[a].task = "await" /\ ask[a].result # "none"
    /\ ask' = [ask EXCEPT ![a].task = "finish"]
    /\ UNCHANGED <<coreVars, entryVars, taskVars, cb, view, watch>>

\* resolve_server_request_on_thread_listener: through the listener of the
\* ThreadState the request was sent for, if it has one.
TaskResolve(a) ==
    /\ ask[a].task = "await" /\ ask[a].result # "none"
    /\ LET l == tstate[ask[a].st] IN
       IF l = 0
       THEN ask' = [ask EXCEPT ![a].task = "finish", ![a].lis = 0] /\ UNCHANGED lis
       ELSE /\ ask' = [ask EXCEPT ![a].task = "resolving", ![a].lis = l]
            /\ lis' = [lis EXCEPT ![l].cmds = Append(@, [t |-> "resolve", c |-> 0, a |-> a])]
    /\ UNCHANGED <<coreVars, live, entry, subs, tstate, taskVars, cb, view, watch>>

\* The listener ended with the command in its channel.
TaskResolveFails(a) ==
    /\ ask[a].task = "resolving" /\ lis[ask[a].lis].pc = "ended"
    /\ ask' = [ask EXCEPT ![a].task = "finish", ![a].lis = 0]
    /\ UNCHANGED <<coreVars, entryVars, taskVars, cb, view, watch>>

\* Mutant: a dropped callback is taken for a turn that moved on.
SubmitOnlyAnswers(a) ==
    /\ ask[a].task = "finish"
    /\ ask' = [ask EXCEPT ![a].task = "done"]
    /\ watch' = [watch EXCEPT !.pending = IF @ = 0 THEN 0 ELSE @ - 1]
    /\ core' = IF ask[a].result = "answer" /\ core[ask[a].conv].ask = a
               THEN [core EXCEPT ![ask[a].conv].ask = 0]
               ELSE core
    /\ UNCHANGED <<conv, entryVars, taskVars, cb, view>>

\* The guard is dropped; the decision goes to the conversation unless the turn
\* moved on, and counts there only while the turn waits for it.
TaskSubmit(a) ==
    /\ ask[a].task = "finish"
    /\ ask' = [ask EXCEPT ![a].task = "done"]
    /\ watch' = [watch EXCEPT !.pending = IF @ = 0 THEN 0 ELSE @ - 1]
    /\ core' = IF ask[a].result # "abort" /\ core[ask[a].conv].ask = a
               THEN [core EXCEPT ![ask[a].conv].ask = 0]
               ELSE core
    /\ UNCHANGED <<conv, entryVars, taskVars, cb, view>>

TaskStep(a) == TaskResolve(a) \/ TaskResolveFails(a) \/ TaskSubmit(a)

----------------------------------------------------------------------------
ConversationStep(k) == StartTurn(k) \/ AskApproval(k) \/ EndTurn(k) \/ ShutDown(k)
ClientStep(c) ==
    \/ \E kind \in {"resume", "unsubscribe", "archive"} : Begin(c, kind)
    \/ \E a \in Asks : Answer(c, a)
    \/ CloseConnection(c)

Next ==
    \/ \E k \in Convs : ConversationStep(k)
    \/ \E c \in Conns : ClientStep(c)
    \/ RequestStep
    \/ CloserCancel \/ CloserRemove
    \/ \E l \in Listeners : ListenerStep(l) \/ UnloadDue(l)
    \/ UnloaderStep
    \/ \E a \in Asks : TaskStep(a)

Spec == Init /\ [][Next]_vars

----------------------------------------------------------------------------
(* Properties.                                                             *)

\* A listener is about to show the request to the connection.
Replaying(c, a) ==
    \E l \in Listeners :
        /\ lis[l].conn = c
        /\ \/ lis[l].pc = "replay"
           \/ lis[l].pc = "resend" /\ a \in lis[l].todo

\* The thread's conversation is loaded and its session loop runs.
Runs(k) == conv = k /\ k # 0 /\ core[k].phase # "dead"

\* Nothing about the thread is half done by a client request or a close.
Quiet == req = Idle /\ closer = "off"

\* Every connection that follows the thread has been sent every request of its
\* conversation that waits for an answer: those subscribed when it was sent
\* directly, those that resume the running thread by the replay, although both
\* lists are read before the messages are sent.
PendingReachesSubscribers ==
    \A c \in subs, a \in cb :
        ask[a].task = "await" /\ ask[a].conv = conv /\ ~Replaying(c, a)
            => view[c][a] # "new"

\* From the moment a thread is marked for unloading nobody follows it: the mark
\* is set under the lock that every subscription looks at.
UnloadSparesSubscribers == unloads => subs = {}

\* The turn that asked still waits for the answer.
Waits(a) == core[ask[a].conv].ask = a

\* Its task will submit no decision any more.
Abandoned(a) == ask[a].task = "done" \/ ask[a].result = "abort"

\* A request is not abandoned while its turn waits: it is not aborted with an
\* earlier turn, answered into the void, or dropped without a denial.  Requests
\* are cancelled by thread, though, so a listener that outlived its conversation
\* takes those of the next one with its own (abort_pending_server_requests).
ApprovalIsKept ==
    [][\A a \in Asks :
        Waits(a) /\ Waits(a)' /\ ~Abandoned(a) /\ Abandoned(a)' =>
            \E l \in Listeners : LET k == lis[l].conv IN
                k # ask[a].conv /\ core'[k].ev # core[k].ev]_vars

\* The thread's state has a listener on the loaded conversation.
HasListener == entry # 0 /\ tstate[entry] # 0 /\ lis[tstate[entry]].conv = conv

\* A followed thread keeps its listener until its followers or its conversation
\* are gone: one that ends late does not clear the one that superseded it
\* (listener_generation), and no request replaces it by one on an old conversation.
ListenerIsKept ==
    [][subs # {} /\ subs' # {} /\ Runs(conv) /\ Runs(conv)' /\ HasListener => HasListener']_vars

\* A connection that was told a request is resolved is not shown it again,
\* though its replay list may be older than the answer; only a listener that is
\* no longer that of the request's ThreadState may do it, in the middle of a replay.
NoRequestAfterResolved ==
    [][\A c \in Conns, a \in Asks :
        view[c][a] = "resolved" /\ view'[c][a] # "resolved" =>
            \E l \in Listeners : lis[l].pc = "resend" /\ tstate[ask[a].st] # l]_vars

\* The task goes on to submit its decision only when every connection that
\* follows the thread and was shown the request has been told it is resolved.
NoticeBeforeDecision ==
    [][\A a \in Asks :
        /\ ask[a].task # "finish" /\ ask'[a].task = "finish"
        /\ ask[a].st = entry /\ Runs(ask[a].conv)
        => \A c \in subs : view'[c][a] # "shown"]_vars
----------------------------------------------------------------------------
(* What is inductive.                                                      *)

Events == [t : {"start", "ask", "end", "shutdown"}, a : Nat]

Conversation == [phase : {"idle", "turn", "dead"}, turns : Nat, ask : Nat, ev : Seq(Events),
                 stop : BOOLEAN]

Command == [t : {"resume", "resolve"}, c : Conns \cup {0}, a : Nat]

Listener == [conv : Nat, st : Nat, entry : Nat,
             pc : {"idle", "resume", "replay", "resend", "send", "unload", "forget", "ended"},
             cancel : BOOLEAN, cmds : Seq(Command), conn : Conns \cup {0},
             ids : SUBSET Conns, todo : SUBSET Nat, a : Nat]

Request == [kind : {"none", "resume", "unsubscribe", "archive"},
            pc : {"idle", "begin", "read", "listen", "command", "attach", "start", "answer",
                  "wait", "cancel", "remove"},
            conn : Conns \cup {0}, conv : Nat, st : Nat]

ServerRequest == [conv : Nat, task : {"queued", "sending", "await", "resolving", "finish", "done"},
                  result : {"none", "answer", "abort", "drop"}, st : Nat, lis : Nat]

TypeOK ==
    /\ conv \in Nat /\ core \in Seq(Conversation)
    /\ live \subseteq Conns /\ subs \subseteq Conns
    /\ entry \in Nat /\ tstate \in Seq(Nat) /\ lis \in Seq(Listener)
    /\ req \in Request /\ requests \in Nat
    /\ unloads \in BOOLEAN /\ closer \in {"off", "cancel", "remove"}
    /\ unloader \in [pc : {"off", "wait", "remove", "clear"}, conv : Nat]
    /\ cb \subseteq Nat /\ ask \in Seq(ServerRequest) /\ Len(ask) <= MaxAsks
    /\ view \in [Conns -> [1 .. MaxAsks -> {"new", "shown", "left", "resolved"}]]
    /\ watch \in [running : BOOLEAN, pending : Nat]

\* Numbers name what exists, and a ThreadState knows only listeners of its own.
StatesExist ==
    /\ conv \in 0 .. Len(core) /\ entry \in 0 .. Len(tstate)
    /\ \A s \in 1 .. Len(tstate) :
         tstate[s] # 0 =>
             tstate[s] \in Listeners /\ lis[tstate[s]].st = s /\ lis[tstate[s]].pc # "ended"
    /\ \A l \in Listeners :
         /\ lis[l].conv \in Convs /\ lis[l].st \in 1 .. Len(tstate)
         /\ lis[l].pc \in {"resume", "replay", "resend"} => lis[l].conn \in Conns
         /\ lis[l].pc = "ended" => lis[l].cmds = <<>>
         /\ \A i \in 1 .. Len(lis[l].cmds) : lis[l].cmds[i].t = "resume" => lis[l].cmds[i].c \in Conns
    /\ unloader.pc # "off" => unloader.conv \in Convs
AsksExist ==
    /\ cb \subseteq Asks
    /\ \A a \in Asks :
         /\ ask[a].conv \in Convs
         /\ IF ask[a].task = "queued" THEN ask[a].result = "none" ELSE ask[a].st \in 1 .. Len(tstate)
         /\ ask[a].task = "resolving" => ask[a].lis \in Listeners

\* A request knows the conversation that is loaded, unless it was unloaded since;
\* one that has just started a conversation is the first to listen to it.
RequestIsCurrent ==
    /\ req.pc # "idle" => req.conn \in Conns
    /\ req.pc \in {"listen", "command", "start"} => req.st \in 1 .. Len(tstate)
    /\ req.pc \in {"listen", "attach", "start"} => req.conv \in Convs /\ conv \in {0, req.conv}
    /\ req.pc = "wait" => req.conv \in Convs
    /\ req.pc = "attach" =>
         /\ \A l \in Listeners : lis[l].conv # req.conv
         /\ \A a \in Asks : ask[a].conv = req.conv => ask[a].task = "queued"

\* The thread's state has at most one listener that goes on.
OneListener ==
    entry # 0 =>
        /\ tstate[entry] # 0 =>
             LET l == tstate[entry] IN ~lis[l].cancel /\ lis[l].pc # "ended" /\ lis[l].entry = entry
        /\ \A l \in Listeners :
             lis[l].st = entry /\ ~lis[l].cancel /\ lis[l].pc # "ended" => tstate[entry] = l

\* An approval is asked for by one event, behind which its turn adds nothing.
EventsAreOnce ==
    \A k \in Convs : \A i \in 1 .. Len(core[k].ev) : core[k].ev[i].t = "ask" =>
        LET a == core[k].ev[i].a IN
        /\ a \in Asks /\ ask[a].conv = k /\ ask[a].task = "queued"
        /\ \A j \in 1 .. Len(core[k].ev) : core[k].ev[j].t = "ask" /\ core[k].ev[j].a = a => j = i
        /\ core[k].ask = a => i = Len(core[k].ev)
TurnsWait ==
    \A k \in Convs : core[k].ask # 0 =>
        /\ core[k].ask \in Asks /\ ask[core[k].ask].conv = k /\ core[k].phase = "turn"
        /\ ask[core[k].ask].task # "queued" => core[k].ev = <<>>

\* Where a request is in the hands of one listener or of none.
HandsAreOnce ==
    /\ \A a \in cb : ask[a].task \in {"sending", "await"} /\ ask[a].result = "none"
    /\ \A l \in Listeners : lis[l].pc = "send" =>
         /\ lis[l].a \in Asks /\ ask[lis[l].a].task = "sending"
         /\ \A m \in Listeners : lis[m].pc = "send" /\ lis[m].a = lis[l].a => m = l
CommandsAreOnce ==
    \A l \in Listeners : \A i \in 1 .. Len(lis[l].cmds) : lis[l].cmds[i].t = "resolve" =>
        LET a == lis[l].cmds[i].a IN
        /\ a \in Asks /\ ask[a].task = "resolving" /\ ask[a].lis = l
        /\ \A j \in 1 .. Len(lis[l].cmds) : lis[l].cmds[j].t = "resolve" /\ lis[l].cmds[j].a = a => j = i

\* What a listener replays is resolved by itself, afterwards, if it is by its state's.
ReplaysAreFresh ==
    /\ \A l \in Listeners : lis[l].pc = "resend" => \A a \in lis[l].todo :
         /\ a \in Asks /\ ask[a].task # "queued"
         /\ tstate[ask[a].st] = l =>
              \/ ask[a].task \in {"sending", "await"}
              \/ ask[a].task = "resolving" /\ ask[a].lis = l
    /\ \A c \in Conns, a \in 1 .. MaxAsks : view[c][a] = "resolved" =>
         a \in Asks /\ ask[a].task \in {"finish", "done"}

\* PendingReachesSubscribers, while the request is being sent.
RequestsReach ==
    \A c \in subs, a \in cb : ask[a].conv = conv =>
        \/ view[c][a] # "new"
        \/ Replaying(c, a)
        \/ \E l \in Listeners : lis[l].pc = "send" /\ lis[l].a = a /\ c \in lis[l].ids

\* The listener that sent a request is there to resolve it.
SenderResolves ==
    \A a \in Asks : ask[a].task # "queued" /\ ask[a].st = entry /\ Runs(ask[a].conv) =>
        HasListener /\ (ask[a].task = "resolving" => ask[a].lis = tstate[entry])

ListenInv ==
    /\ TypeOK /\ StatesExist /\ AsksExist /\ RequestIsCurrent /\ OneListener
    /\ EventsAreOnce /\ TurnsWait /\ HandsAreOnce /\ CommandsAreOnce
    /\ ReplaysAreFresh /\ RequestsReach /\ SenderResolves /\ UnloadSparesSubscribers
=============================================================================
