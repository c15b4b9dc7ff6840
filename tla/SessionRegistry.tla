-------------------------- MODULE SessionRegistry --------------------------
(***************************************************************************)
(* The server side of exec-server sessions: the connections that           *)
(* run_connection (server/processor.rs) serves, the per-connection         *)
(* handler (server/handler.rs) and the registry that lets a session        *)
(* outlive its connection for DETACHED_SESSION_TTL                         *)
(* (server/session_registry.rs).                                           *)
(*                                                                         *)
(* attach runs under the registry mutex and is one step; detach does not   *)
(* take that mutex, and its two assignments (the attachment, then the      *)
(* notification sender of the process table) are two steps.  A request is  *)
(* a future that the connection loop drops when the transport goes down.   *)
(***************************************************************************)
EXTENDS Naturals

CONSTANTS
  Conns,     \* connections (each has one handler and one ConnectionId)
  Sessions,  \* session ids: Uuid::new_v4, never handed out twice
  None

ASSUME NoneAssumption == None \notin Conns \union Sessions

VARIABLES
  sessions,       \* SessionRegistry.sessions: the registered ids
  used,           \* ids handed out so far
  current,        \* AttachmentState.current_connection_id
  detached,       \* AttachmentState.detached_connection_id
  expires,        \* AttachmentState.detached_expires_at: none, ahead or passed
  sender,         \* whose RpcNotificationSender the process table holds
  running,        \* sessions with a live managed process
  timers,         \* expire_if_detached tasks: pairs <<session, connection>>
  stopping,       \* entries removed by a timer whose shutdown is still to run
  pc,             \* where each connection stands
  session,        \* ExecServerHandler.session
  requested,      \* handlers whose initialize_requested is set
  initialized,    \* handlers whose initialized is set
  up              \* connections whose transport is up

registry == <<sessions, used, current, detached, expires, sender>>
handler  == <<session, requested, initialized>>
vars == <<registry, running, timers, stopping, pc, handler, up>>

\* "loop" waits for the next event; "request" awaits the route of a process
\* request; "expired" awaits the shutdown of the expired session it tried to
\* resume; "detach" and "unset" are the two halves of SessionHandle::detach.
Labels == {"loop", "request", "expired", "detach", "unset", "closed"}

Init ==
  /\ sessions = {}
  /\ used = {}
  /\ current = [s \in Sessions |-> None]
  /\ detached = [s \in Sessions |-> None]
  /\ expires = [s \in Sessions |-> "none"]
  /\ sender = [s \in Sessions |-> None]
  /\ running = {}
  /\ timers = {}
  /\ stopping = {}
  /\ pc = [c \in Conns |-> "loop"]
  /\ session = [c \in Conns |-> None]
  /\ requested = {}
  /\ initialized = {}
  /\ up = Conns

Goto(c, label) == pc' = [pc EXCEPT ![c] = label]

is_attached_to(s, c) == current[s] = c
has_active_connection(s) == current[s] # None
is_expired(s) == expires[s] = "passed"

\* The loop closes a connection whose session another one has taken over.
is_session_attached(c) == session[c] # None => is_attached_to(session[c], c)

(***************************************************************************)
(* initialize.  The first call on a handler attaches a fresh or a detached *)
(* session; a failed attach lets the client try again.                     *)
(***************************************************************************)
AttachFresh(c, s) ==
  /\ s \notin used
  /\ used' = used \union {s}
  /\ sessions' = sessions \union {s}
  /\ current' = [current EXCEPT ![s] = c]
  /\ sender' = [sender EXCEPT ![s] = c]
  /\ session' = [session EXCEPT ![c] = s]
  /\ requested' = requested \union {c}
  /\ UNCHANGED <<detached, expires, pc>>

\* Mutant: attach leaves the old expiry time in place.
AttachResumeKeepsExpiry(c, s) ==
  /\ s \in sessions /\ ~is_expired(s) /\ ~has_active_connection(s)
  /\ sender' = [sender EXCEPT ![s] = c]
  /\ current' = [current EXCEPT ![s] = c]
  /\ session' = [session EXCEPT ![c] = s]
  /\ requested' = requested \union {c}
  /\ UNCHANGED <<sessions, used, detached, expires, pc>>

AttachResume(c, s) ==
  /\ s \in sessions /\ ~is_expired(s) /\ ~has_active_connection(s)
  /\ sender' = [sender EXCEPT ![s] = c]
  /\ current' = [current EXCEPT ![s] = c]
  /\ detached' = [detached EXCEPT ![s] = None]
  /\ expires' = [expires EXCEPT ![s] = "none"]
  /\ session' = [session EXCEPT ![c] = s]
  /\ requested' = requested \union {c}
  /\ UNCHANGED <<sessions, used, pc>>

AttachExpired(c, s) ==
  /\ s \in sessions /\ is_expired(s)
  /\ sessions' = sessions \ {s}
  /\ session' = [session EXCEPT ![c] = s]   \* the Arc the future holds
  /\ requested' = requested \union {c}
  /\ Goto(c, "expired")
  /\ UNCHANGED <<used, current, detached, expires, sender>>

\* An unknown, or an already attached, session id: the flag is reset.
AttachRefused(c, s) ==
  /\ s \notin sessions \/ (~is_expired(s) /\ has_active_connection(s))
  /\ requested' = requested \ {c}
  /\ UNCHANGED <<registry, session, pc>>

Initialize(c, s) ==
  /\ pc[c] = "loop" /\ is_session_attached(c)
  /\ c \notin requested
  /\ \/ AttachFresh(c, s)
     \/ AttachResume(c, s)
     \/ AttachExpired(c, s)
     \/ AttachRefused(c, s)
  /\ UNCHANGED <<running, timers, stopping, initialized, up>>

\* The shutdown of an expired entry's process table, then the error answer.
ExpiredShutdown(c) ==
  /\ pc[c] = "expired"
  /\ running' = running \ {session[c]}
  /\ session' = [session EXCEPT ![c] = None]
  /\ requested' = requested \ {c}
  /\ Goto(c, "loop")
  /\ UNCHANGED <<registry, timers, stopping, initialized, up>>

Initialized(c) ==
  /\ pc[c] = "loop" /\ is_session_attached(c)
  /\ c \in requested /\ session[c] # None
  /\ initialized' = initialized \union {c}
  /\ UNCHANGED <<registry, running, timers, stopping, pc, session, requested, up>>

(***************************************************************************)
(* Process requests: require_initialized_for, then the call, which other   *)
(* connections interleave with.  An exec leaves a live process behind.     *)
(***************************************************************************)
require_initialized_for(c) ==
  c \in requested /\ session[c] # None
  /\ is_attached_to(session[c], c) /\ c \in initialized

BeginRequest(c) ==
  /\ pc[c] = "loop" /\ is_session_attached(c)
  /\ require_initialized_for(c)
  /\ Goto(c, "request")
  /\ UNCHANGED <<registry, running, timers, stopping, handler, up>>

FinishRequest(c) ==
  /\ pc[c] = "request"
  /\ running' \in {running, running \union {session[c]}}
  /\ Goto(c, "loop")
  /\ UNCHANGED <<registry, timers, stopping, handler, up>>

ProcessExit(s) ==
  /\ s \in running
  /\ running' = running \ {s}
  /\ UNCHANGED <<registry, timers, stopping, pc, handler, up>>

(***************************************************************************)
(* The end of a connection.  A transport that is down cancels the future   *)
(* the loop awaits; the loop also ends on protocol errors and when the     *)
(* session belongs to another connection by now.                           *)
(***************************************************************************)
TransportDown(c) ==
  /\ c \in up /\ pc[c] # "closed"
  /\ up' = up \ {c}
  /\ UNCHANGED <<registry, running, timers, stopping, pc, handler>>

\* handler.shutdown finds the session to detach; there is none before a
\* successful initialize, nor when the attach future was dropped.
EndLoop(c) ==
  /\ \/ pc[c] = "loop" /\ Goto(c, IF session[c] = None THEN "closed" ELSE "detach")
        /\ UNCHANGED session
     \/ pc[c] = "request" /\ c \notin up /\ Goto(c, "detach") /\ UNCHANGED session
     \/ pc[c] = "expired" /\ c \notin up /\ Goto(c, "closed")
        /\ session' = [session EXCEPT ![c] = None]
  /\ UNCHANGED <<registry, running, timers, stopping, requested, initialized, up>>

\* Mutant: the deadline of the detachment is not recorded.
DetachNoDeadline(c) ==
  /\ pc[c] = "detach"
  /\ current' = [current EXCEPT ![session[c]] = None]
  /\ detached' = [detached EXCEPT ![session[c]] = c]
  /\ Goto(c, "unset")
  /\ UNCHANGED <<sessions, used, expires, sender, running, timers, stopping, handler, up>>

\* SessionEntry::detach; SessionHandle::detach returns early when it fails.
Detach(c) ==
  /\ pc[c] = "detach"
  /\ IF is_attached_to(session[c], c)
     THEN /\ current' = [current EXCEPT ![session[c]] = None]
          /\ detached' = [detached EXCEPT ![session[c]] = c]
          /\ expires' = [expires EXCEPT ![session[c]] = "ahead"]
          /\ Goto(c, "unset")
     ELSE Goto(c, "closed") /\ UNCHANGED <<current, detached, expires>>
  /\ UNCHANGED <<sessions, used, sender, running, timers, stopping, handler, up>>

UnsetSender(c) ==
  /\ pc[c] = "unset"
  /\ sender' = [sender EXCEPT ![session[c]] = None]
  /\ timers' = timers \union {<<session[c], c>>}
  /\ Goto(c, "closed")
  /\ UNCHANGED <<sessions, used, current, detached, expires, running, stopping, handler, up>>

(***************************************************************************)
(* Expiry.  A task sleeps for the TTL and removes the entry if it is still *)
(* detached by the same connection.                                        *)
(***************************************************************************)
TtlElapses(s) ==
  /\ expires[s] = "ahead"
  /\ expires' = [expires EXCEPT ![s] = "passed"]
  /\ UNCHANGED <<sessions, used, current, detached, sender, running, timers, stopping, pc, handler, up>>

\* Mutant: any expiry task of the session may remove it.
is_detached_connection_expiredAny(s, c) == TRUE

is_detached_connection_expired(s, c) ==
  current[s] = None /\ detached[s] = c /\ expires[s] = "passed"

\* The task of the detachment in force wakes at its deadline; the task of an
\* earlier detachment wakes at any time after that.
ExpireIfDetached(s, c) ==
  /\ <<s, c>> \in timers
  /\ detached[s] = c => expires[s] = "passed"
  /\ timers' = timers \ {<<s, c>>}
  /\ IF s \in sessions /\ is_detached_connection_expired(s, c)
     THEN sessions' = sessions \ {s} /\ stopping' = stopping \union {s}
     ELSE UNCHANGED <<sessions, stopping>>
  /\ UNCHANGED <<used, current, detached, expires, sender, running, pc, handler, up>>

Shutdown(s) ==
  /\ s \in stopping
  /\ running' = running \ {s}
  /\ stopping' = stopping \ {s}
  /\ UNCHANGED <<registry, timers, pc, handler, up>>

ConnStep(c) ==
  \/ ExpiredShutdown(c)
  \/ Initialized(c)
  \/ BeginRequest(c)
  \/ FinishRequest(c)
  \/ TransportDown(c)
  \/ EndLoop(c)
  \/ Detach(c)
  \/ UnsetSender(c)
  \/ \E s \in Sessions : Initialize(c, s) \/ ExpireIfDetached(s, c)

Done == (\A c \in Conns : pc[c] = "closed") /\ UNCHANGED vars

Next ==
  \/ \E c \in Conns : ConnStep(c)
  \/ \E s \in Sessions : ProcessExit(s) \/ TtlElapses(s) \/ Shutdown(s)
  \/ Done

Spec == Init /\ [][Next]_vars

\* The clock advances, and the runtime polls every task it spawned and every
\* connection loop whose transport is down until it ends.
Fairness ==
  /\ \A s \in Sessions : WF_vars(TtlElapses(s)) /\ WF_vars(Shutdown(s))
  /\ \A c \in Conns :
       /\ WF_vars(Detach(c)) /\ WF_vars(UnsetSender(c)) /\ WF_vars(ExpiredShutdown(c))
       /\ WF_vars(c \notin up /\ EndLoop(c))
       /\ \A s \in Sessions : WF_vars(ExpireIfDetached(s, c))

FairSpec == Spec /\ Fairness

(***************************************************************************)
(* Properties.                                                             *)
(***************************************************************************)
TypeOK ==
  /\ sessions \subseteq used /\ used \subseteq Sessions
  /\ current \in [Sessions -> Conns \union {None}]
  /\ detached \in [Sessions -> Conns \union {None}]
  /\ expires \in [Sessions -> {"none", "ahead", "passed"}]
  /\ sender \in [Sessions -> Conns \union {None}]
  /\ running \subseteq used /\ stopping \subseteq used
  /\ timers \subseteq Sessions \X Conns
  /\ pc \in [Conns -> Labels]
  /\ session \in [Conns -> Sessions \union {None}]
  /\ requested \subseteq Conns /\ initialized \subseteq Conns /\ up \subseteq Conns

\* No two connections run process requests on one session at a time, however
\* attach, detach, eviction and dropped requests interleave (processor.rs
\* handles requests one by one, attach refuses an active session).
RequestsExclusive ==
  \A c, d \in Conns :
    pc[c] = "request" /\ pc[d] = "request" /\ session[c] = session[d] => c = d

\* A connection keeps its session until it detaches itself: neither a resume
\* nor an expiry takes a session away from a live loop, so the "evicted after
\* session resume" exit and the late check of exec_read never apply to it.
LoopKeepsItsSession ==
  \A c \in Conns :
    pc[c] \in {"loop", "request", "detach"} /\ session[c] # None
      => is_attached_to(session[c], c)

\* A session that is attached is registered and is never shut down under the
\* client that resumed it, whatever timers earlier detachments left behind.
AttachedSessionSurvives ==
  \A s \in Sessions : current[s] # None =>
    /\ s \in sessions /\ s \notin stopping
    /\ expires[s] = "none"
    /\ \A c \in Conns : ~(pc[c] = "expired" /\ session[c] = s)

\* While a connection is attached and nobody is between the two halves of a
\* detach, its notifications go to it: "Output is streamed asynchronously via
\* process/output" (exec-server/README.md).
SenderFollowsAttachment ==
  \A s \in Sessions :
    current[s] # None /\ (\A c \in Conns : session[c] = s => pc[c] # "unset")
      => sender[s] = current[s]

\* While nobody is attached the process table has no sender, or a detach is
\* between its halves: output produced then is retained, never queued for the
\* closed connection (SessionHandle::detach).
NoSenderAfterDetach ==
  \A s \in Sessions :
    current[s] = None => sender[s] = None \/ (\E c \in Conns : pc[c] = "unset" /\ session[c] = s)

\* A detached session does not linger: it is resumed or removed, because the
\* expiry task of its last detachment fires (expire_if_detached).
DetachedSessionsEnd ==
  \A s \in Sessions :
    (s \in sessions /\ current[s] = None) ~> (s \notin sessions \/ current[s] # None)

(***************************************************************************)
(* The inductive invariant behind the safety properties: what a connection *)
(* refers to was handed out, an entry taken out of the registry is never   *)
(* attached again, and an id not yet handed out is in its initial state.   *)
(***************************************************************************)
ReferencesAreUsed ==
  \A c \in Conns :
    /\ session[c] # None => session[c] \in used
    /\ pc[c] \in {"request", "expired", "detach", "unset"} => session[c] # None
    /\ pc[c] = "expired" => session[c] \notin sessions

RemovedStaysRemoved == stopping \intersect sessions = {}

UnusedIsPristine ==
  \A s \in Sessions \ used : expires[s] = "none" /\ current[s] = None

RegInv ==
  /\ TypeOK
  /\ ReferencesAreUsed
  /\ RemovedStaysRemoved
  /\ UnusedIsPristine
  /\ LoopKeepsItsSession
  /\ AttachedSessionSurvives
=============================================================================
