------------------------ MODULE ThreadListenerProofs ------------------------
(***************************************************************************)
(* Proofs about ThreadListener for any connections and any number of       *)
(* client requests, conversations, turns and approvals: the inductive      *)
(* invariant ListenInv, that requests reach those who follow the thread,   *)
(* that nobody follows a thread marked for unloading, and what no step     *)
(* takes away: the listener of a followed thread, the approval of a        *)
(* waiting turn, the notice that a request is resolved.                    *)
(***************************************************************************)
EXTENDS ThreadListener, TLAPS

\* A request that was made has a place in what connections were told.
LEMMA AskRange == ASSUME TypeOK, NEW a \in Asks PROVE a \in 1 .. MaxAsks /\ Asks \subseteq Nat
BY ListenerAssumption DEF TypeOK, Asks

\* Server requests stay as they are; those whose callback is taken get a result.
AsksStay ==
  /\ Len(ask') = Len(ask)
  /\ \A a \in Asks :
       /\ ask'[a].conv = ask[a].conv /\ ask'[a].task = ask[a].task
       /\ ask'[a].st = ask[a].st /\ ask'[a].lis = ask[a].lis
       /\ ask'[a].result = ask[a].result \/ a \in cb \ cb'

\* Those whose event has been taken are the same ones.
AsksQueue ==
  /\ Len(ask') = Len(ask)
  /\ \A a \in Asks : ask'[a].conv = ask[a].conv /\ (ask'[a].task = "queued" <=> ask[a].task = "queued")

\* Connections are told nothing, except that one leaves with what it was shown.
ViewsStay ==
  \A c \in Conns, a \in 1 .. MaxAsks :
    view'[c][a] = view[c][a] \/ (view[c][a] = "shown" /\ view'[c][a] = "left")

\* Conversations are the same ones, and those that ended have.
CoresStay ==
  /\ Len(core') = Len(core)
  /\ \A k \in Convs : core[k].phase = "dead" => core'[k].phase = "dead"

\* A step that leaves the listeners, the thread's state and the requests alone,
\* and adds no follower, keeps what ListenInv says of them.
LEMMA QuietStep ==
  ASSUME ListenInv, TypeOK', AsksStay, ViewsStay, CoresStay,
         UNCHANGED <<entry, tstate, lis>>, conv' \in {0, conv}, cb' \subseteq cb, subs' \subseteq subs,
         unloader'.pc # "off" => unloader'.conv \in Convs,
         unloads' => unloads,
         EventsAreOnce', TurnsWait', RequestIsCurrent'
  PROVE  ListenInv'
<1> USE DEF Convs, Asks, Listeners
<1>1. StatesExist'
  BY DEF ListenInv, StatesExist, CoresStay
<1>2. AsksExist'
  <2>1. Asks' = Asks /\ Convs' = Convs
    BY DEF AsksStay, CoresStay
  <2>2. ASSUME NEW a \in Asks, ask[a].task = "queued"
        PROVE  ask'[a].result = "none"
    BY <2>2 DEF ListenInv, AsksExist, AsksStay, HandsAreOnce
  <2> QED BY <2>1, <2>2 DEF ListenInv, AsksExist, AsksStay
<1>3. OneListener'
  BY DEF ListenInv, OneListener
<1>4. HandsAreOnce'
  BY DEF ListenInv, HandsAreOnce, AsksStay, AsksExist
<1>5. CommandsAreOnce'
  BY SMTT(30) DEF ListenInv, CommandsAreOnce, AsksStay
<1>6. ReplaysAreFresh'
  <2>1. \A l \in Listeners : lis[l].pc = "resend" => \A a \in lis[l].todo :
         /\ a \in Asks /\ ask'[a].task # "queued"
         /\ tstate[ask'[a].st] = l =>
              \/ ask'[a].task \in {"sending", "await"}
              \/ ask'[a].task = "resolving" /\ ask'[a].lis = l
    BY DEF ListenInv, ReplaysAreFresh, AsksStay
  <2>2. \A c \in Conns, a \in 1 .. MaxAsks : view'[c][a] = "resolved" =>
         a \in Asks /\ ask'[a].task \in {"finish", "done"}
    BY DEF ListenInv, ReplaysAreFresh, AsksStay, ViewsStay
  <2> QED BY <2>1, <2>2 DEF ReplaysAreFresh, AsksStay
<1>7. RequestsReach'
  <2> SUFFICES ASSUME NEW c \in subs', NEW a \in cb', ask'[a].conv = conv'
               PROVE  \/ view'[c][a] # "new" \/ Replaying(c, a)'
                      \/ \E l \in Listeners : lis[l].pc = "send" /\ lis[l].a = a /\ c \in lis[l].ids
    BY DEF RequestsReach
  <2>1. a \in Asks /\ c \in Conns
    BY DEF ListenInv, TypeOK, AsksExist
  <2>5. a \in 1 .. MaxAsks
    BY <2>1, AskRange DEF ListenInv
  <2>6. ask[a].conv = conv'
    BY <2>1 DEF AsksStay
  <2>2. ask[a].conv \in 1 .. Len(core)
    BY <2>1 DEF ListenInv, AsksExist
  <2>3. ask[a].conv = conv
    BY <2>2, <2>6
  <2>4. \/ view[c][a] # "new" \/ Replaying(c, a)
        \/ \E l \in Listeners : lis[l].pc = "send" /\ lis[l].a = a /\ c \in lis[l].ids
    BY <2>3 DEF ListenInv, RequestsReach
  <2> QED BY <2>1, <2>4, <2>5 DEF ViewsStay, Replaying
<1>8. SenderResolves'
  <2> SUFFICES ASSUME NEW a \in Asks, ask[a].task # "queued", ask[a].st = entry, Runs(ask[a].conv)'
               PROVE  HasListener' /\ (ask[a].task = "resolving" => ask[a].lis = tstate[entry])
    BY DEF SenderResolves, AsksStay, Runs
  <2>1. ask[a].conv = conv' /\ ask[a].conv \in Convs
    BY DEF ListenInv, AsksExist, AsksStay, Runs
  <2>2. conv' = conv /\ Runs(ask[a].conv)
    BY <2>1 DEF Runs, CoresStay, AsksStay
  <2> QED BY <2>2 DEF ListenInv, SenderResolves, HasListener
<1>9. UnloadSparesSubscribers'
  BY DEF ListenInv, UnloadSparesSubscribers
<1> QED BY <1>1, <1>2, <1>3, <1>4, <1>5, <1>6, <1>7, <1>8, <1>9 DEF ListenInv

\* Nothing happens to the conversations.
LEMMA CoreSame ==
  ASSUME ListenInv, AsksQueue, UNCHANGED core
  PROVE  CoresStay /\ EventsAreOnce' /\ TurnsWait'
<1> USE DEF Convs, Asks
<1>1. CoresStay
  BY DEF CoresStay
<1>2. EventsAreOnce'
  <2> SUFFICES ASSUME NEW k \in Convs, NEW i \in 1 .. Len(core[k].ev), core[k].ev[i].t = "ask"
               PROVE  LET a == core[k].ev[i].a IN
                      /\ a \in Asks /\ ask'[a].conv = k /\ ask'[a].task = "queued"
                      /\ \A j \in 1 .. Len(core[k].ev) : core[k].ev[j].t = "ask" /\ core[k].ev[j].a = a => j = i
                      /\ core[k].ask = a => i = Len(core[k].ev)
    BY DEF EventsAreOnce, AsksQueue
  <2> DEFINE a == core[k].ev[i].a
  <2>1. /\ a \in Asks /\ ask[a].conv = k /\ ask[a].task = "queued"
        /\ \A j \in 1 .. Len(core[k].ev) : core[k].ev[j].t = "ask" /\ core[k].ev[j].a = a => j = i
        /\ core[k].ask = a => i = Len(core[k].ev)
    BY DEF ListenInv, EventsAreOnce
  <2> HIDE DEF a
  <2>2. ask'[a].conv = k /\ ask'[a].task = "queued"
    BY <2>1 DEF AsksQueue
  <2> QED BY <2>1, <2>2 DEF a
<1>3. TurnsWait'
  BY DEF ListenInv, TurnsWait, AsksQueue
<1> QED BY <1>1, <1>2, <1>3

\* A request that is over, or that does not move while conversations at most
\* leave and requests keep their tasks.
LEMMA RequestSame ==
  ASSUME ListenInv, AsksStay, UNCHANGED lis, tstate' = tstate, Len(core') = Len(core), conv' \in {0, conv},
         req' = req \/ req' = Idle
  PROVE  RequestIsCurrent'
<1> USE DEF Convs, Asks, Listeners
<1>1. CASE req' = Idle
  BY <1>1 DEF Idle, RequestIsCurrent
<1>2. CASE req' = req
  BY <1>2 DEF ListenInv, RequestIsCurrent, AsksStay
<1> QED BY <1>1, <1>2

LEMMA StayQueue == ASSUME AsksStay PROVE AsksQueue
BY DEF AsksStay, AsksQueue

LEMMA AskSame == ASSUME UNCHANGED ask PROVE AsksStay
BY DEF AsksStay

LEMMA ViewSame == ASSUME UNCHANGED view PROVE ViewsStay
BY DEF ViewsStay

LEMMA NotWatchedTyped == NotWatched \in [running : BOOLEAN, pending : Nat]
BY DEF NotWatched

LEMMA FcnIsSeq ==
  ASSUME NEW S, NEW n \in Nat, NEW f \in [1 .. n -> S]
  PROVE  f \in Seq(S) /\ Len(f) = n
OBVIOUS

\* The results of requests are not what ListenInv is about.
LEMMA SettledStays ==
  ASSUME TypeOK, NEW as, NEW result \in {"none", "answer", "abort", "drop"}, ask' = Settled(as, result),
         as \subseteq cb, cb' = cb \ as
  PROVE  AsksStay /\ ask' \in Seq(ServerRequest)
<1>1. /\ ask \in Seq(ServerRequest) /\ Len(ask) \in Nat
      /\ \A a \in Asks : ask[a] \in ServerRequest
  BY DEF TypeOK, Asks
<1>2. \A a \in Asks : [ask[a] EXCEPT !.result = result] \in ServerRequest
  BY <1>1 DEF ServerRequest
<1>3. ask' \in [1 .. Len(ask) -> ServerRequest]
  BY <1>1, <1>2 DEF Settled, Asks
<1>4. ask' \in Seq(ServerRequest) /\ Len(ask') = Len(ask)
  BY <1>1, <1>3, FcnIsSeq
<1>5. \A a \in Asks :
       /\ ask'[a].conv = ask[a].conv /\ ask'[a].task = ask[a].task
       /\ ask'[a].st = ask[a].st /\ ask'[a].lis = ask[a].lis
       /\ ask'[a].result = ask[a].result \/ a \in cb \ cb'
  BY <1>1 DEF Settled, Asks, ServerRequest
<1> QED BY <1>4, <1>5 DEF AsksStay

\* thread_queue: a request begins, waits or is answered.
LEMMA RequestMoves ==
  ASSUME ListenInv,
         \/ \E c \in Conns, kind \in {"resume", "unsubscribe", "archive"} : Begin(c, kind)
         \/ ResumeCheck \/ ResumeAnswer \/ ArchiveWait
  PROVE  ListenInv'
<1>1. /\ UNCHANGED <<conv, core, live, entry, subs, tstate, lis, unloads, unloader, closer, cb, ask, view, watch>>
  BY DEF Begin, ResumeCheck, ResumeAnswer, ArchiveWait, coreVars, entryVars, askVars, taskVars
<1>2. req' \in Request /\ requests' \in Nat
  <2>0. req \in Request /\ requests \in Nat
    BY DEF ListenInv, TypeOK
  <2> USE DEF Request, Idle, Finish, Step
  <2>1. CASE \E c \in Conns, kind \in {"resume", "unsubscribe", "archive"} : Begin(c, kind)
    <3>1. PICK c \in Conns, kind \in {"resume", "unsubscribe", "archive"} : Begin(c, kind)
      BY <2>1
    <3>2. req' = [kind |-> kind, pc |-> "begin", conn |-> c, conv |-> 0, st |-> 0]
      BY <3>1 DEF Begin
    <3>3. requests' = requests + 1
      BY <3>1 DEF Begin
    <3> QED BY <2>0, <3>2, <3>3
  <2>2. CASE ResumeCheck
    BY <2>0, <2>2 DEF ResumeCheck
  <2>3. CASE ResumeAnswer
    BY <2>0, <2>3 DEF ResumeAnswer
  <2>4. CASE ArchiveWait
    BY <2>0, <2>4 DEF ArchiveWait
  <2> QED BY <2>1, <2>2, <2>3, <2>4
<1>3. /\ req'.pc \in {"idle", "begin", "read", "cancel"}
      /\ req'.pc # "idle" => req'.conn \in Conns
  <2>1. CASE \E c \in Conns, kind \in {"resume", "unsubscribe", "archive"} : Begin(c, kind)
    BY <2>1 DEF Begin, Idle
  <2>2. CASE ResumeCheck
    BY <2>2, SMTT(30) DEF ResumeCheck, Idle, Finish, Step, ListenInv, RequestIsCurrent, TypeOK, Request
  <2>3. CASE ResumeAnswer
    BY <2>3 DEF ResumeAnswer, Idle, Finish
  <2>4. CASE ArchiveWait
    BY <2>4 DEF ArchiveWait, Step, ListenInv, RequestIsCurrent, TypeOK, Request
  <2> QED BY <2>1, <2>2, <2>3, <2>4
<1>4. TypeOK'
  BY <1>1, <1>2 DEF ListenInv, TypeOK
<1>5. RequestIsCurrent'
  BY <1>3 DEF RequestIsCurrent
<1>6. AsksStay /\ ViewsStay
  BY <1>1, AskSame, ViewSame
<1>7. CoresStay /\ EventsAreOnce' /\ TurnsWait'
  BY <1>1, <1>6, StayQueue, CoreSame
<1>8. unloader'.pc # "off" => unloader'.conv \in Convs
  BY <1>1 DEF ListenInv, StatesExist
<1> QED BY <1>1, <1>4, <1>5, <1>6, <1>7, <1>8, QuietStep

\* thread_unsubscribe and connection_closed take a follower away; the callbacks
\* that are answered or cancelled leave the table; the unloader finishes.
LEMMA QuietSteps ==
  ASSUME ListenInv,
         \/ Unsubscribe \/ RequestCancel \/ CloserCancel
         \/ \E c \in Conns : CloseConnection(c) \/ \E a \in Asks : Answer(c, a)
         \/ UnloaderStep
  PROVE  ListenInv'
<1>0. /\ req \in Request /\ requests \in Nat /\ subs \subseteq Conns /\ live \subseteq Conns
      /\ view \in [Conns -> [1 .. MaxAsks -> {"new", "shown", "left", "resolved"}]]
      /\ unloader \in [pc : {"off", "wait", "remove", "clear"}, conv : Nat]
      /\ req.pc # "idle" => req.conn \in Conns
  BY DEF ListenInv, TypeOK, RequestIsCurrent
<1>1. /\ UNCHANGED <<core, entry, tstate, lis, requests>> /\ subs' \subseteq subs /\ cb' \subseteq cb
      /\ live' \subseteq live /\ conv' \in {0, conv}
      /\ unloads' \in {FALSE, unloads} /\ closer' \in {closer, "off", "cancel", "remove"}
      /\ watch' \in {watch, NotWatched}
  BY DEF Unsubscribe, RequestCancel, CloserCancel, CloseConnection, Answer, UnloaderStep, UnloaderWait,
         UnloaderRemove, UnloaderClear, TeardownCancel, cancel_requests_for_thread,
         coreVars, entryVars, askVars, taskVars
<1>2. AsksStay /\ ask' \in Seq(ServerRequest)
  <2>0. TypeOK /\ ask \in Seq(ServerRequest)
    BY DEF ListenInv, TypeOK
  <2>1. CASE RequestCancel \/ CloserCancel
    <3>1. ask' = Settled(cb, "drop") /\ cb' = cb \ cb
      BY <2>1 DEF RequestCancel, CloserCancel, TeardownCancel, cancel_requests_for_thread
    <3> QED BY <2>0, <3>1, SettledStays
  <2>2. ASSUME NEW c \in Conns, NEW a \in Asks, Answer(c, a)
        PROVE  AsksStay /\ ask' \in Seq(ServerRequest)
    <3>1. ask' = Settled({a}, "answer") /\ cb' = cb \ {a} /\ a \in cb
      BY <2>2 DEF Answer
    <3> QED BY <2>0, <3>1, SettledStays
  <2>3. CASE ask' = ask
    BY <2>0, <2>3, AskSame
  <2> QED
    BY <2>1, <2>2, <2>3 DEF Unsubscribe, CloseConnection, UnloaderStep, UnloaderWait,
       UnloaderRemove, UnloaderClear, askVars
<1>3. AsksStay /\ ask' \in Seq(ServerRequest) /\ Len(ask') <= MaxAsks
  BY <1>2 DEF ListenInv, TypeOK, AsksStay
<1>4. ViewsStay /\ view' \in [Conns -> [1 .. MaxAsks -> {"new", "shown", "left", "resolved"}]]
  <2>1. CASE view' = view
    BY <2>1, <1>0, ViewSame
  <2>2. CASE req.pc = "begin" /\ view' = [view EXCEPT ![req.conn] = Left(@)]
    BY <2>2, <1>0 DEF ViewsStay, Left
  <2> QED
    BY <2>1, <2>2 DEF Unsubscribe, RequestCancel, CloserCancel, CloseConnection, Answer, UnloaderStep,
       UnloaderWait, UnloaderRemove, UnloaderClear, TeardownCancel, askVars
<1>5. unloader' \in [pc : {"off", "wait", "remove", "clear"}, conv : Nat] /\ unloader'.conv = unloader.conv
      /\ (unloader'.pc # "off" => unloader.pc # "off")
  <2>1. CASE UnloaderStep
    BY <2>1, <1>0 DEF UnloaderStep, UnloaderWait, UnloaderRemove, UnloaderClear
  <2>2. CASE unloader' = unloader
    BY <2>2, <1>0
  <2> QED BY <2>1, <2>2 DEF Unsubscribe, RequestCancel, CloserCancel, CloseConnection, Answer,
             TeardownCancel, taskVars
<1>6. \/ req' = req \/ req' = Idle
      \/ req.pc # "idle" /\ \E pc \in {"cancel", "remove"} : req' = [req EXCEPT !.pc = pc]
  BY DEF Unsubscribe, RequestCancel, CloserCancel, CloseConnection, Answer, UnloaderStep, UnloaderWait,
         UnloaderRemove, UnloaderClear, Step, Finish, taskVars
<1>7. req' \in Request
  BY <1>0, <1>6 DEF Idle, Request
<1>8. RequestIsCurrent'
  <2>1. CASE req' = req \/ req' = Idle
    BY <2>1, <1>1, <1>3, RequestSame
  <2>2. CASE req.pc # "idle" /\ \E pc \in {"cancel", "remove"} : req' = [req EXCEPT !.pc = pc]
    BY <2>2, <1>0 DEF RequestIsCurrent, Request
  <2> QED BY <1>6, <2>1, <2>2
<1>9. TypeOK'
  <2>1. /\ conv' \in Nat /\ core' \in Seq(Conversation) /\ entry' \in Nat /\ tstate' \in Seq(Nat)
        /\ lis' \in Seq(Listener) /\ requests' \in Nat
    BY <1>1 DEF ListenInv, TypeOK
  <2>3. watch' \in [running : BOOLEAN, pending : Nat]
    <3>1. watch \in [running : BOOLEAN, pending : Nat]
      BY DEF ListenInv, TypeOK
    <3> QED BY <1>1, <3>1, NotWatchedTyped
  <2>4. unloads' \in BOOLEAN
    BY <1>1 DEF ListenInv, TypeOK
  <2>2. /\ live' \subseteq Conns /\ subs' \subseteq Conns /\ cb' \subseteq Nat
        /\ closer' \in {"off", "cancel", "remove"}
    BY <1>0, <1>1 DEF ListenInv, TypeOK
  <2> QED BY <1>3, <1>4, <1>5, <1>7, <2>1, <2>2, <2>3, <2>4 DEF TypeOK
<1>10. CoresStay /\ EventsAreOnce' /\ TurnsWait'
  BY <1>1, <1>3, StayQueue, CoreSame
<1>11. unloader'.pc # "off" => unloader'.conv \in Convs
  BY <1>5 DEF ListenInv, StatesExist
<1>12. unloads' => unloads
  BY <1>1
<1> QED BY <1>1, <1>3, <1>4, <1>8, <1>9, <1>10, <1>11, <1>12, QuietStep

\* A step of a conversation that keeps the others, its number of conversations
\* and what ended.
LEMMA OneCore ==
  ASSUME TypeOK, NEW k \in Convs, NEW new \in Conversation, core' = [core EXCEPT ![k] = new],
         core[k].phase = "dead" => new.phase = "dead"
  PROVE  /\ core' \in Seq(Conversation) /\ Len(core') = Len(core) /\ core'[k] = new
         /\ \A m \in Convs : m # k => core'[m] = core[m]
         /\ CoresStay
BY DEF TypeOK, Convs, CoresStay

\* Only conversations change, and not which there are.
LEMMA CoreStep ==
  ASSUME ListenInv, TypeOK', CoresStay, EventsAreOnce', TurnsWait',
         UNCHANGED <<conv, entryVars, taskVars, askVars, watch>>
  PROVE  ListenInv'
<1>1. AsksStay /\ ViewsStay
  BY AskSame, ViewSame DEF askVars
<1>2. RequestIsCurrent'
  BY <1>1, RequestSame DEF entryVars, taskVars, CoresStay
<1>3. unloader'.pc # "off" => unloader'.conv \in Convs
  BY DEF ListenInv, StatesExist, taskVars
<1> QED BY <1>1, <1>2, <1>3, QuietStep DEF entryVars, taskVars, askVars

\* Events of one conversation are taken from the front, or added that ask for
\* nothing, when no turn waits for an event that is left.
LEMMA EventsKept ==
  ASSUME ListenInv, AsksQueue, NEW k \in Convs, Len(core') = Len(core), NEW n \in Nat,
         \A m \in Convs : m # k => core'[m] = core[m],
         Len(core'[k].ev) \in Nat, Len(core[k].ev) \in Nat, n <= Len(core[k].ev),
         \A i \in 1 .. Len(core'[k].ev) : core'[k].ev[i].t = "ask" =>
            i + n <= Len(core[k].ev) /\ core'[k].ev[i] = core[k].ev[i + n],
         core'[k].ask = 0 \/ (core'[k].ask = core[k].ask /\ Len(core'[k].ev) + n = Len(core[k].ev))
  PROVE  EventsAreOnce'
<1> USE DEF Convs, Asks
<1> DEFINE Q(e, kk, x, i) ==
       /\ e[i].a \in Asks /\ ask[e[i].a].conv = kk /\ ask[e[i].a].task = "queued"
       /\ \A j \in 1 .. Len(e) : e[j].t = "ask" /\ e[j].a = e[i].a => j = i
       /\ x = e[i].a => i = Len(e)
<1>1. \A m \in Convs : \A i \in 1 .. Len(core[m].ev) : core[m].ev[i].t = "ask" => Q(core[m].ev, m, core[m].ask, i)
  BY DEF ListenInv, EventsAreOnce
<1>2. ASSUME NEW m \in Convs, NEW i \in 1 .. Len(core'[m].ev), core'[m].ev[i].t = "ask"
      PROVE  Q(core'[m].ev, m, core'[m].ask, i)
  <2>1. CASE m # k
    <3>1. core'[m] = core[m]
      BY <2>1
    <3>2. i \in 1 .. Len(core[m].ev) /\ core[m].ev[i].t = "ask"
      BY <1>2, <3>1
    <3>3. Q(core[m].ev, m, core[m].ask, i)
      BY <1>1, <3>2
    <3> QED BY <3>1, <3>3
  <2>2. CASE m = k
    <3>1. i + n \in 1 .. Len(core[k].ev) /\ core'[k].ev[i] = core[k].ev[i + n]
      BY <1>2, <2>2
    <3>2. Q(core[k].ev, k, core[k].ask, i + n)
      <4> HIDE DEF Q
      <4>1. core[k].ev[i + n].t = "ask"
        BY <1>2, <2>2, <3>1
      <4> QED BY <1>1, <3>1, <4>1
    <3> DEFINE a == core'[k].ev[i].a
    <3>3. /\ a \in Asks /\ ask[a].conv = k /\ ask[a].task = "queued"
          /\ \A j \in 1 .. Len(core[k].ev) : core[k].ev[j].t = "ask" /\ core[k].ev[j].a = a => j = i + n
          /\ core[k].ask = a => i + n = Len(core[k].ev)
      BY <3>1, <3>2
    <3> HIDE DEF Q
    <3>4. ASSUME NEW j \in 1 .. Len(core'[k].ev), core'[k].ev[j].t = "ask", core'[k].ev[j].a = a
          PROVE  j = i
      <4>1. j + n \in 1 .. Len(core[k].ev) /\ core'[k].ev[j] = core[k].ev[j + n]
        BY <3>4
      <4>2. j + n = i + n
        BY <3>3, <3>4, <4>1
      <4> QED BY <4>2
    <3>5. a # 0
      BY <3>3
    <3>6. core'[k].ask = a => i = Len(core'[k].ev)
      BY <3>3, <3>5
    <3> QED BY <2>2, <3>3, <3>4, <3>6 DEF Q
  <2> QED BY <2>1, <2>2
<1>3. ASSUME NEW m \in Convs, NEW i \in 1 .. Len(core'[m].ev), core'[m].ev[i].t = "ask"
      PROVE LET a == core'[m].ev[i].a IN
             /\ a \in Asks /\ ask'[a].conv = m /\ ask'[a].task = "queued"
             /\ \A j \in 1 .. Len(core'[m].ev) : core'[m].ev[j].t = "ask" /\ core'[m].ev[j].a = a => j = i
             /\ core'[m].ask = a => i = Len(core'[m].ev)
  <2>1. Q(core'[m].ev, m, core'[m].ask, i)
    BY <1>2, <1>3
  <2> QED BY <2>1 DEF AsksQueue
<1> QED BY <1>3, SMTT(30) DEF EventsAreOnce, AsksQueue

LEMMA CoreTyped ==
  ASSUME TypeOK, NEW k \in Convs
  PROVE  core[k] \in Conversation /\ core[k].ev \in Seq(Events) /\ core[k].turns + 1 \in Nat
<1>1. core[k] \in Conversation
  BY DEF TypeOK, Convs
<1> QED BY <1>1 DEF Conversation

\* One conversation changes: it forgets what its turn waits for and adds events
\* that ask for nothing, or nothing of the kind changes.
LEMMA ConversationChanges ==
  ASSUME ListenInv, AsksQueue, NEW k \in Convs, NEW new \in Conversation, core' = [core EXCEPT ![k] = new],
         core[k].phase = "dead" => new.phase = "dead",
         \A i \in 1 .. Len(new.ev) : new.ev[i].t = "ask" => i <= Len(core[k].ev) /\ new.ev[i] = core[k].ev[i],
         new.ask = 0 \/ (new.ask = core[k].ask /\ new.ev = core[k].ev /\ new.phase = core[k].phase)
  PROVE  core' \in Seq(Conversation) /\ CoresStay /\ EventsAreOnce' /\ TurnsWait'
<1>0. TypeOK /\ core[k] \in Conversation
  BY DEF ListenInv, TypeOK, Convs
<1>1. /\ core' \in Seq(Conversation) /\ Len(core') = Len(core) /\ core'[k] = new
      /\ \A m \in Convs : m # k => core'[m] = core[m]
      /\ CoresStay
  BY <1>0, OneCore
<1>2. EventsAreOnce'
  <2>1. Len(core[k].ev) \in Nat /\ Len(new.ev) \in Nat
    BY <1>0 DEF Conversation
  <2>2. \A i \in 1 .. Len(core'[k].ev) : core'[k].ev[i].t = "ask" =>
             i + 0 <= Len(core[k].ev) /\ core'[k].ev[i] = core[k].ev[i + 0]
    BY <1>1, <2>1
  <2>3. core'[k].ask = 0 \/ (core'[k].ask = core[k].ask /\ Len(core'[k].ev) + 0 = Len(core[k].ev))
    BY <1>1, <2>1
  <2> QED BY <1>1, <2>1, <2>2, <2>3, EventsKept
<1>3. TurnsWait'
  <2> SUFFICES ASSUME NEW m \in Convs, core'[m].ask # 0
               PROVE  /\ core'[m].ask \in Asks /\ ask'[core'[m].ask].conv = m /\ core'[m].phase = "turn"
                      /\ ask'[core'[m].ask].task # "queued" => core'[m].ev = <<>>
    BY <1>1 DEF TurnsWait, Convs, Asks, AsksQueue
  <2>1. core'[m].ask = core[m].ask /\ core'[m].ev = core[m].ev /\ core'[m].phase = core[m].phase
    BY <1>1
  <2>2. /\ core[m].ask \in Asks /\ ask[core[m].ask].conv = m /\ core[m].phase = "turn"
        /\ ask[core[m].ask].task # "queued" => core[m].ev = <<>>
    BY <2>1 DEF ListenInv, TurnsWait
  <2> QED BY <2>1, <2>2 DEF AsksQueue
<1> QED BY <1>1, <1>2, <1>3

LEMMA EventTyped ==
  ASSUME NEW t \in {"start", "ask", "end", "shutdown"}, NEW a \in Nat
  PROVE  Event(t, a) \in Events /\ Event(t, a).t = t /\ Event(t, a).a = a
BY DEF Event, Events

\* One more event, which asks for nothing.
LEMMA EventAdded ==
  ASSUME NEW ev \in Seq(Events), NEW t \in {"start", "end", "shutdown"}
  PROVE  LET new == Append(ev, Event(t, 0)) IN
         /\ new \in Seq(Events) /\ Len(new) = Len(ev) + 1
         /\ \A i \in 1 .. Len(new) : new[i].t = "ask" => i <= Len(ev) /\ new[i] = ev[i]
<1>1. Event(t, 0) \in Events /\ Event(t, 0).t = t
  BY EventTyped
<1> DEFINE e == Event(t, 0)
<1> HIDE DEF e
<1>2. /\ Append(ev, e) \in Seq(Events) /\ Len(Append(ev, e)) = Len(ev) + 1 /\ Len(ev) \in Nat
      /\ \A i \in 1 .. Len(ev) : Append(ev, e)[i] = ev[i]
      /\ Append(ev, e)[Len(ev) + 1] = e
  BY <1>1 DEF e
<1>3. \A i \in 1 .. Len(ev) + 1 : Append(ev, e)[i].t = "ask" => i <= Len(ev) /\ Append(ev, e)[i] = ev[i]
  BY <1>1, <1>2 DEF e
<1> QED BY <1>2, <1>3 DEF e

\* A turn starts or ends, the session loop ends.
LEMMA TurnSteps ==
  ASSUME ListenInv, NEW k \in Convs, StartTurn(k) \/ EndTurn(k) \/ ShutDown(k)
  PROVE  ListenInv'
<1>0. TypeOK /\ core[k] \in Conversation /\ core[k].ev \in Seq(Events) /\ core[k].turns + 1 \in Nat
  BY CoreTyped DEF ListenInv
<1>1. UNCHANGED <<conv, entryVars, taskVars, askVars, watch>>
  BY DEF StartTurn, EndTurn, ShutDown
<1>2. AsksStay /\ AsksQueue
  BY <1>1, AskSame, StayQueue DEF askVars
<1>3. core' \in Seq(Conversation) /\ CoresStay /\ EventsAreOnce' /\ TurnsWait'
  <2>1. CASE StartTurn(k)
    <3> DEFINE ev == Append(core[k].ev, Event("start", 0))
               new == [core[k] EXCEPT !.phase = "turn", !.turns = @ + 1, !.ev = ev]
    <3>1. core[k].phase = "idle" /\ core[k].ask = 0
      BY <1>0, <2>1 DEF StartTurn, ListenInv, TurnsWait, Conversation
    <3>2. /\ ev \in Seq(Events)
          /\ \A i \in 1 .. Len(ev) : ev[i].t = "ask" => i <= Len(core[k].ev) /\ ev[i] = core[k].ev[i]
      BY <1>0, EventAdded
    <3>3. core' = [core EXCEPT ![k] = new]
      BY <2>1 DEF StartTurn
    <3> HIDE DEF ev
    <3>4. new \in Conversation /\ new.ev = ev /\ new.ask = 0
      BY <1>0, <3>1, <3>2 DEF Conversation
    <3> HIDE DEF new
    <3> QED BY <1>2, <3>1, <3>2, <3>3, <3>4, ConversationChanges
  <2>2. CASE EndTurn(k)
    <3> DEFINE ev == Append(core[k].ev, Event("end", 0))
               new == [core[k] EXCEPT !.phase = "idle", !.ask = 0, !.ev = ev]
    <3>1. core[k].phase = "turn"
      BY <2>2 DEF EndTurn
    <3>2. /\ ev \in Seq(Events)
          /\ \A i \in 1 .. Len(ev) : ev[i].t = "ask" => i <= Len(core[k].ev) /\ ev[i] = core[k].ev[i]
      BY <1>0, EventAdded
    <3>3. core' = [core EXCEPT ![k] = new]
      BY <2>2 DEF EndTurn
    <3> HIDE DEF ev
    <3>4. new \in Conversation /\ new.ev = ev /\ new.ask = 0
      BY <1>0, <3>1, <3>2 DEF Conversation
    <3> HIDE DEF new
    <3> QED BY <1>2, <3>1, <3>2, <3>3, <3>4, ConversationChanges
  <2>3. CASE ShutDown(k)
    <3> DEFINE last == IF core[k].phase = "turn" THEN <<Event("end", 0), Event("shutdown", 0)>>
                       ELSE <<Event("shutdown", 0)>>
               ev == core[k].ev \o last
               new == [core[k] EXCEPT !.phase = "dead", !.ask = 0, !.ev = ev]
    <3>1. Event("end", 0) \in Events /\ Event("shutdown", 0) \in Events
          /\ Event("end", 0).t = "end" /\ Event("shutdown", 0).t = "shutdown"
      BY EventTyped
    <3>2. last \in Seq(Events) /\ \A i \in 1 .. Len(last) : last[i].t # "ask"
      BY <3>1
    <3>3. core' = [core EXCEPT ![k] = new]
      BY <2>3 DEF ShutDown
    <3> HIDE DEF last
    <3>4. /\ ev \in Seq(Events) /\ Len(ev) = Len(core[k].ev) + Len(last)
          /\ Len(core[k].ev) \in Nat /\ Len(last) \in Nat
          /\ \A i \in 1 .. Len(ev) : ev[i] = IF i <= Len(core[k].ev) THEN core[k].ev[i]
                                             ELSE last[i - Len(core[k].ev)]
      BY <1>0, <3>2
    <3> HIDE DEF ev
    <3>5. \A i \in 1 .. Len(ev) : ev[i].t = "ask" => i <= Len(core[k].ev) /\ ev[i] = core[k].ev[i]
      <4> SUFFICES ASSUME NEW i \in 1 .. Len(ev), ~(i <= Len(core[k].ev))
                   PROVE  ev[i].t # "ask"
        BY <3>4
      <4>1. i - Len(core[k].ev) \in 1 .. Len(last)
        BY <3>4
      <4> QED BY <3>2, <3>4, <4>1
    <3>6. new \in Conversation /\ new.ev = ev /\ new.ask = 0 /\ new.phase = "dead"
      BY <1>0, <3>4 DEF Conversation
    <3> HIDE DEF new
    <3> QED BY <1>2, <3>3, <3>5, <3>6, ConversationChanges
  <2> QED BY <2>1, <2>2, <2>3
<1>4. TypeOK'
  BY <1>0, <1>1, <1>3 DEF TypeOK, entryVars, taskVars, askVars
<1> QED BY <1>1, <1>3, <1>4, CoreStep

\* prepare_thread_for_archive: the conversation leaves the table.
LEMMA ArchiveStep ==
  ASSUME ListenInv, Archive
  PROVE  ListenInv'
<1>0. TypeOK /\ req \in Request /\ conv \in 0 .. Len(core) /\ (req.pc # "idle" => req.conn \in Conns)
  BY DEF ListenInv, TypeOK, StatesExist, RequestIsCurrent
<1>1. UNCHANGED <<entryVars, requests, unloads, unloader, closer, askVars, watch>> /\ conv' = 0
  BY DEF Archive
<1>2. AsksStay /\ AsksQueue /\ ViewsStay
  BY <1>1, AskSame, StayQueue, ViewSame DEF askVars
<1>3. core' \in Seq(Conversation) /\ CoresStay /\ EventsAreOnce' /\ TurnsWait'
  <2>1. CASE conv = 0
    <3>1. core' = core
      BY <2>1 DEF Archive
    <3> QED BY <1>0, <1>2, <3>1, CoreSame DEF TypeOK
  <2>2. CASE conv # 0
    <3> DEFINE new == [core[conv] EXCEPT !.stop = TRUE]
    <3>1. conv \in Convs
      BY <1>0, <2>2 DEF Convs
    <3>2. core[conv] \in Conversation
      BY <1>0, <3>1, CoreTyped
    <3>3. core' = [core EXCEPT ![conv] = new]
      BY <2>2 DEF Archive
    <3>4. /\ new \in Conversation /\ new.ev = core[conv].ev /\ new.ask = core[conv].ask
          /\ new.phase = core[conv].phase
      BY <3>2 DEF Conversation
    <3> HIDE DEF new
    <3>5. \A i \in 1 .. Len(new.ev) : new.ev[i].t = "ask" => i <= Len(core[conv].ev) /\ new.ev[i] = core[conv].ev[i]
      <4>1. Len(core[conv].ev) \in Nat
        BY <3>2 DEF Conversation
      <4> QED BY <3>4, <4>1
    <3> QED BY <1>2, <3>1, <3>3, <3>4, <3>5, ConversationChanges
  <2> QED BY <2>1, <2>2
<1>4. req' = [req EXCEPT !.pc = IF conv = 0 THEN "cancel" ELSE "wait", !.conv = conv] /\ req.pc = "begin"
  BY DEF Archive
<1>5. /\ req' \in Request /\ req'.pc \in {"cancel", "wait"} /\ req'.conn = req.conn
      /\ req'.pc = "wait" => req'.conv \in Convs
  <2>1. conv \in Nat /\ (conv # 0 => conv \in Convs)
    BY <1>0 DEF Convs, TypeOK
  <2>2. CASE conv = 0
    BY <1>0, <1>4, <2>1, <2>2 DEF Request
  <2>3. CASE conv # 0
    BY <1>0, <1>4, <2>1, <2>3 DEF Request
  <2> QED BY <2>2, <2>3
<1>6. RequestIsCurrent'
  BY <1>0, <1>3, <1>4, <1>5 DEF RequestIsCurrent, Convs, CoresStay
<1>7. TypeOK'
  BY <1>0, <1>1, <1>3, <1>5 DEF TypeOK, entryVars, askVars
<1>8. unloader'.pc # "off" => unloader'.conv \in Convs
  BY <1>1 DEF ListenInv, StatesExist
<1> QED BY <1>1, <1>2, <1>3, <1>6, <1>7, <1>8, QuietStep DEF entryVars, askVars

\* A turn asks for an approval: the request is new, and its event the last.
LEMMA AskApprovalStep ==
  ASSUME ListenInv, NEW k \in Convs, AskApproval(k)
  PROVE  ListenInv'
<1> DEFINE n == Len(ask) + 1
           one == [conv |-> k, task |-> "queued", result |-> "none", st |-> 0, lis |-> 0]
           ev == Append(core[k].ev, Event("ask", n))
           new == [core[k] EXCEPT !.ask = n, !.ev = ev]
<1>0. /\ TypeOK /\ core[k] \in Conversation /\ core[k].ev \in Seq(Events)
      /\ ask \in Seq(ServerRequest) /\ Len(ask) \in Nat /\ k \in Nat
  <2>1. TypeOK /\ ask \in Seq(ServerRequest) /\ k \in Nat
    BY DEF ListenInv, TypeOK, Convs
  <2> QED BY <2>1, CoreTyped
<1>1. /\ UNCHANGED <<conv, entryVars, taskVars, cb, view, watch>>
      /\ core[k].phase = "turn" /\ core[k].ask = 0 /\ Len(ask) < MaxAsks
      /\ ask' = Append(ask, one) /\ core' = [core EXCEPT ![k] = new]
  BY DEF AskApproval
<1>2. one \in ServerRequest /\ one.conv = k /\ one.task = "queued" /\ one.result = "none"
  BY <1>0 DEF ServerRequest
<1>3. Event("ask", n) \in Events /\ Event("ask", n).t = "ask" /\ Event("ask", n).a = n
  BY <1>0, EventTyped
<1> HIDE DEF one
<1>4. /\ ask' \in Seq(ServerRequest) /\ Len(ask') = n /\ ask'[n] = one /\ Asks = 1 .. Len(ask)
      /\ \A a \in Asks : ask'[a] = ask[a]
  BY <1>0, <1>1, <1>2 DEF Asks
<1>5. Asks' = 1 .. n /\ Asks' = Asks \cup {n} /\ n \notin Asks /\ n # 0
  BY <1>0, <1>4 DEF Asks
<1>6. /\ ev \in Seq(Events) /\ Len(ev) = Len(core[k].ev) + 1 /\ Len(core[k].ev) \in Nat
      /\ \A i \in 1 .. Len(core[k].ev) : ev[i] = core[k].ev[i]
      /\ ev[Len(core[k].ev) + 1].t = "ask" /\ ev[Len(core[k].ev) + 1].a = n
  <2> DEFINE e == Event("ask", n)
  <2>1. e \in Events /\ e.t = "ask" /\ e.a = n
    BY <1>3
  <2> HIDE DEF e, n
  <2>2. ev = Append(core[k].ev, e)
    BY DEF e
  <2> HIDE DEF ev
  <2> QED BY <1>0, <2>1, <2>2
<1>7. new \in Conversation /\ new.ev = ev /\ new.ask = n /\ new.phase = "turn"
  <2>1. n \in Nat
    BY <1>0
  <2> HIDE DEF ev, n
  <2> QED BY <1>0, <1>1, <1>6, <2>1 DEF Conversation
<1> HIDE DEF new, n, ev
<1>8. /\ core' \in Seq(Conversation) /\ Len(core') = Len(core) /\ core'[k] = new
      /\ \A m \in Convs : m # k => core'[m] = core[m]
      /\ CoresStay
  BY <1>0, <1>1, <1>7, OneCore
<1>9. Convs' = Convs
  BY <1>8 DEF Convs
<1>10. TypeOK'
  <2>1. Len(ask') <= MaxAsks
    BY <1>0, <1>1, <1>4, ListenerAssumption DEF n
  <2> QED BY <1>0, <1>1, <1>4, <1>8, <2>1 DEF TypeOK, entryVars, taskVars
<1>11. EventsAreOnce'
  <2> SUFFICES ASSUME NEW m \in Convs, NEW i \in 1 .. Len(core'[m].ev), core'[m].ev[i].t = "ask",
                      NEW a, a = core'[m].ev[i].a
               PROVE  /\ a \in Asks' /\ ask'[a].conv = m /\ ask'[a].task = "queued"
                      /\ \A j \in 1 .. Len(core'[m].ev) : core'[m].ev[j].t = "ask" /\ core'[m].ev[j].a = a => j = i
                      /\ core'[m].ask = a => i = Len(core'[m].ev)
    BY <1>9 DEF EventsAreOnce
  <2>0. \A mm \in Convs : \A ii \in 1 .. Len(core[mm].ev) : core[mm].ev[ii].t = "ask" =>
             /\ core[mm].ev[ii].a \in Asks /\ ask[core[mm].ev[ii].a].conv = mm
             /\ ask[core[mm].ev[ii].a].task = "queued"
             /\ \A j \in 1 .. Len(core[mm].ev) :
                  core[mm].ev[j].t = "ask" /\ core[mm].ev[j].a = core[mm].ev[ii].a => j = ii
             /\ core[mm].ask = core[mm].ev[ii].a => ii = Len(core[mm].ev)
    BY DEF ListenInv, EventsAreOnce
  <2>1. CASE m # k
    <3>1. core'[m] = core[m]
      BY <2>1, <1>8
    <3>2. /\ a \in Asks /\ ask[a].conv = m /\ ask[a].task = "queued"
          /\ \A j \in 1 .. Len(core[m].ev) : core[m].ev[j].t = "ask" /\ core[m].ev[j].a = a => j = i
          /\ core[m].ask = a => i = Len(core[m].ev)
      BY <2>0, <3>1
    <3> QED BY <3>1, <3>2, <1>4, <1>5
  <2>2. CASE m = k
    <3>1. core'[m].ev = ev /\ core'[m].ask = n
      BY <2>2, <1>7, <1>8
    <3>2. CASE i \in 1 .. Len(core[k].ev)
      <4>1. /\ a \in Asks /\ ask[a].conv = k /\ ask[a].task = "queued"
            /\ \A j \in 1 .. Len(core[k].ev) : core[k].ev[j].t = "ask" /\ core[k].ev[j].a = a => j = i
        <5>1. core[k].ev[i].t = "ask" /\ core[k].ev[i].a = a
          BY <3>1, <3>2, <1>6
        <5> QED BY <2>0, <3>2, <5>1, SMTT(30)
      <4>2. a # n
        BY <4>1, <1>5
      <4>3. ASSUME NEW j \in 1 .. Len(ev), ev[j].t = "ask", ev[j].a = a
            PROVE  j = i
        <5>1. j \in 1 .. Len(core[k].ev)
          BY <4>2, <4>3, <1>6
        <5>2. core[k].ev[j].t = "ask" /\ core[k].ev[j].a = a
          BY <4>3, <5>1, <1>6
        <5> QED BY <4>1, <5>1, <5>2
      <4> QED BY <2>2, <3>1, <4>1, <4>2, <4>3, <1>4, <1>5
    <3>3. CASE i = Len(core[k].ev) + 1
      <4>1. a = n
        BY <3>1, <3>3, <1>6
      <4>2. ASSUME NEW j \in 1 .. Len(ev), ev[j].t = "ask", ev[j].a = n
            PROVE  j = i
        <5>1. CASE j \in 1 .. Len(core[k].ev)
          <6>1. core[k].ev[j].t = "ask" /\ core[k].ev[j].a = n
            BY <5>1, <4>2, <1>6
          <6>2. n \in Asks
            BY <5>1, <6>1, <2>0
          <6> QED BY <6>2, <1>5
        <5> QED BY <5>1, <3>3, <1>6
      <4> QED BY <2>2, <3>1, <3>3, <4>1, <4>2, <1>2, <1>4, <1>5, <1>6
    <3> QED BY <3>1, <3>2, <3>3, <1>6
  <2> QED BY <2>1, <2>2
<1>12. TurnsWait'
  <2> SUFFICES ASSUME NEW m \in Convs, core'[m].ask # 0
               PROVE  /\ core'[m].ask \in Asks' /\ ask'[core'[m].ask].conv = m /\ core'[m].phase = "turn"
                      /\ ask'[core'[m].ask].task # "queued" => core'[m].ev = <<>>
    BY <1>9 DEF TurnsWait
  <2>1. CASE m # k
    <3>1. core'[m] = core[m]
      BY <2>1, <1>8
    <3>2. /\ core[m].ask \in Asks /\ ask[core[m].ask].conv = m /\ core[m].phase = "turn"
          /\ ask[core[m].ask].task # "queued" => core[m].ev = <<>>
      BY <3>1 DEF ListenInv, TurnsWait
    <3> QED BY <3>1, <3>2, <1>4, <1>5
  <2>2. CASE m = k
    BY <2>2, <1>2, <1>4, <1>5, <1>7, <1>8
  <2> QED BY <2>1, <2>2
<1>13. StatesExist' /\ OneListener' /\ UnloadSparesSubscribers'
  BY <1>1, <1>8 DEF ListenInv, StatesExist, OneListener, UnloadSparesSubscribers, Convs, Listeners, entryVars, taskVars
<1>14. AsksExist'
  <2>1. cb' = cb /\ lis' = lis /\ tstate' = tstate
    BY <1>1 DEF entryVars
  <2>2. one.task = "queued" /\ one.conv \in Convs /\ one.result = "none"
    BY <1>2
  <2> QED BY <1>4, <1>5, <1>9, <2>1, <2>2 DEF ListenInv, AsksExist, Listeners
<1>15. RequestIsCurrent'
  <2>1. req' = req /\ lis' = lis /\ tstate' = tstate /\ conv' = conv
    BY <1>1 DEF entryVars, taskVars
  <2>2. \A a \in Asks' : ask'[a].task = "queued" \/ (a \in Asks /\ ask'[a] = ask[a])
    BY <1>2, <1>4, <1>5
  <2> QED BY <1>9, <2>1, <2>2 DEF ListenInv, RequestIsCurrent, Listeners
<1>16. HandsAreOnce' /\ CommandsAreOnce' /\ ReplaysAreFresh'
  <2>1. cb' = cb /\ lis' = lis /\ tstate' = tstate /\ view' = view
    BY <1>1 DEF entryVars
  <2>2. HandsAreOnce'
    BY <1>4, <1>5, <2>1, SMTT(30) DEF ListenInv, HandsAreOnce, Listeners, AsksExist
  <2>3. CommandsAreOnce'
    BY <1>4, <1>5, <2>1, SMTT(30) DEF ListenInv, CommandsAreOnce, Listeners
  <2>4. ReplaysAreFresh'
    BY <1>4, <1>5, <2>1 DEF ListenInv, ReplaysAreFresh, Listeners
  <2> QED BY <2>2, <2>3, <2>4
<1>17. RequestsReach'
  <2>1. cb' = cb /\ lis' = lis /\ subs' = subs /\ view' = view /\ conv' = conv /\ cb \subseteq Asks
    BY <1>1 DEF entryVars, ListenInv, AsksExist
  <2> QED BY <1>4, <2>1 DEF ListenInv, RequestsReach, Replaying, Listeners
<1>18. SenderResolves'
  <2>1. lis' = lis /\ tstate' = tstate /\ entry' = entry /\ conv' = conv
    BY <1>1 DEF entryVars
  <2> SUFFICES ASSUME NEW a \in Asks', ask'[a].task # "queued", ask'[a].st = entry, Runs(ask[a].conv)'
               PROVE  HasListener' /\ (ask'[a].task = "resolving" => ask'[a].lis = tstate[entry])
    BY <2>1 DEF SenderResolves, Runs
  <2>2. a \in Asks /\ ask'[a] = ask[a]
    BY <1>2, <1>4, <1>5
  <2>3. ask[a].conv \in Convs
    BY <2>2 DEF ListenInv, AsksExist
  <2>4. Runs(ask[a].conv)
    BY <2>1, <2>2, <2>3, <1>8 DEF Runs, CoresStay
  <2> QED BY <2>1, <2>2, <2>4 DEF ListenInv, SenderResolves, HasListener
<1> QED BY <1>10, <1>11, <1>12, <1>13, <1>14, <1>15, <1>16, <1>17, <1>18 DEF ListenInv

\* The task of a request goes on to submit its decision, or has done so.
LEMMA AskEnds ==
  ASSUME ListenInv, TypeOK', NEW a \in Asks, Len(ask') = Len(ask),
         \A b \in Asks : b # a => ask'[b] = ask[b],
         ask'[a].conv = ask[a].conv, ask'[a].st = ask[a].st, ask'[a].task \in {"finish", "done"},
         \/ ask[a].task = "finish"
         \/ ask[a].task = "await" /\ a \notin cb /\ tstate[ask[a].st] = 0
         \/ ask[a].task = "resolving" /\ lis[ask[a].lis].pc = "ended",
         UNCHANGED <<conv, entryVars, taskVars, cb, view>>, CoresStay, EventsAreOnce', TurnsWait'
  PROVE  ListenInv'
<1> USE DEF Convs, Asks, Listeners
<1>0. UNCHANGED <<conv, live, entry, subs, tstate, lis, req, requests, unloads, unloader, closer, cb, view>>
  BY DEF entryVars, taskVars
<1>1. ask[a].task # "queued" /\ ask'[a].task # "queued" /\ a \notin cb
  BY DEF ListenInv, HandsAreOnce
<1>2. StatesExist' /\ OneListener' /\ UnloadSparesSubscribers'
  BY <1>0 DEF ListenInv, StatesExist, OneListener, UnloadSparesSubscribers, CoresStay
<1>3. AsksExist'
  BY <1>0, <1>1, SMTT(30) DEF ListenInv, AsksExist, CoresStay
<1>4. RequestIsCurrent'
  BY <1>0, <1>1 DEF ListenInv, RequestIsCurrent, CoresStay
<1>5. HandsAreOnce'
  <2>1. \A b \in cb : b \in Asks /\ b # a
    BY <1>1 DEF ListenInv, AsksExist
  <2>2. \A l \in Listeners : lis[l].pc = "send" => lis[l].a # a
    BY DEF ListenInv, HandsAreOnce
  <2> QED BY <1>0, <2>1, <2>2 DEF ListenInv, HandsAreOnce
<1>6. CommandsAreOnce'
  <2>1. ASSUME NEW l \in Listeners, NEW i \in 1 .. Len(lis[l].cmds), lis[l].cmds[i].t = "resolve"
        PROVE  lis[l].cmds[i].a # a
    <3> SUFFICES ASSUME lis[l].cmds[i].a = a PROVE FALSE
      OBVIOUS
    <3>1. ask[a].task = "resolving" /\ ask[a].lis = l
      BY <2>1 DEF ListenInv, CommandsAreOnce
    <3>2. lis[l].cmds = <<>>
      BY <3>1 DEF ListenInv, StatesExist
    <3> QED BY <3>2
  <2> QED BY <1>0, <2>1, SMTT(30) DEF ListenInv, CommandsAreOnce
<1>7. ReplaysAreFresh'
  <2>1. ASSUME NEW l \in Listeners, lis[l].pc = "resend", a \in lis[l].todo, tstate[ask[a].st] = l
        PROVE  FALSE
    <3>1. \/ ask[a].task \in {"sending", "await"}
          \/ ask[a].task = "resolving" /\ ask[a].lis = l
      BY <2>1 DEF ListenInv, ReplaysAreFresh
    <3>2. l # 0
      OBVIOUS
    <3> QED BY <2>1, <3>1, <3>2
  <2>2. \A l \in Listeners : lis[l].pc = "resend" => \A b \in lis[l].todo :
         /\ b \in Asks /\ ask'[b].task # "queued"
         /\ tstate[ask'[b].st] = l =>
              \/ ask'[b].task \in {"sending", "await"}
              \/ ask'[b].task = "resolving" /\ ask'[b].lis = l
    BY <1>1, <2>1 DEF ListenInv, ReplaysAreFresh
  <2>3. \A c \in Conns, b \in 1 .. MaxAsks : view[c][b] = "resolved" =>
         b \in Asks /\ ask'[b].task \in {"finish", "done"}
    BY DEF ListenInv, ReplaysAreFresh
  <2> QED BY <1>0, <2>2, <2>3 DEF ReplaysAreFresh
<1>8. RequestsReach'
  <2>1. \A b \in cb : b \in Asks /\ b # a
    BY <1>1 DEF ListenInv, AsksExist
  <2> QED BY <1>0, <2>1 DEF ListenInv, RequestsReach, Replaying
<1>9. SenderResolves'
  <2> SUFFICES ASSUME NEW b \in Asks, ask'[b].task # "queued", ask'[b].st = entry, Runs(ask[b].conv)'
               PROVE  HasListener' /\ (ask'[b].task = "resolving" => ask'[b].lis = tstate[entry])
    BY <1>0 DEF SenderResolves, Runs
  <2>1. ask'[b].conv = ask[b].conv /\ ask'[b].st = ask[b].st /\ ask[b].task # "queued" /\ ask[b].conv \in Convs
    BY <1>1 DEF ListenInv, AsksExist
  <2>2. Runs(ask[b].conv)
    BY <1>0, <2>1 DEF Runs, CoresStay
  <2>3. HasListener /\ (ask[b].task = "resolving" => ask[b].lis = tstate[entry])
    BY <2>1, <2>2 DEF ListenInv, SenderResolves
  <2> QED BY <1>0, <2>3 DEF HasListener
<1> QED BY <1>2, <1>3, <1>4, <1>5, <1>6, <1>7, <1>8, <1>9 DEF ListenInv

LEMMA OneAsk ==
  ASSUME TypeOK, NEW a \in Asks, NEW new \in ServerRequest, ask' = [ask EXCEPT ![a] = new]
  PROVE  /\ ask' \in Seq(ServerRequest) /\ Len(ask') = Len(ask) /\ ask'[a] = new
         /\ \A b \in Asks : b # a => ask'[b] = ask[b]
         /\ Len(ask') <= MaxAsks
BY DEF TypeOK, Asks

LEMMA AskTyped == ASSUME TypeOK, NEW a \in Asks PROVE ask[a] \in ServerRequest
BY DEF TypeOK, Asks

\* The task submits its decision, or is told that its listener ended.
LEMMA TaskEndSteps ==
  ASSUME ListenInv, NEW a \in Asks, TaskSubmit(a) \/ TaskResolveFails(a)
  PROVE  ListenInv'
<1>0. TypeOK /\ ask[a] \in ServerRequest
  BY AskTyped DEF ListenInv
<1>1. CASE TaskSubmit(a)
  <2> DEFINE new == [ask[a] EXCEPT !.task = "done"]
  <2>1. new \in ServerRequest /\ new.conv = ask[a].conv /\ new.st = ask[a].st /\ new.task = "done"
    BY <1>0 DEF ServerRequest
  <2>2. ask' = [ask EXCEPT ![a] = new] /\ ask[a].task = "finish"
    BY <1>1 DEF TaskSubmit
  <2> HIDE DEF new
  <2>3. /\ ask' \in Seq(ServerRequest) /\ Len(ask') = Len(ask) /\ ask'[a] = new
        /\ \A b \in Asks : b # a => ask'[b] = ask[b]
        /\ Len(ask') <= MaxAsks
    BY <1>0, <2>1, <2>2, OneAsk
  <2>4. AsksQueue
    BY <2>1, <2>2, <2>3 DEF AsksQueue
  <2>5. core' \in Seq(Conversation) /\ CoresStay /\ EventsAreOnce' /\ TurnsWait'
    <3>1. CASE core' = core
      BY <1>0, <2>4, <3>1, CoreSame DEF TypeOK
    <3>2. CASE core' # core
      <4> DEFINE k == ask[a].conv
                 nc == [core[k] EXCEPT !.ask = 0]
      <4>1. core' = [core EXCEPT ![k] = nc] /\ k \in Convs
        BY <1>1, <3>2 DEF TaskSubmit, ListenInv, AsksExist
      <4> HIDE DEF k
      <4>2. core[k] \in Conversation /\ Len(core[k].ev) \in Nat
        BY <1>0, <4>1, CoreTyped
      <4>3. nc \in Conversation /\ nc.ask = 0 /\ nc.ev = core[k].ev /\ nc.phase = core[k].phase
        BY <4>2 DEF Conversation
      <4> HIDE DEF nc
      <4>4. \A i \in 1 .. Len(nc.ev) : nc.ev[i].t = "ask" => i <= Len(core[k].ev) /\ nc.ev[i] = core[k].ev[i]
        BY <4>2, <4>3
      <4> QED BY <2>4, <4>1, <4>3, <4>4, ConversationChanges
    <3> QED BY <3>1, <3>2
  <2>6. watch' \in [running : BOOLEAN, pending : Nat]
    <3>1. watch \in [running : BOOLEAN, pending : Nat]
      BY <1>0 DEF TypeOK
    <3>2. watch' = [watch EXCEPT !.pending = IF @ = 0 THEN 0 ELSE @ - 1]
      BY <1>1 DEF TaskSubmit
    <3>3. (IF watch.pending = 0 THEN 0 ELSE watch.pending - 1) \in Nat
      BY <3>1
    <3> QED BY <3>1, <3>2, <3>3
  <2>7. UNCHANGED <<conv, entryVars, taskVars, cb, view>>
    BY <1>1 DEF TaskSubmit
  <2>8. TypeOK'
    BY <1>0, <2>3, <2>5, <2>6, <2>7 DEF TypeOK, entryVars, taskVars
  <2> QED BY <2>1, <2>2, <2>3, <2>5, <2>7, <2>8, AskEnds
<1>2. CASE TaskResolveFails(a)
  <2> DEFINE new == [ask[a] EXCEPT !.task = "finish", !.lis = 0]
  <2>1. new \in ServerRequest /\ new.conv = ask[a].conv /\ new.st = ask[a].st /\ new.task = "finish"
    BY <1>0 DEF ServerRequest
  <2>2. /\ ask' = [ask EXCEPT ![a] = new] /\ ask[a].task = "resolving" /\ lis[ask[a].lis].pc = "ended"
        /\ UNCHANGED <<coreVars, entryVars, taskVars, cb, view, watch>>
    BY <1>2 DEF TaskResolveFails
  <2> HIDE DEF new
  <2>3. /\ ask' \in Seq(ServerRequest) /\ Len(ask') = Len(ask) /\ ask'[a] = new
        /\ \A b \in Asks : b # a => ask'[b] = ask[b]
        /\ Len(ask') <= MaxAsks
    BY <1>0, <2>1, <2>2, OneAsk
  <2>4. AsksQueue
    BY <2>1, <2>2, <2>3 DEF AsksQueue
  <2>5. CoresStay /\ EventsAreOnce' /\ TurnsWait'
    BY <2>2, <2>4, CoreSame DEF coreVars
  <2>6. TypeOK'
    BY <1>0, <2>2, <2>3 DEF TypeOK, coreVars, entryVars, taskVars
  <2> QED BY <2>1, <2>2, <2>3, <2>5, <2>6, AskEnds DEF coreVars
<1> QED BY <1>1, <1>2

\* Nothing but listener l changes, and it stays the listener of what it was.
Rest(l) ==
  /\ Len(lis') = Len(lis)
  /\ \A m \in Listeners : m # l => lis'[m] = lis[m]
  /\ lis'[l].conv = lis[l].conv /\ lis'[l].st = lis[l].st /\ lis'[l].entry = lis[l].entry

\* The first n commands of listener l are taken, and resumes of connections added.
Takes(l, n) ==
  \A i \in 1 .. Len(lis'[l].cmds) :
    \/ lis'[l].cmds[i].t = "resume" /\ lis'[l].cmds[i].c \in Conns
    \/ i + n <= Len(lis[l].cmds) /\ lis'[l].cmds[i] = lis[l].cmds[i + n]

LEMMA LisTyped ==
  ASSUME TypeOK, NEW l \in Listeners
  PROVE  lis[l] \in Listener /\ lis[l].cmds \in Seq(Command) /\ Len(lis[l].cmds) \in Nat
<1>1. lis[l] \in Listener
  BY DEF TypeOK, Listeners
<1> QED BY <1>1 DEF Listener

LEMMA OneLis ==
  ASSUME TypeOK, NEW l \in Listeners, NEW new \in Listener, lis' = [lis EXCEPT ![l] = new],
         new.conv = lis[l].conv, new.st = lis[l].st, new.entry = lis[l].entry
  PROVE  lis' \in Seq(Listener) /\ lis'[l] = new /\ Rest(l)
BY DEF TypeOK, Listeners, Rest

\* What exists, when listener l moves.
LEMMA RestStates ==
  ASSUME ListenInv, NEW l \in Listeners, Rest(l), NEW n \in Nat, Takes(l, n), TypeOK',
         lis[l].pc # "ended", lis'[l].pc # "ended",
         lis'[l].pc \in {"resume", "replay", "resend"} => lis'[l].conn \in Conns,
         UNCHANGED <<tstate, entry, conv, unloader>>, Len(core') = Len(core)
  PROVE  StatesExist' /\ Listeners' = Listeners
<1> USE DEF Listeners, Convs
<1>1. \A s \in 1 .. Len(tstate) :
         tstate[s] # 0 => tstate[s] \in Listeners /\ lis'[tstate[s]].st = s /\ lis'[tstate[s]].pc # "ended"
  BY DEF ListenInv, StatesExist, Rest
<1>2. ASSUME NEW m \in Listeners
      PROVE  /\ lis'[m].conv \in Convs /\ lis'[m].st \in 1 .. Len(tstate)
             /\ lis'[m].pc \in {"resume", "replay", "resend"} => lis'[m].conn \in Conns
             /\ lis'[m].pc = "ended" => lis'[m].cmds = <<>>
  BY <1>2 DEF ListenInv, StatesExist, Rest
<1>3. ASSUME NEW m \in Listeners, NEW i \in 1 .. Len(lis'[m].cmds), lis'[m].cmds[i].t = "resume"
      PROVE  lis'[m].cmds[i].c \in Conns
  <2>1. CASE m # l
    BY <1>3, <2>1 DEF ListenInv, StatesExist, Rest
  <2>2. CASE m = l
    <3>1. Len(lis[l].cmds) \in Nat
      BY LisTyped DEF ListenInv
    <3>2. Len(lis'[l].cmds) \in Nat
      <4>1. lis'[l] \in Listener
        BY DEF TypeOK, Rest
      <4> QED BY <4>1 DEF Listener
    <3>3. CASE i + n <= Len(lis[l].cmds) /\ lis'[l].cmds[i] = lis[l].cmds[i + n]
      <4>1. i + n \in 1 .. Len(lis[l].cmds)
        BY <3>1, <3>2, <3>3, <2>2
      <4> QED BY <1>3, <2>2, <3>3, <4>1, SMTT(30) DEF ListenInv, StatesExist
    <3> QED BY <1>3, <2>2, <3>3 DEF Takes
  <2> QED BY <2>1, <2>2
<1> QED BY <1>1, <1>2, <1>3 DEF ListenInv, StatesExist, Rest

\* The thread's listener stays when listener l moves.
LEMMA RestOne ==
  ASSUME ListenInv, NEW l \in Listeners, Rest(l), lis[l].pc # "ended", lis'[l].pc # "ended",
         lis'[l].cancel = lis[l].cancel, UNCHANGED <<tstate, entry>>
  PROVE  OneListener'
<1> USE DEF Listeners
<1>1. \A m \in Listeners : /\ lis'[m].cancel = lis[m].cancel /\ lis'[m].st = lis[m].st /\ lis'[m].entry = lis[m].entry
                          /\ (lis'[m].pc = "ended" <=> lis[m].pc = "ended")
  BY DEF Rest
<1>2. Len(lis') = Len(lis)
  BY DEF Rest
<1> SUFFICES ASSUME entry # 0
             PROVE  /\ tstate[entry] # 0 => /\ ~lis'[tstate[entry]].cancel
                                            /\ lis'[tstate[entry]].pc # "ended"
                                            /\ lis'[tstate[entry]].entry = entry
                    /\ \A m \in Listeners :
                         lis'[m].st = entry /\ ~lis'[m].cancel /\ lis'[m].pc # "ended" => tstate[entry] = m
  BY <1>2 DEF OneListener
<1>3. tstate[entry] # 0 => tstate[entry] \in Listeners
  BY DEF ListenInv, StatesExist
<1> QED BY <1>1, <1>3 DEF ListenInv, OneListener

LEMMA RestRequest ==
  ASSUME ListenInv, NEW l \in Listeners, Rest(l), UNCHANGED <<req, tstate, conv>>, Len(core') = Len(core),
         Len(ask') = Len(ask), \A a \in Asks : ask'[a].conv = ask[a].conv,
         \A a \in Asks : ask[a].task = "queued" /\ ask'[a].task # "queued" => ask[a].conv = lis[l].conv
  PROVE  RequestIsCurrent'
BY DEF ListenInv, RequestIsCurrent, Rest, Listeners, Convs, Asks

\* The commands of l are taken in order; requests that are being resolved stay.
LEMMA RestCommands ==
  ASSUME ListenInv, TypeOK', NEW l \in Listeners, Rest(l), NEW n \in Nat, Takes(l, n), Len(ask') = Len(ask),
         \A a \in Asks : ask[a].task = "resolving" =>
           \/ ask'[a].task = "resolving" /\ ask'[a].lis = ask[a].lis
           \/ n = 1 /\ Len(lis[l].cmds) > 0 /\ lis[l].cmds[1].t = "resolve" /\ lis[l].cmds[1].a = a
  PROVE  CommandsAreOnce'
<1>4. Listeners' = Listeners /\ Asks' = Asks
  BY DEF Rest, Listeners, Asks
<1> SUFFICES ASSUME NEW m \in Listeners, NEW i \in 1 .. Len(lis'[m].cmds), lis'[m].cmds[i].t = "resolve",
                    NEW a, a = lis'[m].cmds[i].a
             PROVE  /\ a \in Asks /\ ask'[a].task = "resolving" /\ ask'[a].lis = m
                    /\ \A j \in 1 .. Len(lis'[m].cmds) :
                         lis'[m].cmds[j].t = "resolve" /\ lis'[m].cmds[j].a = a => j = i
  BY <1>4 DEF CommandsAreOnce
<1> USE DEF Listeners, Asks
<1> DEFINE Cmds(q, p, x) ==
       /\ q[x].a \in Asks /\ ask[q[x].a].task = "resolving" /\ ask[q[x].a].lis = p
       /\ \A j \in 1 .. Len(q) : q[j].t = "resolve" /\ q[j].a = q[x].a => j = x
<1>1. \A p \in Listeners : \A x \in 1 .. Len(lis[p].cmds) : lis[p].cmds[x].t = "resolve" => Cmds(lis[p].cmds, p, x)
  BY DEF ListenInv, CommandsAreOnce
<1>2. Len(lis[l].cmds) \in Nat /\ Len(lis'[l].cmds) \in Nat
  <2>1. lis'[l] \in Listener
    BY DEF TypeOK, Rest
  <2> QED BY <2>1, LisTyped, SMTT(30) DEF Listener, ListenInv
<1>3. /\ a \in Asks /\ ask'[a].task = "resolving" /\ ask'[a].lis = m
      /\ \A j \in 1 .. Len(lis'[m].cmds) : lis'[m].cmds[j].t = "resolve" /\ lis'[m].cmds[j].a = a => j = i
  <2>1. CASE m # l
    <3>1. lis'[m] = lis[m]
      BY <2>1 DEF Rest
    <3>2. Cmds(lis[m].cmds, m, i)
      BY <1>1, <3>1, SMTT(30)
    <3>3. a \in Asks /\ ask[a].task = "resolving" /\ ask[a].lis = m
      BY <3>1, <3>2
    <3>4. ASSUME Len(lis[l].cmds) > 0, lis[l].cmds[1].t = "resolve", lis[l].cmds[1].a = a
          PROVE  FALSE
      <4>1. 1 \in 1 .. Len(lis[l].cmds)
        BY <3>4, <1>2
      <4>2. Cmds(lis[l].cmds, l, 1)
        BY <1>1, <3>4, <4>1
      <4> QED BY <2>1, <3>3, <3>4, <4>2
    <3> QED BY <3>1, <3>2, <3>3, <3>4
  <2>2. CASE m = l
    <3>1. i + n \in 1 .. Len(lis[l].cmds) /\ lis'[l].cmds[i] = lis[l].cmds[i + n]
      <4>1. i \in 1 .. Len(lis'[l].cmds) /\ lis'[l].cmds[i].t = "resolve"
        BY <2>2
      <4>2. i + n <= Len(lis[l].cmds) /\ lis'[l].cmds[i] = lis[l].cmds[i + n]
        BY <4>1 DEF Takes
      <4> QED BY <1>2, <4>1, <4>2
    <3>2. Cmds(lis[l].cmds, l, i + n)
      BY <1>1, <2>2, <3>1
    <3>3. a = lis[l].cmds[i + n].a
      BY <2>2, <3>1
    <3>4. /\ a \in Asks /\ ask[a].task = "resolving" /\ ask[a].lis = l
          /\ \A j \in 1 .. Len(lis[l].cmds) : lis[l].cmds[j].t = "resolve" /\ lis[l].cmds[j].a = a => j = i + n
      BY <3>2, <3>3
    <3> HIDE DEF Cmds
    <3>5. ASSUME NEW j \in 1 .. Len(lis'[l].cmds), lis'[l].cmds[j].t = "resolve", lis'[l].cmds[j].a = a
          PROVE  j = i
      <4>1. j + n \in 1 .. Len(lis[l].cmds) /\ lis'[l].cmds[j] = lis[l].cmds[j + n]
        <5>1. j + n <= Len(lis[l].cmds) /\ lis'[l].cmds[j] = lis[l].cmds[j + n]
          BY <3>5 DEF Takes
        <5> QED BY <1>2, <3>5, <5>1
      <4>2. j + n = i + n
        BY <3>4, <3>5, <4>1
      <4> QED BY <4>2
    <3>6. ASSUME n = 1, Len(lis[l].cmds) > 0, lis[l].cmds[1].t = "resolve", lis[l].cmds[1].a = a
          PROVE  FALSE
      <4>1. 1 \in 1 .. Len(lis[l].cmds)
        BY <3>6, <1>2
      <4>2. 1 = i + n
        BY <3>4, <3>6, <4>1
      <4> QED BY <3>6, <4>2
    <3> QED BY <2>2, <3>4, <3>5, <3>6
  <2> QED BY <2>1, <2>2
<1> HIDE DEF Cmds
<1> QED BY <1>3

\* The listener that sent a request stays when listener l moves.
LEMMA RestSender ==
  ASSUME ListenInv, NEW l \in Listeners, Rest(l), UNCHANGED <<tstate, entry, conv>>, CoresStay,
         Len(ask') = Len(ask),
         \A a \in Asks :
           /\ ask'[a].conv = ask[a].conv
           /\ ask[a].task # "queued" => ask'[a].st = ask[a].st
           /\ ask'[a].task # "queued" /\ ask[a].task = "queued" =>
                /\ ask[a].conv = lis[l].conv /\ ask'[a].st = lis[l].st
                /\ lis[l].st = entry => tstate[entry] = l
           /\ ask'[a].task = "resolving" => ask[a].task = "resolving" /\ ask'[a].lis = ask[a].lis
  PROVE  SenderResolves'
<1> USE DEF Listeners, Asks, Convs
<1> SUFFICES ASSUME NEW a \in Asks, ask'[a].task # "queued", ask'[a].st = entry, Runs(ask[a].conv)'
             PROVE  HasListener' /\ (ask'[a].task = "resolving" => ask'[a].lis = tstate[entry])
  BY DEF SenderResolves, Runs
<1>1. ask[a].conv \in Convs /\ ask'[a].conv = ask[a].conv
  BY DEF ListenInv, AsksExist
<1>2. Runs(ask[a].conv)
  BY <1>1 DEF Runs, CoresStay
<1>3. \A m \in Listeners : lis'[m].conv = lis[m].conv
  BY DEF Rest
<1>4. \A s \in 1 .. Len(tstate) : tstate[s] # 0 => tstate[s] \in Listeners
  BY DEF ListenInv, StatesExist
<1>5. CASE ask[a].task # "queued"
  <2>1. HasListener /\ (ask[a].task = "resolving" => ask[a].lis = tstate[entry])
    BY <1>2, <1>5 DEF ListenInv, SenderResolves
  <2>2. tstate[entry] \in Listeners
    BY <2>1, <1>4 DEF HasListener, ListenInv, StatesExist
  <2>3. HasListener'
    BY <2>1, <2>2, <1>3 DEF HasListener
  <2> QED BY <2>1, <2>3
<1>6. CASE ask[a].task = "queued"
  <2>1. ask[a].conv = lis[l].conv /\ entry = lis[l].st /\ tstate[entry] = l
    BY <1>6
  <2>2. entry # 0 /\ tstate[entry] # 0 /\ conv = lis[l].conv
    BY <2>1, <1>2 DEF ListenInv, StatesExist, Runs
  <2>3. HasListener'
    BY <2>1, <2>2, <1>3 DEF HasListener
  <2> QED BY <1>6, <2>3
<1> QED BY <1>5, <1>6

\* What a listener does to server requests: it is done sending the one in its
\* hands, or resolves the one its first command names.
AsksMove(l, n) ==
  /\ Len(ask') = Len(ask)
  /\ \A a \in Asks :
       /\ ask'[a].conv = ask[a].conv /\ ask'[a].st = ask[a].st
       /\ ask'[a].result = ask[a].result \/ a \in cb \ cb'
       /\ \/ ask'[a].task = ask[a].task /\ ask'[a].lis = ask[a].lis
          \/ /\ ask[a].task = "sending" /\ ask'[a].task = "await"
             /\ lis[l].pc = "send" /\ lis[l].a = a /\ lis'[l].pc = "idle"
          \/ /\ ask[a].task = "resolving" /\ ask'[a].task = "finish"
             /\ n = 1 /\ Len(lis[l].cmds) > 0 /\ lis[l].cmds[1].t = "resolve" /\ lis[l].cmds[1].a = a
             /\ lis[l].pc = "idle" /\ lis'[l].pc = "idle"

\* What it tells connections: requests it shows, and the one it resolved.
ViewsMove ==
  \A c \in Conns, a \in 1 .. MaxAsks :
    /\ view'[c][a] = "new" => view[c][a] = "new"
    /\ view'[c][a] = "resolved" => view[c][a] = "resolved" \/ (a \in Asks /\ ask'[a].task = "finish")

\* Whom it still has to show a request to.
Shows(l, c, a) ==
  \/ lis[l].conn = c /\ (lis[l].pc = "replay" \/ (lis[l].pc = "resend" /\ a \in lis[l].todo))
  \/ lis[l].pc = "send" /\ lis[l].a = a /\ c \in lis[l].ids

LEMMA ReachByShows ==
  ASSUME NEW c \in Conns, NEW a
  PROVE  (Replaying(c, a) \/ \E l \in Listeners : lis[l].pc = "send" /\ lis[l].a = a /\ c \in lis[l].ids)
           <=> \E l \in Listeners : Shows(l, c, a)
BY DEF Replaying, Shows

\* Whoever follows the thread and was not sent a request is about to be shown it.
LEMMA SomebodyShows ==
  ASSUME ListenInv, NEW c \in subs, NEW a \in cb, ask[a].conv = conv, view[c][a] = "new"
  PROVE  \E m \in Listeners : Shows(m, c, a)
<1>1. RequestsReach /\ c \in Conns
  BY DEF ListenInv, TypeOK
<1>2. Replaying(c, a) \/ \E l \in Listeners : lis[l].pc = "send" /\ lis[l].a = a /\ c \in lis[l].ids
  BY <1>1 DEF RequestsReach
<1> QED BY <1>1, <1>2, ReachByShows

LEMMA FirstCommand ==
  ASSUME ListenInv, NEW l \in Listeners, Len(lis[l].cmds) > 0, lis[l].cmds[1].t = "resolve"
  PROVE  /\ lis[l].cmds[1].a \in Asks /\ ask[lis[l].cmds[1].a].task = "resolving"
         /\ ask[lis[l].cmds[1].a].lis = l
<1>1. 1 \in 1 .. Len(lis[l].cmds)
  BY LisTyped DEF ListenInv
<1> QED BY <1>1 DEF ListenInv, CommandsAreOnce

\* A step of listener l that leaves the thread's state as it is.
LEMMA ListenerMove ==
  ASSUME ListenInv, TypeOK', CoresStay, EventsAreOnce', TurnsWait', RequestIsCurrent', UnloadSparesSubscribers',
         NEW l \in Listeners, Rest(l), NEW n \in Nat, Takes(l, n),
         lis[l].pc # "ended", lis'[l].pc # "ended", lis'[l].cancel = lis[l].cancel,
         lis'[l].pc \in {"resume", "replay", "resend"} => lis'[l].conn \in Conns,
         UNCHANGED <<conv, entry, tstate, unloader>>, cb' \subseteq cb,
         AsksMove(l, n), ViewsMove,
         lis'[l].pc = "send" => lis[l].pc = "send" /\ lis'[l].a = lis[l].a,
         lis'[l].pc = "resend" => lis'[l].todo \subseteq cb' \/ (lis[l].pc = "resend" /\ lis'[l].todo \subseteq lis[l].todo),
         \A c \in subs' \ subs : lis'[l].pc = "replay" /\ lis'[l].conn = c,
         \A c \in subs', a \in cb' : Shows(l, c, a) => Shows(l, c, a)' \/ view'[c][a] # "new"
  PROVE  ListenInv'
<1> USE DEF Listeners, Asks
<1>1. StatesExist' /\ Listeners' = Listeners
  BY RestStates DEF CoresStay
<1>2. OneListener'
  BY RestOne
<1>3. Asks' = Asks /\ Convs' = Convs
  BY DEF AsksMove, CoresStay, Convs
<1>4. CommandsAreOnce'
  BY RestCommands DEF AsksMove
<1>5. SenderResolves'
  BY RestSender DEF AsksMove
<1>6. AsksExist'
  <2>1. cb' \subseteq Asks
    BY DEF ListenInv, AsksExist
  <2>2. ASSUME NEW a \in Asks
        PROVE  /\ ask'[a].conv \in Convs
               /\ IF ask'[a].task = "queued" THEN ask'[a].result = "none" ELSE ask'[a].st \in 1 .. Len(tstate)
               /\ ask'[a].task = "resolving" => ask'[a].lis \in Listeners
    <3>1. /\ ask[a].conv \in Convs
          /\ IF ask[a].task = "queued" THEN ask[a].result = "none" ELSE ask[a].st \in 1 .. Len(tstate)
          /\ ask[a].task = "resolving" => ask[a].lis \in Listeners
          /\ ask[a].task = "queued" => a \notin cb
      BY DEF ListenInv, AsksExist, HandsAreOnce
    <3> QED BY <3>1 DEF AsksMove
  <2> QED BY <1>1, <1>3, <2>1, <2>2 DEF AsksExist
<1>7. HandsAreOnce'
  <2>1. ASSUME NEW a \in cb' PROVE ask'[a].task \in {"sending", "await"} /\ ask'[a].result = "none"
    BY DEF ListenInv, HandsAreOnce, AsksExist, AsksMove
  <2>2. ASSUME NEW m \in Listeners, lis'[m].pc = "send"
        PROVE  /\ lis[m].pc = "send" /\ lis'[m].a = lis[m].a
    BY <2>2 DEF Rest
  <2>3. ASSUME NEW m \in Listeners, lis'[m].pc = "send"
        PROVE  /\ lis'[m].a \in Asks /\ ask'[lis'[m].a].task = "sending"
               /\ \A p \in Listeners : lis'[p].pc = "send" /\ lis'[p].a = lis'[m].a => p = m
    <3> DEFINE a == lis[m].a
    <3>1. lis[m].pc = "send" /\ lis'[m].a = a
      BY <2>2, <2>3
    <3>2. /\ a \in Asks /\ ask[a].task = "sending"
          /\ \A p \in Listeners : lis[p].pc = "send" /\ lis[p].a = a => p = m
      BY <3>1 DEF ListenInv, HandsAreOnce
    <3>3. ask'[a].task = "sending"
      <4>1. ~(lis[l].pc = "send" /\ lis[l].a = a /\ lis'[l].pc = "idle")
        BY <2>3, <3>2
      <4> HIDE DEF a
      <4> QED BY <3>2, <4>1 DEF AsksMove
    <3> QED BY <2>2, <3>1, <3>2, <3>3
  <2> QED BY <1>1, <1>3, <2>1, <2>3 DEF HandsAreOnce
<1>8. ReplaysAreFresh'
  <2>1. ASSUME NEW m \in Listeners, lis'[m].pc = "resend", NEW a \in lis'[m].todo
        PROVE  /\ a \in Asks /\ ask'[a].task # "queued"
               /\ tstate[ask'[a].st] = m =>
                     \/ ask'[a].task \in {"sending", "await"}
                     \/ ask'[a].task = "resolving" /\ ask'[a].lis = m
    <3>1. \/ a \in cb'
          \/ lis[m].pc = "resend" /\ a \in lis[m].todo
      BY <2>1 DEF Rest
    <3>2. CASE a \in cb'
      BY <3>2 DEF ListenInv, HandsAreOnce, AsksExist, AsksMove
    <3>3. CASE lis[m].pc = "resend" /\ a \in lis[m].todo
      <4>1. /\ a \in Asks /\ ask[a].task # "queued"
            /\ tstate[ask[a].st] = m =>
                  \/ ask[a].task \in {"sending", "await"}
                  \/ ask[a].task = "resolving" /\ ask[a].lis = m
        BY <3>3 DEF ListenInv, ReplaysAreFresh
      <4>2. ASSUME Len(lis[l].cmds) > 0, lis[l].cmds[1].t = "resolve", lis[l].cmds[1].a = a,
                   lis[l].pc = "idle"
            PROVE  ask[a].lis # m
        BY <4>2, <3>3, FirstCommand
      <4> QED BY <4>1, <4>2 DEF AsksMove
    <3> QED BY <3>1, <3>2, <3>3
  <2>2. \A c \in Conns, a \in 1 .. MaxAsks : view'[c][a] = "resolved" =>
         a \in Asks /\ ask'[a].task \in {"finish", "done"}
    <3> SUFFICES ASSUME NEW c \in Conns, NEW a \in 1 .. MaxAsks, view'[c][a] = "resolved"
                 PROVE  a \in Asks /\ ask'[a].task \in {"finish", "done"}
      OBVIOUS
    <3>1. view[c][a] = "resolved" \/ (a \in Asks /\ ask'[a].task = "finish")
      BY DEF ViewsMove
    <3>2. view[c][a] = "resolved" => a \in Asks /\ ask[a].task \in {"finish", "done"}
      BY DEF ListenInv, ReplaysAreFresh
    <3> QED BY <3>1, <3>2 DEF AsksMove
  <2> QED BY <1>1, <1>3, <2>1, <2>2 DEF ReplaysAreFresh
<1>9. RequestsReach'
  <2> SUFFICES ASSUME NEW c \in subs', NEW a \in cb', ask'[a].conv = conv, view'[c][a] = "new"
               PROVE  \E m \in Listeners : Shows(m, c, a)'
    <3>1. subs' \subseteq Conns
      BY DEF TypeOK
    <3> QED BY <1>1, <3>1, ReachByShows DEF RequestsReach, Replaying, Shows
  <2>1. c \in Conns /\ a \in Asks /\ a \in 1 .. MaxAsks /\ a \in cb
    <3>1. c \in Conns /\ a \in Asks
      BY DEF TypeOK, ListenInv, AsksExist
    <3> QED BY <3>1, AskRange DEF ListenInv
  <2>2. view[c][a] = "new" /\ ask[a].conv = conv
    BY <2>1 DEF ViewsMove, AsksMove
  <2>3. CASE c \in subs
    <3>1. \E m \in Listeners : Shows(m, c, a)
      BY <2>1, <2>2, <2>3, SomebodyShows
    <3>2. PICK m \in Listeners : Shows(m, c, a)
      BY <3>1
    <3>3. CASE m = l
      BY <3>2, <3>3
    <3>4. CASE m # l
      BY <3>2, <3>4 DEF Rest, Shows
    <3> QED BY <3>3, <3>4
  <2>4. CASE c \notin subs
    BY <2>4 DEF Shows
  <2> QED BY <2>3, <2>4
<1> QED BY <1>1, <1>2, <1>4, <1>5, <1>6, <1>7, <1>8, <1>9 DEF ListenInv

LEMMA MoveQueue == ASSUME NEW l, NEW n, AsksMove(l, n) PROVE AsksQueue
BY DEF AsksMove, AsksQueue

LEMMA StayMove == ASSUME AsksStay, NEW l, NEW n PROVE AsksMove(l, n)
BY DEF AsksMove, AsksStay

\* Listener l becomes new and conversations and client requests stay.
LEMMA ListenerGoes ==
  ASSUME ListenInv, NEW l \in Listeners, NEW new \in Listener, lis' = [lis EXCEPT ![l] = new],
         new.conv = lis[l].conv, new.st = lis[l].st, new.entry = lis[l].entry, new.cancel = lis[l].cancel,
         lis[l].pc # "ended", new.pc # "ended",
         new.pc \in {"resume", "replay", "resend"} => new.conn \in Conns,
         NEW n \in Nat, Takes(l, n),
         UNCHANGED <<conv, core, live, entry, tstate, req, requests, closer, unloader, watch>>,
         subs' \subseteq Conns, cb' \subseteq cb, unloads' \in BOOLEAN, UnloadSparesSubscribers',
         view' \in [Conns -> [1 .. MaxAsks -> {"new", "shown", "left", "resolved"}]],
         ask' \in Seq(ServerRequest), AsksMove(l, n), ViewsMove,
         new.pc = "send" => lis[l].pc = "send" /\ new.a = lis[l].a,
         new.pc = "resend" => new.todo \subseteq cb' \/ (lis[l].pc = "resend" /\ new.todo \subseteq lis[l].todo),
         \A c \in subs' \ subs : new.pc = "replay" /\ new.conn = c,
         \A c \in subs', a \in cb' : Shows(l, c, a) => Shows(l, c, a)' \/ view'[c][a] # "new"
  PROVE  ListenInv'
<1>0. TypeOK
  BY DEF ListenInv
<1>1. lis' \in Seq(Listener) /\ lis'[l] = new /\ Rest(l)
  BY <1>0, OneLis
<1>2. TypeOK'
  <2>1. cb' \subseteq Nat /\ Len(ask') <= MaxAsks
    BY <1>0 DEF TypeOK, AsksMove
  <2> QED BY <1>0, <1>1, <2>1 DEF TypeOK
<1>3. CoresStay /\ EventsAreOnce' /\ TurnsWait'
  BY MoveQueue, CoreSame
<1>4. RequestIsCurrent'
  <2>1. Len(ask') = Len(ask) /\ \A a \in Asks : ask'[a].conv = ask[a].conv /\ (ask[a].task = "queued" => ask'[a].task = "queued")
    BY DEF AsksMove
  <2> QED BY <1>1, <2>1, RestRequest
<1> QED BY <1>1, <1>2, <1>3, <1>4, ListenerMove

LEMMA TailTyped ==
  ASSUME NEW S, NEW s \in Seq(S), s # <<>>
  PROVE  /\ Head(s) \in S /\ Tail(s) \in Seq(S) /\ Len(Tail(s)) = Len(s) - 1 /\ Len(s) \in Nat /\ Len(s) > 0
         /\ Head(s) = s[1]
         /\ \A i \in 1 .. Len(Tail(s)) : i + 1 <= Len(s) /\ Tail(s)[i] = s[i + 1]
OBVIOUS

\* Its commands are as they were, or it took the first.
LEMMA TakesNone ==
  ASSUME TypeOK, NEW l \in Listeners, lis'[l].cmds = lis[l].cmds
  PROVE  Takes(l, 0)
<1>1. Len(lis[l].cmds) \in Nat
  BY LisTyped
<1> QED BY <1>1 DEF Takes

LEMMA TakesOne ==
  ASSUME TypeOK, NEW l \in Listeners, lis[l].cmds # <<>>, lis'[l].cmds = Tail(lis[l].cmds)
  PROVE  Takes(l, 1)
<1>1. lis[l].cmds \in Seq(Command)
  BY LisTyped
<1>2. \A i \in 1 .. Len(Tail(lis[l].cmds)) : i + 1 <= Len(lis[l].cmds) /\ Tail(lis[l].cmds)[i] = lis[l].cmds[i + 1]
  BY <1>1, TailTyped
<1> QED BY <1>2 DEF Takes

\* Nothing is said to connections.
LEMMA ViewsSame == ASSUME UNCHANGED view PROVE ViewsMove
BY DEF ViewsMove

LEMMA SelectTyped ==
  ASSUME NEW r \in Listener
  PROVE  LET new == [r EXCEPT !.pc = "idle", !.conn = 0, !.a = 0] IN
         /\ new \in Listener /\ new.pc = "idle" /\ new.conv = r.conv /\ new.st = r.st /\ new.entry = r.entry
         /\ new.cancel = r.cancel /\ new.cmds = r.cmds
BY DEF Listener

LEMMA GotoTyped ==
  ASSUME NEW r \in Listener, NEW pc \in {"idle", "resume", "replay", "resend", "send", "unload", "forget", "ended"}
  PROVE  LET new == [r EXCEPT !.pc = pc] IN
         /\ new \in Listener /\ new.pc = pc /\ new.conv = r.conv /\ new.st = r.st /\ new.entry = r.entry
         /\ new.cancel = r.cancel /\ new.cmds = r.cmds /\ new.conn = r.conn /\ new.todo = r.todo
BY DEF Listener

LEMMA ListenerIs ==
  ASSUME TypeOK, NEW l \in Listeners, NEW new, lis' = [lis EXCEPT ![l] = new]
  PROVE  lis'[l] = new
BY DEF TypeOK, Listeners

\* A resume is taken from the commands, the replay reads the pending requests,
\* the unload is due, or is given up, or marks the thread.
LEMMA ListenerTurns ==
  ASSUME ListenInv, NEW l \in Listeners, TakeResume(l) \/ ReplaySnapshot(l) \/ UnloadDue(l) \/ UnloadMark(l)
  PROVE  ListenInv'
<1>0. /\ TypeOK /\ lis[l] \in Listener /\ lis[l].cmds \in Seq(Command) /\ UnloadSparesSubscribers
      /\ subs \subseteq Conns /\ unloads \in BOOLEAN /\ ask \in Seq(ServerRequest)
      /\ view \in [Conns -> [1 .. MaxAsks -> {"new", "shown", "left", "resolved"}]]
      /\ lis[l].pc \in {"resume", "replay", "resend"} => lis[l].conn \in Conns
  BY LisTyped DEF ListenInv, TypeOK, StatesExist
<1>1. CASE TakeResume(l)
  <2> DEFINE new == [lis[l] EXCEPT !.pc = "resume", !.conn = Head(lis[l].cmds).c, !.cmds = Tail(lis[l].cmds)]
  <2>1. /\ UNCHANGED <<conv, core, live, entry, subs, tstate, req, requests, closer, unloader, unloads, watch, cb, ask, view>>
        /\ lis[l].pc = "idle" /\ lis[l].cmds # <<>> /\ Head(lis[l].cmds).t = "resume"
    BY <1>1 DEF TakeResume, AtSelect, coreVars, taskVars, askVars
  <2>2. lis' = [lis EXCEPT ![l] = new]
    BY <1>1 DEF TakeResume
  <2>3. Tail(lis[l].cmds) \in Seq(Command) /\ Head(lis[l].cmds).c \in Conns
    <3>1. 1 \in 1 .. Len(lis[l].cmds) /\ Head(lis[l].cmds) = lis[l].cmds[1]
      BY <1>0, <2>1, TailTyped
    <3>2. Head(lis[l].cmds).c \in Conns
      BY <2>1, <3>1 DEF ListenInv, StatesExist
    <3> QED BY <1>0, <2>1, <3>2, TailTyped
  <2>4. /\ new \in Listener /\ new.pc = "resume" /\ new.conv = lis[l].conv /\ new.st = lis[l].st
        /\ new.entry = lis[l].entry /\ new.cancel = lis[l].cancel /\ new.cmds = Tail(lis[l].cmds)
        /\ new.conn \in Conns
    BY <1>0, <2>3 DEF Listener
  <2> HIDE DEF new
  <2>5. Takes(l, 1)
    BY <1>0, <2>1, <2>2, <2>4, ListenerIs, TakesOne
  <2>6. AsksMove(l, 1) /\ ViewsMove /\ UnloadSparesSubscribers'
    BY <1>0, <2>1, AskSame, StayMove, ViewsSame DEF UnloadSparesSubscribers
  <2>7. \A c \in subs', a \in cb' : ~Shows(l, c, a)
    BY <2>1 DEF Shows
  <2> QED BY <1>0, <2>1, <2>2, <2>4, <2>5, <2>6, <2>7, ListenerGoes
<1>2. CASE ReplaySnapshot(l)
  <2> DEFINE new == [lis[l] EXCEPT !.pc = "resend", !.todo = cb]
  <2>1. /\ UNCHANGED <<conv, core, live, entry, subs, tstate, req, requests, closer, unloader, unloads, watch, cb, ask, view>>
        /\ lis[l].pc = "replay" /\ lis' = [lis EXCEPT ![l] = new]
    BY <1>2 DEF ReplaySnapshot, coreVars, taskVars, askVars
  <2>2. /\ new \in Listener /\ new.pc = "resend" /\ new.conv = lis[l].conv /\ new.st = lis[l].st
        /\ new.entry = lis[l].entry /\ new.cancel = lis[l].cancel /\ new.cmds = lis[l].cmds
        /\ new.conn = lis[l].conn /\ new.todo = cb
    BY <1>0 DEF Listener, TypeOK
  <2> HIDE DEF new
  <2>3. lis'[l] = new
    BY <1>0, <2>1, ListenerIs
  <2>4. Takes(l, 0)
    BY <1>0, <2>2, <2>3, TakesNone
  <2>5. AsksMove(l, 0) /\ ViewsMove /\ UnloadSparesSubscribers'
    BY <1>0, <2>1, AskSame, StayMove, ViewsSame DEF UnloadSparesSubscribers
  <2>6. \A c \in subs', a \in cb' : Shows(l, c, a) => Shows(l, c, a)'
    BY <2>1, <2>2, <2>3 DEF Shows
  <2> QED BY <1>0, <2>1, <2>2, <2>4, <2>5, <2>6, ListenerGoes
<1>3. CASE UnloadDue(l)
  <2> DEFINE new == [lis[l] EXCEPT !.pc = "unload"]
  <2>1. /\ UNCHANGED <<conv, core, live, entry, subs, tstate, req, requests, closer, unloader, unloads, watch, cb, ask, view>>
        /\ lis[l].pc = "idle" /\ lis' = [lis EXCEPT ![l] = new]
    BY <1>3 DEF UnloadDue, AtSelect, Goto, coreVars, taskVars, askVars
  <2>2. /\ new \in Listener /\ new.pc = "unload" /\ new.conv = lis[l].conv /\ new.st = lis[l].st
        /\ new.entry = lis[l].entry /\ new.cancel = lis[l].cancel /\ new.cmds = lis[l].cmds
    BY <1>0, GotoTyped
  <2> HIDE DEF new
  <2>3. Takes(l, 0)
    BY <1>0, <2>1, <2>2, ListenerIs, TakesNone
  <2>4. AsksMove(l, 0) /\ ViewsMove /\ UnloadSparesSubscribers'
    BY <1>0, <2>1, AskSame, StayMove, ViewsSame DEF UnloadSparesSubscribers
  <2>5. \A c \in subs', a \in cb' : ~Shows(l, c, a)
    BY <2>1 DEF Shows
  <2> QED BY <1>0, <2>1, <2>2, <2>3, <2>4, <2>5, ListenerGoes
<1>4. CASE UnloadMark(l) /\ (unloads \/ subs # {} \/ Active)
  <2> DEFINE new == [lis[l] EXCEPT !.pc = "idle", !.conn = 0, !.a = 0]
  <2>1. /\ UNCHANGED <<conv, core, live, entry, subs, tstate, req, requests, closer, unloader, unloads, watch, cb, ask, view>>
        /\ lis[l].pc = "unload" /\ lis' = [lis EXCEPT ![l] = new]
    BY <1>4 DEF UnloadMark, Select, coreVars, taskVars, askVars
  <2>2. /\ new \in Listener /\ new.pc = "idle" /\ new.conv = lis[l].conv /\ new.st = lis[l].st
        /\ new.entry = lis[l].entry /\ new.cancel = lis[l].cancel /\ new.cmds = lis[l].cmds
    BY <1>0, SelectTyped
  <2> HIDE DEF new
  <2>3. Takes(l, 0)
    BY <1>0, <2>1, <2>2, ListenerIs, TakesNone
  <2>4. AsksMove(l, 0) /\ ViewsMove /\ UnloadSparesSubscribers'
    BY <1>0, <2>1, AskSame, StayMove, ViewsSame DEF UnloadSparesSubscribers
  <2>5. \A c \in subs', a \in cb' : ~Shows(l, c, a)
    BY <2>1 DEF Shows
  <2> QED BY <1>0, <2>1, <2>2, <2>3, <2>4, <2>5, ListenerGoes
<1>5. CASE UnloadMark(l) /\ ~(unloads \/ subs # {} \/ Active)
  <2> DEFINE new == [lis[l] EXCEPT !.pc = "forget"]
  <2>1. /\ UNCHANGED <<conv, core, live, entry, subs, tstate, req, requests, closer, unloader, watch, view>>
        /\ unloads' = TRUE /\ subs' = {} /\ cb' = cb \ cb /\ ask' = Settled(cb, "drop")
        /\ lis[l].pc = "unload" /\ lis' = [lis EXCEPT ![l] = new]
    BY <1>5 DEF UnloadMark, Goto, cancel_requests_for_thread, coreVars, taskVars, askVars
  <2>2. /\ new \in Listener /\ new.pc = "forget" /\ new.conv = lis[l].conv /\ new.st = lis[l].st
        /\ new.entry = lis[l].entry /\ new.cancel = lis[l].cancel /\ new.cmds = lis[l].cmds
    BY <1>0, GotoTyped
  <2> HIDE DEF new
  <2>3. Takes(l, 0)
    BY <1>0, <2>1, <2>2, ListenerIs, TakesNone
  <2>4. AsksStay /\ ask' \in Seq(ServerRequest)
    BY <1>0, <2>1, SettledStays
  <2>5. AsksMove(l, 0) /\ ViewsMove /\ UnloadSparesSubscribers' /\ subs' \subseteq Conns /\ cb' \subseteq cb
    BY <2>1, <2>4, StayMove, ViewsSame DEF UnloadSparesSubscribers
  <2> QED BY <1>0, <2>1, <2>2, <2>3, <2>4, <2>5, ListenerGoes
<1> QED BY <1>1, <1>2, <1>3, <1>4, <1>5

\* A request is shown to one connection.
LEMMA ViewShown ==
  ASSUME TypeOK, NEW d \in Conns, NEW b \in Asks, view' = [view EXCEPT ![d][b] = Shown(d)]
  PROVE  /\ view' \in [Conns -> [1 .. MaxAsks -> {"new", "shown", "left", "resolved"}]]
         /\ ViewsMove /\ view'[d][b] # "new"
<1>1. b \in 1 .. MaxAsks
  BY AskRange
<1>2. Shown(d) \in {"shown", "left"}
  BY DEF Shown
<1>3. view \in [Conns -> [1 .. MaxAsks -> {"new", "shown", "left", "resolved"}]]
  BY DEF TypeOK
<1> QED BY <1>1, <1>2, <1>3 DEF ViewsMove

\* The replay shows the next request, or is over.
LEMMA ReplaySendStep ==
  ASSUME ListenInv, NEW l \in Listeners, ReplaySend(l)
  PROVE  ListenInv'
<1>0. /\ TypeOK /\ lis[l] \in Listener /\ lis[l].cmds \in Seq(Command) /\ UnloadSparesSubscribers
      /\ subs \subseteq Conns /\ unloads \in BOOLEAN /\ ask \in Seq(ServerRequest)
      /\ view \in [Conns -> [1 .. MaxAsks -> {"new", "shown", "left", "resolved"}]]
      /\ lis[l].pc \in {"resume", "replay", "resend"} => lis[l].conn \in Conns
  BY LisTyped DEF ListenInv, TypeOK, StatesExist
<1>1. /\ UNCHANGED <<conv, core, live, entry, subs, tstate, req, requests, closer, unloader, unloads, watch, cb, ask>>
      /\ lis[l].pc = "resend"
  BY DEF ReplaySend, coreVars, taskVars
<1>2. AsksMove(l, 0) /\ UnloadSparesSubscribers'
  BY <1>0, <1>1, AskSame, StayMove DEF UnloadSparesSubscribers
<1>3. CASE lis[l].todo = {} /\ Select(l) /\ UNCHANGED view
  <2> DEFINE new == [lis[l] EXCEPT !.pc = "idle", !.conn = 0, !.a = 0]
  <2>1. lis' = [lis EXCEPT ![l] = new] /\ view' = view
    BY <1>3 DEF Select
  <2>2. /\ new \in Listener /\ new.pc = "idle" /\ new.conv = lis[l].conv /\ new.st = lis[l].st
        /\ new.entry = lis[l].entry /\ new.cancel = lis[l].cancel /\ new.cmds = lis[l].cmds
    BY <1>0, SelectTyped
  <2> HIDE DEF new
  <2>3. Takes(l, 0)
    BY <1>0, <2>1, <2>2, ListenerIs, TakesNone
  <2>4. ViewsMove
    BY <2>1, ViewsSame
  <2>5. \A c \in subs', a \in cb' : ~Shows(l, c, a)
    BY <1>1, <1>3 DEF Shows
  <2> QED BY <1>0, <1>1, <1>2, <2>1, <2>2, <2>3, <2>4, <2>5, ListenerGoes
<1>4. ASSUME NEW b \in lis[l].todo, lis' = [lis EXCEPT ![l].todo = @ \ {b}],
             view' = [view EXCEPT ![lis[l].conn][b] = Shown(lis[l].conn)]
      PROVE  ListenInv'
  <2> DEFINE new == [lis[l] EXCEPT !.todo = lis[l].todo \ {b}]
             d == lis[l].conn
  <2>1. lis' = [lis EXCEPT ![l] = new]
    BY <1>4
  <2>2. /\ new \in Listener /\ new.pc = "resend" /\ new.conv = lis[l].conv /\ new.st = lis[l].st
        /\ new.entry = lis[l].entry /\ new.cancel = lis[l].cancel /\ new.cmds = lis[l].cmds
        /\ new.conn = d /\ new.todo = lis[l].todo \ {b}
    BY <1>0, <1>1 DEF Listener
  <2> HIDE DEF new
  <2>3. b \in Asks /\ d \in Conns
    BY <1>0, <1>1 DEF ListenInv, ReplaysAreFresh
  <2>4. /\ view' \in [Conns -> [1 .. MaxAsks -> {"new", "shown", "left", "resolved"}]]
        /\ ViewsMove /\ view'[d][b] # "new"
    BY <1>0, <1>4, <2>3, ViewShown
  <2>5. lis'[l] = new
    BY <1>0, <2>1, ListenerIs
  <2>6. Takes(l, 0)
    BY <1>0, <2>2, <2>5, TakesNone
  <2>7. \A c \in subs', a \in cb' : Shows(l, c, a) => Shows(l, c, a)' \/ view'[c][a] # "new"
    BY <1>1, <2>2, <2>4, <2>5 DEF Shows
  <2>8. new.todo \subseteq lis[l].todo
    BY <2>2
  <2> QED BY <1>0, <1>1, <1>2, <2>1, <2>2, <2>3, <2>4, <2>6, <2>7, <2>8, ListenerGoes
<1> QED BY <1>3, <1>4 DEF ReplaySend

\* A request is sent to one more connection, or to all of them.
LEMMA SendRequestStep ==
  ASSUME ListenInv, NEW l \in Listeners, SendRequest(l)
  PROVE  ListenInv'
<1> DEFINE b == lis[l].a
<1>0. /\ TypeOK /\ lis[l] \in Listener /\ lis[l].cmds \in Seq(Command) /\ UnloadSparesSubscribers
      /\ subs \subseteq Conns /\ unloads \in BOOLEAN /\ ask \in Seq(ServerRequest)
      /\ view \in [Conns -> [1 .. MaxAsks -> {"new", "shown", "left", "resolved"}]]
  BY LisTyped DEF ListenInv, TypeOK
<1>1. /\ UNCHANGED <<conv, core, live, entry, subs, tstate, req, requests, closer, unloader, unloads, watch, cb>>
      /\ lis[l].pc = "send"
  BY DEF SendRequest, coreVars, taskVars
<1>2. b \in Asks /\ ask[b].task = "sending" /\ ask[b] \in ServerRequest
  BY <1>0, <1>1, AskTyped DEF ListenInv, HandsAreOnce
<1>3. UnloadSparesSubscribers'
  BY <1>0, <1>1 DEF UnloadSparesSubscribers
<1>4. CASE /\ lis[l].ids = {} /\ Select(l)
           /\ ask' = [ask EXCEPT ![b].task = "await"] /\ UNCHANGED view
  <2> DEFINE new == [lis[l] EXCEPT !.pc = "idle", !.conn = 0, !.a = 0]
             one == [ask[b] EXCEPT !.task = "await"]
  <2>1. lis' = [lis EXCEPT ![l] = new] /\ view' = view /\ ask' = [ask EXCEPT ![b] = one]
    BY <1>4 DEF Select
  <2>2. /\ new \in Listener /\ new.pc = "idle" /\ new.conv = lis[l].conv /\ new.st = lis[l].st
        /\ new.entry = lis[l].entry /\ new.cancel = lis[l].cancel /\ new.cmds = lis[l].cmds
    BY <1>0, SelectTyped
  <2>3. /\ one \in ServerRequest /\ one.task = "await" /\ one.conv = ask[b].conv /\ one.st = ask[b].st
        /\ one.result = ask[b].result
    BY <1>2 DEF ServerRequest
  <2> HIDE DEF new, one, b
  <2>4. /\ ask' \in Seq(ServerRequest) /\ Len(ask') = Len(ask) /\ ask'[b] = one
        /\ \A a \in Asks : a # b => ask'[a] = ask[a]
    BY <1>0, <1>2, <2>1, <2>3, OneAsk
  <2>5. lis'[l] = new
    BY <1>0, <2>1, ListenerIs
  <2>6. AsksMove(l, 0)
    BY <1>1, <1>2, <2>2, <2>3, <2>4, <2>5 DEF AsksMove, b
  <2>7. Takes(l, 0)
    BY <1>0, <2>2, <2>5, TakesNone
  <2>8. ViewsMove
    BY <2>1, ViewsSame
  <2>9. \A c \in subs', a \in cb' : ~Shows(l, c, a)
    BY <1>1, <1>4 DEF Shows
  <2> QED BY <1>0, <1>1, <1>3, <2>1, <2>2, <2>4, <2>6, <2>7, <2>8, <2>9, ListenerGoes
<1>5. ASSUME NEW d \in lis[l].ids, lis' = [lis EXCEPT ![l].ids = @ \ {d}],
             view' = [view EXCEPT ![d][b] = Shown(d)], UNCHANGED ask
      PROVE  ListenInv'
  <2> DEFINE new == [lis[l] EXCEPT !.ids = lis[l].ids \ {d}]
  <2>1. lis' = [lis EXCEPT ![l] = new]
    BY <1>5
  <2>2. /\ new \in Listener /\ new.pc = "send" /\ new.conv = lis[l].conv /\ new.st = lis[l].st
        /\ new.entry = lis[l].entry /\ new.cancel = lis[l].cancel /\ new.cmds = lis[l].cmds
        /\ new.a = b /\ new.ids = lis[l].ids \ {d}
    BY <1>0, <1>1 DEF Listener
  <2>3. d \in Conns
    BY <1>0 DEF Listener
  <2> HIDE DEF new
  <2>4. /\ view' \in [Conns -> [1 .. MaxAsks -> {"new", "shown", "left", "resolved"}]]
        /\ ViewsMove /\ view'[d][b] # "new"
    BY <1>0, <1>2, <1>5, <2>3, ViewShown
  <2>5. lis'[l] = new
    BY <1>0, <2>1, ListenerIs
  <2>6. Takes(l, 0)
    BY <1>0, <2>2, <2>5, TakesNone
  <2>7. \A c \in subs', a \in cb' : Shows(l, c, a) => Shows(l, c, a)' \/ view'[c][a] # "new"
    BY <1>1, <2>2, <2>4, <2>5 DEF Shows
  <2>8. AsksMove(l, 0) /\ ask' \in Seq(ServerRequest)
    BY <1>0, <1>5, AskSame, StayMove
  <2> QED BY <1>0, <1>1, <1>3, <2>1, <2>2, <2>4, <2>6, <2>7, <2>8, ListenerGoes
<1> QED BY <1>4, <1>5 DEF SendRequest

\* The request of the first command is resolved for those who follow the thread.
LEMMA ResolveRequestStep ==
  ASSUME ListenInv, NEW l \in Listeners, ResolveRequest(l)
  PROVE  ListenInv'
<1> DEFINE b == Head(lis[l].cmds).a
           new == [lis[l] EXCEPT !.cmds = Tail(lis[l].cmds)]
           one == [ask[b] EXCEPT !.task = "finish", !.lis = 0]
<1>0. /\ TypeOK /\ lis[l] \in Listener /\ lis[l].cmds \in Seq(Command) /\ UnloadSparesSubscribers
      /\ subs \subseteq Conns /\ unloads \in BOOLEAN /\ ask \in Seq(ServerRequest)
      /\ view \in [Conns -> [1 .. MaxAsks -> {"new", "shown", "left", "resolved"}]]
  BY LisTyped DEF ListenInv, TypeOK
<1>1. /\ UNCHANGED <<conv, core, live, entry, subs, tstate, req, requests, closer, unloader, unloads, watch, cb>>
      /\ lis[l].pc = "idle" /\ lis[l].cmds # <<>> /\ Head(lis[l].cmds).t = "resolve"
      /\ view' = [c \in Conns |-> IF c \in subs THEN [view[c] EXCEPT ![b] = "resolved"] ELSE view[c]]
      /\ ask' = [ask EXCEPT ![b] = one] /\ lis' = [lis EXCEPT ![l] = new]
  BY DEF ResolveRequest, AtSelect, coreVars, taskVars
<1>2. /\ Tail(lis[l].cmds) \in Seq(Command) /\ Len(lis[l].cmds) > 0
      /\ lis[l].cmds[1].t = "resolve" /\ lis[l].cmds[1].a = b
  BY <1>0, <1>1, TailTyped
<1>3. b \in Asks /\ ask[b].task = "resolving" /\ ask[b] \in ServerRequest
  BY <1>0, <1>2, FirstCommand, AskTyped
<1>4. /\ new \in Listener /\ new.pc = "idle" /\ new.conv = lis[l].conv /\ new.st = lis[l].st
      /\ new.entry = lis[l].entry /\ new.cancel = lis[l].cancel /\ new.cmds = Tail(lis[l].cmds)
  BY <1>0, <1>1, <1>2 DEF Listener
<1>5. /\ one \in ServerRequest /\ one.task = "finish" /\ one.conv = ask[b].conv /\ one.st = ask[b].st
      /\ one.result = ask[b].result
  BY <1>3 DEF ServerRequest
<1> HIDE DEF new, one, b
<1>6. /\ ask' \in Seq(ServerRequest) /\ Len(ask') = Len(ask) /\ ask'[b] = one
      /\ \A a \in Asks : a # b => ask'[a] = ask[a]
  BY <1>0, <1>1, <1>3, <1>5, OneAsk
<1>7. lis'[l] = new
  BY <1>0, <1>1, ListenerIs
<1>8. AsksMove(l, 1)
  BY <1>1, <1>2, <1>3, <1>4, <1>5, <1>6, <1>7 DEF AsksMove
<1>9. Takes(l, 1)
  BY <1>0, <1>1, <1>4, <1>7, TakesOne
<1>10. view' \in [Conns -> [1 .. MaxAsks -> {"new", "shown", "left", "resolved"}]] /\ ViewsMove
  <2>1. b \in 1 .. MaxAsks
    BY <1>0, <1>3, AskRange
  <2>2. \A c \in Conns, a \in 1 .. MaxAsks : view'[c][a] = view[c][a] \/ (a = b /\ view'[c][a] = "resolved")
    BY <1>0, <1>1, <2>1
  <2>3. view' \in [Conns -> [1 .. MaxAsks -> {"new", "shown", "left", "resolved"}]]
    BY <1>0, <1>1, <2>1
  <2> QED BY <1>3, <1>5, <1>6, <2>2, <2>3 DEF ViewsMove
<1>11. \A c \in subs', a \in cb' : ~Shows(l, c, a)
  BY <1>1 DEF Shows
<1>12. UnloadSparesSubscribers'
  BY <1>0, <1>1 DEF UnloadSparesSubscribers
<1> QED BY <1>0, <1>1, <1>4, <1>6, <1>8, <1>9, <1>10, <1>11, <1>12, ListenerGoes

\* A listener takes the first event of its conversation.
LEMMA EventTaken ==
  ASSUME ListenInv, NEW l \in Listeners, NEW t, NextEvent(l, t)
  PROVE  LET k == lis[l].conv IN
         /\ k \in Convs /\ core[k].ev \in Seq(Events) /\ core[k].ev # <<>> /\ core[k].ev[1].t = t
         /\ core' \in Seq(Conversation) /\ Len(core') = Len(core)
         /\ core'[k].ev = Tail(core[k].ev) /\ core'[k].ask = core[k].ask /\ core'[k].phase = core[k].phase
         /\ \A m \in Convs : m # k => core'[m] = core[m]
         /\ CoresStay
         /\ core[k].ev[1].a = Head(core[k].ev).a
<1> DEFINE k == lis[l].conv
           new == [core[k] EXCEPT !.ev = Tail(core[k].ev)]
<1>1. /\ core[k].ev # <<>> /\ Head(core[k].ev).t = t /\ core' = [core EXCEPT ![k] = new]
  BY DEF NextEvent
<1>2. TypeOK /\ k \in Convs
  BY DEF ListenInv, StatesExist
<1> HIDE DEF k
<1>3. core[k] \in Conversation /\ core[k].ev \in Seq(Events)
  BY <1>2, CoreTyped
<1>4. Tail(core[k].ev) \in Seq(Events) /\ Head(core[k].ev) = core[k].ev[1]
  BY <1>1, <1>3, TailTyped
<1>5. new \in Conversation /\ new.ev = Tail(core[k].ev) /\ new.ask = core[k].ask /\ new.phase = core[k].phase
  BY <1>3, <1>4 DEF Conversation
<1> HIDE DEF new
<1>6. /\ core' \in Seq(Conversation) /\ Len(core') = Len(core) /\ core'[k] = new
      /\ \A m \in Convs : m # k => core'[m] = core[m]
      /\ CoresStay
  BY <1>1, <1>2, <1>5, OneCore
<1> QED BY <1>1, <1>2, <1>3, <1>4, <1>5, <1>6 DEF k

\* TurnStarted, TurnComplete and TurnAborted, ShutdownComplete.
LEMMA EventSteps ==
  ASSUME ListenInv, NEW l \in Listeners, OnTurnStarted(l) \/ OnTurnEnded(l) \/ OnShutdownComplete(l)
  PROVE  ListenInv'
<1>0. TypeOK /\ watch \in [running : BOOLEAN, pending : Nat]
  BY DEF ListenInv, TypeOK
<1>1. PICK t \in {"start", "end", "shutdown"} : NextEvent(l, t)
  BY DEF OnTurnStarted, OnTurnEnded, OnShutdownComplete
<1> DEFINE k == lis[l].conv
<1>2. /\ k \in Convs /\ core[k].ev \in Seq(Events) /\ core[k].ev # <<>> /\ core[k].ev[1].t = t
      /\ core' \in Seq(Conversation) /\ Len(core') = Len(core)
      /\ core'[k].ev = Tail(core[k].ev) /\ core'[k].ask = core[k].ask /\ core'[k].phase = core[k].phase
      /\ \A m \in Convs : m # k => core'[m] = core[m]
      /\ CoresStay
  BY <1>1, EventTaken
<1> HIDE DEF k
<1>3. UNCHANGED <<conv, live, entry, subs, tstate, req, requests, unloads, unloader, closer, lis, view>>
  BY <1>1 DEF NextEvent, OnTurnStarted, OnTurnEnded, OnShutdownComplete, taskVars, askVars
<1>4. AsksStay /\ ask' \in Seq(ServerRequest) /\ cb' \subseteq cb
  <2>1. CASE OnTurnStarted(l) \/ OnTurnEnded(l)
    <3>1. ask' = Settled(cb, "abort") /\ cb' = cb \ cb
      BY <2>1 DEF OnTurnStarted, OnTurnEnded, cancel_requests_for_thread
    <3> QED BY <1>0, <3>1, SettledStays
  <2>2. CASE OnShutdownComplete(l)
    BY <1>0, <2>2, AskSame DEF OnShutdownComplete, askVars, TypeOK
  <2> QED BY <2>1, <2>2
<1>5. watch' \in [running : BOOLEAN, pending : Nat]
  <2>1. watch' = NotWatched \/ watch' = [watch EXCEPT !.running = TRUE]
    BY DEF OnTurnStarted, OnTurnEnded, OnShutdownComplete
  <2> QED BY <1>0, <2>1, NotWatchedTyped
<1>6. TypeOK'
  <2>1. Len(ask') <= MaxAsks /\ cb' \subseteq Nat
    BY <1>0, <1>4 DEF TypeOK, AsksStay
  <2> QED BY <1>0, <1>2, <1>3, <1>4, <1>5, <2>1 DEF TypeOK
<1>7. AsksQueue /\ ViewsStay
  BY <1>3, <1>4, StayQueue, ViewSame
<1>8. EventsAreOnce'
  <2>1. /\ Len(Tail(core[k].ev)) \in Nat /\ Len(core[k].ev) \in Nat /\ 1 <= Len(core[k].ev)
        /\ Len(Tail(core[k].ev)) + 1 = Len(core[k].ev)
        /\ \A i \in 1 .. Len(Tail(core[k].ev)) : i + 1 <= Len(core[k].ev) /\ Tail(core[k].ev)[i] = core[k].ev[i + 1]
    BY <1>2, TailTyped
  <2>2. \A i \in 1 .. Len(core'[k].ev) : core'[k].ev[i].t = "ask" =>
             i + 1 <= Len(core[k].ev) /\ core'[k].ev[i] = core[k].ev[i + 1]
    BY <1>2, <2>1
  <2>3. core'[k].ask = core[k].ask /\ Len(core'[k].ev) + 1 = Len(core[k].ev) /\ Len(core'[k].ev) \in Nat
    BY <1>2, <2>1
  <2> QED BY <1>2, <1>7, <2>1, <2>2, <2>3, EventsKept
<1>9. TurnsWait'
  <2> SUFFICES ASSUME NEW m \in Convs, core'[m].ask # 0
               PROVE  /\ core'[m].ask \in Asks /\ ask'[core'[m].ask].conv = m /\ core'[m].phase = "turn"
                      /\ ask'[core'[m].ask].task # "queued" => core'[m].ev = <<>>
    BY <1>2, <1>7 DEF TurnsWait, Convs, Asks, AsksQueue
  <2>1. core'[m].ask = core[m].ask /\ core'[m].phase = core[m].phase
    BY <1>2
  <2>2. /\ core[m].ask \in Asks /\ ask[core[m].ask].conv = m /\ core[m].phase = "turn"
        /\ ask[core[m].ask].task # "queued" => core[m].ev = <<>>
    BY <2>1 DEF ListenInv, TurnsWait
  <2>3. ask[core[m].ask].task # "queued" => core'[m].ev = <<>>
    BY <1>2, <2>2
  <2> QED BY <2>1, <2>2, <2>3, <1>7 DEF AsksQueue
<1>10. RequestIsCurrent'
  BY <1>2, <1>3, <1>4, RequestSame
<1>11. unloader'.pc # "off" => unloader'.conv \in Convs
  BY <1>3 DEF ListenInv, StatesExist
<1> QED BY <1>2, <1>3, <1>4, <1>6, <1>7, <1>8, <1>9, <1>10, <1>11, QuietStep

LEMMA NoneLeft == ASSUME NEW S, NEW s \in Seq(S), Len(s) = 0 PROVE s = <<>>
OBVIOUS

\* An approval request comes to the listener: from here it is in its hands.
LEMMA OnApprovalRequestStep ==
  ASSUME ListenInv, NEW l \in Listeners, OnApprovalRequest(l)
  PROVE  ListenInv'
<1> DEFINE k == lis[l].conv
           b == Head(core[k].ev).a
           one == [ask[b] EXCEPT !.task = "sending", !.st = lis[l].st]
           new == [lis[l] EXCEPT !.pc = "send", !.ids = subs, !.a = b]
<1>0. /\ TypeOK /\ lis[l] \in Listener /\ subs \subseteq Conns /\ watch \in [running : BOOLEAN, pending : Nat]
      /\ lis[l].conv \in Convs /\ lis[l].st \in 1 .. Len(tstate) /\ Len(lis[l].cmds) \in Nat
  BY LisTyped DEF ListenInv, TypeOK, StatesExist
<1>1. /\ k \in Convs /\ core[k].ev \in Seq(Events) /\ core[k].ev # <<>> /\ core[k].ev[1].t = "ask"
      /\ core' \in Seq(Conversation) /\ Len(core') = Len(core)
      /\ core'[k].ev = Tail(core[k].ev) /\ core'[k].ask = core[k].ask /\ core'[k].phase = core[k].phase
      /\ \A m \in Convs : m # k => core'[m] = core[m]
      /\ CoresStay /\ core[k].ev[1].a = b
  BY EventTaken DEF OnApprovalRequest
<1>2. /\ UNCHANGED <<conv, live, entry, subs, tstate, req, requests, unloads, unloader, closer, view>>
      /\ lis[l].pc = "idle" /\ ~lis[l].cancel
      /\ cb' = cb \cup {b} /\ ask' = [ask EXCEPT ![b] = one] /\ lis' = [lis EXCEPT ![l] = new]
      /\ watch' = [watch EXCEPT !.pending = @ + 1]
  BY DEF OnApprovalRequest, NextEvent, AtSelect, taskVars
<1>3. /\ 1 \in 1 .. Len(core[k].ev) /\ Len(core[k].ev) \in Nat /\ Len(Tail(core[k].ev)) + 1 = Len(core[k].ev)
      /\ Len(Tail(core[k].ev)) \in Nat
      /\ \A i \in 1 .. Len(Tail(core[k].ev)) : i + 1 <= Len(core[k].ev) /\ Tail(core[k].ev)[i] = core[k].ev[i + 1]
  BY <1>1, TailTyped
<1> HIDE DEF k
<1>4. /\ b \in Asks /\ ask[b].conv = k /\ ask[b].task = "queued"
      /\ \A j \in 1 .. Len(core[k].ev) : core[k].ev[j].t = "ask" /\ core[k].ev[j].a = b => j = 1
      /\ core[k].ask = b => 1 = Len(core[k].ev)
  <2>1. \A i \in 1 .. Len(core[k].ev) : core[k].ev[i].t = "ask" =>
             /\ core[k].ev[i].a \in Asks /\ ask[core[k].ev[i].a].conv = k
             /\ ask[core[k].ev[i].a].task = "queued"
             /\ \A j \in 1 .. Len(core[k].ev) :
                  core[k].ev[j].t = "ask" /\ core[k].ev[j].a = core[k].ev[i].a => j = i
             /\ core[k].ask = core[k].ev[i].a => i = Len(core[k].ev)
    BY <1>1 DEF ListenInv, EventsAreOnce
  <2> HIDE DEF b
  <2> QED BY <1>1, <1>3, <2>1
<1>5. b \notin cb /\ b \in Nat /\ ask[b] \in ServerRequest /\ ask[b].result = "none"
  BY <1>0, <1>4, AskTyped, AskRange DEF ListenInv, HandsAreOnce, AsksExist
<1>6. /\ one \in ServerRequest /\ one.task = "sending" /\ one.st = lis[l].st /\ one.conv = ask[b].conv
      /\ one.result = "none"
  BY <1>0, <1>5 DEF ServerRequest, Listener
<1>7. /\ new \in Listener /\ new.pc = "send" /\ new.conv = lis[l].conv /\ new.st = lis[l].st
      /\ new.entry = lis[l].entry /\ new.cancel = lis[l].cancel /\ new.cmds = lis[l].cmds /\ new.a = b
      /\ new.ids = subs
  BY <1>0, <1>5 DEF Listener
<1> HIDE DEF new, one, b
<1>8. /\ ask' \in Seq(ServerRequest) /\ Len(ask') = Len(ask) /\ ask'[b] = one
      /\ \A a \in Asks : a # b => ask'[a] = ask[a]
      /\ Len(ask') <= MaxAsks
  BY <1>0, <1>2, <1>4, <1>6, OneAsk
<1>9. lis' \in Seq(Listener) /\ lis'[l] = new /\ Rest(l)
  BY <1>0, <1>2, <1>7, OneLis
<1>10. TypeOK'
  <2>1. cb' \subseteq Nat
    BY <1>0, <1>2, <1>5 DEF TypeOK
  <2>2. watch' \in [running : BOOLEAN, pending : Nat]
    <3>1. watch.pending + 1 \in Nat
      BY <1>0
    <3> QED BY <1>0, <1>2, <3>1
  <2> QED BY <1>0, <1>1, <1>2, <1>8, <1>9, <2>1, <2>2 DEF TypeOK
<1>11. Takes(l, 0)
  BY <1>0, <1>7, <1>9, TakesNone
<1>12. StatesExist' /\ Listeners' = Listeners
  BY <1>1, <1>2, <1>7, <1>9, <1>10, <1>11, RestStates
<1>13. OneListener'
  BY <1>2, <1>7, <1>9, RestOne
<1>14. Asks' = Asks /\ Convs' = Convs
  BY <1>1, <1>8 DEF Asks, Convs
<1>15. \A a \in Asks : ask'[a].conv = ask[a].conv
  BY <1>6, <1>8
<1>16. RequestIsCurrent'
  <2>1. \A a \in Asks : ask[a].task = "queued" /\ ask'[a].task # "queued" => ask[a].conv = lis[l].conv
    BY <1>4, <1>8 DEF k
  <2> QED BY <1>1, <1>2, <1>8, <1>9, <1>15, <2>1, RestRequest
<1>17. CommandsAreOnce'
  <2>1. \A a \in Asks : ask[a].task = "resolving" => ask'[a].task = "resolving" /\ ask'[a].lis = ask[a].lis
    BY <1>4, <1>8
  <2> QED BY <1>8, <1>9, <1>10, <1>11, <2>1, RestCommands
<1>18. SenderResolves'
  <2>1. entry = lis[l].st => tstate[entry] = l
    BY <1>0, <1>2 DEF ListenInv, OneListener
  <2>2. \A a \in Asks :
           /\ ask'[a].conv = ask[a].conv
           /\ ask[a].task # "queued" => ask'[a].st = ask[a].st
           /\ ask'[a].task # "queued" /\ ask[a].task = "queued" =>
                /\ ask[a].conv = lis[l].conv /\ ask'[a].st = lis[l].st
                /\ lis[l].st = entry => tstate[entry] = l
           /\ ask'[a].task = "resolving" => ask[a].task = "resolving" /\ ask'[a].lis = ask[a].lis
    BY <1>4, <1>6, <1>8, <2>1 DEF k
  <2> QED BY <1>1, <1>2, <1>8, <1>9, <2>2, RestSender
<1>19. AsksExist'
  <2>1. cb' \subseteq Asks
    BY <1>2, <1>4 DEF ListenInv, AsksExist
  <2>2. ASSUME NEW a \in Asks
        PROVE  /\ ask'[a].conv \in Convs
               /\ IF ask'[a].task = "queued" THEN ask'[a].result = "none" ELSE ask'[a].st \in 1 .. Len(tstate)
               /\ ask'[a].task = "resolving" => ask'[a].lis \in Listeners
    BY <1>0, <1>6, <1>8, <1>15 DEF ListenInv, AsksExist
  <2> QED BY <1>2, <1>12, <1>14, <2>1, <2>2 DEF AsksExist
<1>20. HandsAreOnce'
  <2>1. ASSUME NEW a \in cb' PROVE ask'[a].task \in {"sending", "await"} /\ ask'[a].result = "none"
    BY <1>2, <1>5, <1>6, <1>8 DEF ListenInv, HandsAreOnce, AsksExist
  <2>2. ASSUME NEW m \in Listeners, lis'[m].pc = "send", m # l
        PROVE  /\ lis'[m] = lis[m] /\ lis[m].a # b /\ lis[m].a \in Asks /\ ask[lis[m].a].task = "sending"
               /\ \A p \in Listeners : lis[p].pc = "send" /\ lis[p].a = lis[m].a => p = m
    BY <2>2, <1>4, <1>9 DEF ListenInv, HandsAreOnce, Rest
  <2>3. ASSUME NEW m \in Listeners, lis'[m].pc = "send"
        PROVE  /\ lis'[m].a \in Asks /\ ask'[lis'[m].a].task = "sending"
               /\ \A p \in Listeners : lis'[p].pc = "send" /\ lis'[p].a = lis'[m].a => p = m
    <3>1. CASE m = l
      BY <1>4, <1>6, <1>7, <1>8, <1>9, <2>2, <3>1, SMTT(30)
    <3>2. CASE m # l
      BY <1>7, <1>8, <1>9, <2>2, <2>3, <3>2, SMTT(30)
    <3> QED BY <3>1, <3>2
  <2> QED BY <1>12, <1>14, <2>1, <2>3 DEF HandsAreOnce
<1>21. ReplaysAreFresh'
  <2>1. ASSUME NEW m \in Listeners, lis'[m].pc = "resend", NEW a \in lis'[m].todo
        PROVE  /\ a \in Asks /\ ask'[a].task # "queued"
               /\ tstate[ask'[a].st] = m =>
                     \/ ask'[a].task \in {"sending", "await"}
                     \/ ask'[a].task = "resolving" /\ ask'[a].lis = m
    <3>1. m # l
      BY <2>1, <1>7, <1>9
    <3>2. lis'[m] = lis[m]
      BY <3>1, <1>9 DEF Rest
    <3> QED BY <2>1, <3>2, <1>4, <1>8 DEF ListenInv, ReplaysAreFresh
  <2>2. \A c \in Conns, a \in 1 .. MaxAsks : view[c][a] = "resolved" =>
         a \in Asks /\ ask'[a].task \in {"finish", "done"}
    BY <1>4, <1>8 DEF ListenInv, ReplaysAreFresh
  <2> QED BY <1>2, <1>12, <1>14, <2>1, <2>2 DEF ReplaysAreFresh
<1>22. RequestsReach'
  <2> SUFFICES ASSUME NEW c \in subs, NEW a \in cb', ask'[a].conv = conv, view[c][a] = "new"
               PROVE  \E m \in Listeners : Shows(m, c, a)'
    BY <1>0, <1>2, <1>12, ReachByShows DEF RequestsReach, Replaying, Shows
  <2>1. CASE a = b
    BY <2>1, <1>7, <1>9 DEF Shows
  <2>2. CASE a # b
    <3>1. a \in cb /\ a \in Asks /\ ask[a].conv = conv
      BY <2>2, <1>2, <1>15 DEF ListenInv, AsksExist
    <3>2. \E m \in Listeners : Shows(m, c, a)
      BY <1>0, <3>1, ReachByShows DEF ListenInv, RequestsReach
    <3>3. PICK m \in Listeners : Shows(m, c, a)
      BY <3>2
    <3>4. m # l
      BY <3>3, <1>2 DEF Shows
    <3> QED BY <3>3, <3>4, <1>9 DEF Shows, Rest
  <2> QED BY <2>1, <2>2
<1>23. EventsAreOnce'
  <2> SUFFICES ASSUME NEW m \in Convs, NEW i \in 1 .. Len(core'[m].ev), core'[m].ev[i].t = "ask",
                      NEW a, a = core'[m].ev[i].a
               PROVE  /\ a \in Asks /\ ask'[a].conv = m /\ ask'[a].task = "queued"
                      /\ \A j \in 1 .. Len(core'[m].ev) : core'[m].ev[j].t = "ask" /\ core'[m].ev[j].a = a => j = i
                      /\ core'[m].ask = a => i = Len(core'[m].ev)
    BY <1>14 DEF EventsAreOnce
  <2>0. \A mm \in Convs : \A ii \in 1 .. Len(core[mm].ev) : core[mm].ev[ii].t = "ask" =>
             /\ core[mm].ev[ii].a \in Asks /\ ask[core[mm].ev[ii].a].conv = mm
             /\ ask[core[mm].ev[ii].a].task = "queued"
             /\ \A j \in 1 .. Len(core[mm].ev) :
                  core[mm].ev[j].t = "ask" /\ core[mm].ev[j].a = core[mm].ev[ii].a => j = ii
             /\ core[mm].ask = core[mm].ev[ii].a => ii = Len(core[mm].ev)
    BY DEF ListenInv, EventsAreOnce
  <2>1. CASE m # k
    <3>1. core'[m] = core[m]
      BY <2>1, <1>1
    <3>2. /\ a \in Asks /\ ask[a].conv = m /\ ask[a].task = "queued"
          /\ \A j \in 1 .. Len(core[m].ev) : core[m].ev[j].t = "ask" /\ core[m].ev[j].a = a => j = i
          /\ core[m].ask = a => i = Len(core[m].ev)
      BY <2>0, <3>1
    <3>3. a # b
      BY <2>1, <3>2, <1>4
    <3> QED BY <3>1, <3>2, <3>3, <1>8
  <2>2. CASE m = k
    <3>0. i \in 1 .. Len(Tail(core[k].ev)) /\ core'[k].ev = Tail(core[k].ev)
      BY <2>2, <1>1
    <3>1. i + 1 \in 1 .. Len(core[k].ev) /\ core[k].ev[i + 1].t = "ask" /\ core[k].ev[i + 1].a = a
      BY <2>2, <3>0, <1>3
    <3>2. /\ a \in Asks /\ ask[a].conv = k /\ ask[a].task = "queued"
          /\ \A j \in 1 .. Len(core[k].ev) : core[k].ev[j].t = "ask" /\ core[k].ev[j].a = a => j = i + 1
          /\ core[k].ask = a => i + 1 = Len(core[k].ev)
      <4>1. \A ii \in 1 .. Len(core[k].ev) : core[k].ev[ii].t = "ask" =>
             /\ core[k].ev[ii].a \in Asks /\ ask[core[k].ev[ii].a].conv = k
             /\ ask[core[k].ev[ii].a].task = "queued"
             /\ \A j \in 1 .. Len(core[k].ev) :
                  core[k].ev[j].t = "ask" /\ core[k].ev[j].a = core[k].ev[ii].a => j = ii
             /\ core[k].ask = core[k].ev[ii].a => ii = Len(core[k].ev)
        BY <1>1, <2>0
      <4> QED BY <3>1, <4>1
    <3>3. a # b
      <4>1. a = b => i + 1 = 1
        BY <1>4, <3>1
      <4> QED BY <4>1, <3>0, <1>3
    <3>4. ASSUME NEW j \in 1 .. Len(core'[k].ev), core'[k].ev[j].t = "ask", core'[k].ev[j].a = a
          PROVE  j = i
      <4>1. j + 1 \in 1 .. Len(core[k].ev) /\ core[k].ev[j + 1] = core'[k].ev[j]
        BY <3>0, <3>4, <1>3
      <4>2. j + 1 = i + 1
        BY <3>2, <3>4, <4>1
      <4> QED BY <3>0, <3>4, <4>2, <1>3
    <3>5. core'[k].ask = a => i = Len(core'[k].ev)
      <4>1. ASSUME core'[k].ask = a PROVE i + 1 = Len(Tail(core[k].ev)) + 1
        BY <4>1, <3>2, <1>1, <1>3
      <4>2. ASSUME i + 1 = Len(Tail(core[k].ev)) + 1 PROVE i = Len(Tail(core[k].ev))
        BY <4>2, <3>0, <1>3
      <4> QED BY <3>0, <4>1, <4>2
    <3> QED BY <2>2, <3>2, <3>3, <3>4, <3>5, <1>8
  <2> QED BY <2>1, <2>2
<1>24. TurnsWait'
  <2> SUFFICES ASSUME NEW m \in Convs, core'[m].ask # 0
               PROVE  /\ core'[m].ask \in Asks /\ ask'[core'[m].ask].conv = m /\ core'[m].phase = "turn"
                      /\ ask'[core'[m].ask].task # "queued" => core'[m].ev = <<>>
    BY <1>14 DEF TurnsWait
  <2>1. core'[m].ask = core[m].ask /\ core'[m].phase = core[m].phase
    BY <1>1
  <2>2. /\ core[m].ask \in Asks /\ ask[core[m].ask].conv = m /\ core[m].phase = "turn"
        /\ ask[core[m].ask].task # "queued" => core[m].ev = <<>>
    BY <2>1 DEF ListenInv, TurnsWait
  <2>3. CASE m # k
    <3>1. core'[m] = core[m] /\ core[m].ask # b
      BY <2>2, <2>3, <1>1, <1>4
    <3> QED BY <2>2, <3>1, <1>8
  <2>4. CASE m = k /\ core[k].ask = b
    <3>1. Len(Tail(core[k].ev)) = 0
      BY <2>4, <1>3, <1>4
    <3>2. Tail(core[k].ev) \in Seq(Events)
      BY <1>1, TailTyped
    <3>3. Tail(core[k].ev) = <<>>
      BY <3>1, <3>2, NoneLeft
    <3> QED BY <2>1, <2>2, <2>4, <3>3, <1>1, <1>15
  <2>5. CASE m = k /\ core[k].ask # b
    BY <2>1, <2>2, <2>5, <1>1, <1>8
  <2> QED BY <2>3, <2>4, <2>5
<1>25. UnloadSparesSubscribers'
  BY <1>2 DEF ListenInv, UnloadSparesSubscribers
<1> QED BY <1>10, <1>12, <1>13, <1>16, <1>17, <1>18, <1>19, <1>20, <1>21, <1>22, <1>23, <1>24, <1>25 DEF ListenInv

\* The task of an answered request has it resolved by the listener, or goes on.
LEMMA TaskResolveStep ==
  ASSUME ListenInv, NEW a \in Asks, TaskResolve(a)
  PROVE  ListenInv'
<1> DEFINE l == tstate[ask[a].st]
           cmd == [t |-> "resolve", c |-> 0, a |-> a]
<1>0. TypeOK /\ ask[a] \in ServerRequest /\ a \in Nat /\ tstate \in Seq(Nat)
  BY AskTyped, AskRange DEF ListenInv, TypeOK
<1>1. /\ ask[a].task = "await" /\ a \notin cb /\ ask[a].st \in 1 .. Len(tstate)
      /\ UNCHANGED <<conv, core, live, entry, subs, tstate, req, requests, unloads, unloader, closer, cb, view, watch>>
  BY DEF TaskResolve, ListenInv, HandsAreOnce, AsksExist, coreVars, taskVars
<1>2. CASE l = 0
  <2> DEFINE one == [ask[a] EXCEPT !.task = "finish", !.lis = 0]
  <2>1. one \in ServerRequest /\ one.conv = ask[a].conv /\ one.st = ask[a].st /\ one.task = "finish"
    BY <1>0 DEF ServerRequest
  <2>2. ask' = [ask EXCEPT ![a] = one] /\ lis' = lis
    BY <1>2 DEF TaskResolve
  <2> HIDE DEF one
  <2>3. /\ ask' \in Seq(ServerRequest) /\ Len(ask') = Len(ask) /\ ask'[a] = one
        /\ \A b \in Asks : b # a => ask'[b] = ask[b]
        /\ Len(ask') <= MaxAsks
    BY <1>0, <2>1, <2>2, OneAsk
  <2>4. AsksQueue
    BY <1>1, <2>1, <2>3 DEF AsksQueue
  <2>5. CoresStay /\ EventsAreOnce' /\ TurnsWait'
    BY <1>1, <2>4, CoreSame
  <2>6. TypeOK'
    BY <1>0, <1>1, <2>2, <2>3 DEF TypeOK
  <2> QED BY <1>1, <1>2, <2>1, <2>2, <2>3, <2>5, <2>6, AskEnds DEF entryVars, taskVars
<1>3. CASE l # 0
  <2> DEFINE one == [ask[a] EXCEPT !.task = "resolving", !.lis = l]
             q == Append(lis[l].cmds, cmd)
             new == [lis[l] EXCEPT !.cmds = q]
  <2>1. l \in Listeners /\ lis[l].pc # "ended" /\ l \in Nat /\ lis[l].st = ask[a].st
    BY <1>0, <1>1, <1>3, SMTT(30) DEF ListenInv, StatesExist, Listeners
  <2>2. ask' = [ask EXCEPT ![a] = one] /\ lis' = [lis EXCEPT ![l] = new]
    BY <1>3 DEF TaskResolve
  <2>3. cmd \in Command /\ cmd.t = "resolve" /\ cmd.a = a
    BY <1>0 DEF Command
  <2> HIDE DEF cmd, l
  <2>4. lis[l] \in Listener /\ lis[l].cmds \in Seq(Command) /\ Len(lis[l].cmds) \in Nat
    BY <1>0, <2>1, LisTyped
  <2>5. /\ q \in Seq(Command) /\ Len(q) = Len(lis[l].cmds) + 1 /\ q[Len(lis[l].cmds) + 1] = cmd
        /\ \A i \in 1 .. Len(lis[l].cmds) : q[i] = lis[l].cmds[i]
    BY <2>3, <2>4
  <2> HIDE DEF q
  <2>6. /\ new \in Listener /\ new.pc = lis[l].pc /\ new.conv = lis[l].conv /\ new.st = lis[l].st
        /\ new.entry = lis[l].entry /\ new.cancel = lis[l].cancel /\ new.cmds = q /\ new.a = lis[l].a
        /\ new.conn = lis[l].conn /\ new.todo = lis[l].todo /\ new.ids = lis[l].ids
    BY <2>4, <2>5 DEF Listener
  <2>7. /\ one \in ServerRequest /\ one.conv = ask[a].conv /\ one.st = ask[a].st /\ one.task = "resolving"
        /\ one.lis = l /\ one.result = ask[a].result
    BY <1>0, <2>1 DEF ServerRequest
  <2> HIDE DEF one, new
  <2>8. /\ ask' \in Seq(ServerRequest) /\ Len(ask') = Len(ask) /\ ask'[a] = one
        /\ \A b \in Asks : b # a => ask'[b] = ask[b]
        /\ Len(ask') <= MaxAsks
    BY <1>0, <2>2, <2>7, OneAsk
  <2>9. lis' \in Seq(Listener) /\ lis'[l] = new /\ Rest(l)
    BY <1>0, <2>1, <2>2, <2>6, OneLis
  <2>10. Asks' = Asks /\ Listeners' = Listeners
    BY <2>8, <2>9 DEF Asks, Listeners, Rest
  <2>11. TypeOK'
    BY <1>0, <1>1, <2>8, <2>9 DEF TypeOK
  <2>12. AsksQueue
    BY <1>1, <2>7, <2>8 DEF AsksQueue
  <2>13. CoresStay /\ EventsAreOnce' /\ TurnsWait'
    BY <1>1, <2>12, CoreSame
  <2>14. OneListener'
    BY <1>1, <2>1, <2>6, <2>9, RestOne
  <2>15. RequestIsCurrent'
    <3>1. \A b \in Asks : ask'[b].conv = ask[b].conv /\ (ask[b].task = "queued" => ask'[b].task = "queued")
      BY <1>1, <2>7, <2>8
    <3> QED BY <1>1, <2>1, <2>8, <2>9, <3>1, RestRequest
  <2>16. StatesExist'
    <3>1. \A s \in 1 .. Len(tstate) :
         tstate[s] # 0 => tstate[s] \in Listeners /\ lis'[tstate[s]].st = s /\ lis'[tstate[s]].pc # "ended"
      BY <2>6, <2>9 DEF ListenInv, StatesExist, Rest
    <3>2. ASSUME NEW m \in Listeners
          PROVE  /\ lis'[m].conv \in Convs /\ lis'[m].st \in 1 .. Len(tstate)
                 /\ lis'[m].pc \in {"resume", "replay", "resend"} => lis'[m].conn \in Conns
                 /\ lis'[m].pc = "ended" => lis'[m].cmds = <<>>
      BY <2>1, <2>6, <2>9 DEF ListenInv, StatesExist, Rest
    <3>3. ASSUME NEW m \in Listeners, NEW i \in 1 .. Len(lis'[m].cmds), lis'[m].cmds[i].t = "resume"
          PROVE  lis'[m].cmds[i].c \in Conns
      <4>1. CASE m # l
        BY <3>3, <4>1, <2>9 DEF ListenInv, StatesExist, Rest
      <4>2. CASE m = l
        <5>1. i \in 1 .. Len(lis[l].cmds) /\ q[i] = lis[l].cmds[i]
          BY <3>3, <4>2, <2>3, <2>4, <2>5, <2>6, <2>9
        <5> QED BY <3>3, <4>2, <5>1, <2>6, <2>9 DEF ListenInv, StatesExist
      <4> QED BY <4>1, <4>2
    <3> QED BY <1>1, <2>10, <3>1, <3>2, <3>3 DEF ListenInv, StatesExist, Convs
  <2>17. AsksExist'
    <3>1. ASSUME NEW b \in Asks
          PROVE  /\ ask'[b].conv \in Convs
                 /\ IF ask'[b].task = "queued" THEN ask'[b].result = "none" ELSE ask'[b].st \in 1 .. Len(tstate)
                 /\ ask'[b].task = "resolving" => ask'[b].lis \in Listeners
      BY <1>1, <2>1, <2>7, <2>8 DEF ListenInv, AsksExist
    <3> QED BY <1>1, <2>10, <3>1 DEF ListenInv, AsksExist, Convs
  <2>18. HandsAreOnce'
    <3>1. \A b \in cb : b \in Asks /\ b # a
      BY <1>1 DEF ListenInv, AsksExist
    <3>2. \A m \in Listeners : lis'[m].pc = lis[m].pc /\ lis'[m].a = lis[m].a
      BY <2>6, <2>9 DEF Rest
    <3>3. \A m \in Listeners : lis[m].pc = "send" => lis[m].a # a
      BY <1>1 DEF ListenInv, HandsAreOnce
    <3> QED BY <1>1, <2>8, <2>10, <3>1, <3>2, <3>3 DEF ListenInv, HandsAreOnce
  <2>19. CommandsAreOnce'
    <3> SUFFICES ASSUME NEW m \in Listeners, NEW i \in 1 .. Len(lis'[m].cmds), lis'[m].cmds[i].t = "resolve",
                        NEW b, b = lis'[m].cmds[i].a
                 PROVE  /\ b \in Asks /\ ask'[b].task = "resolving" /\ ask'[b].lis = m
                        /\ \A j \in 1 .. Len(lis'[m].cmds) : lis'[m].cmds[j].t = "resolve" /\ lis'[m].cmds[j].a = b => j = i
      BY <2>10 DEF CommandsAreOnce
    <3>0. ASSUME NEW mm \in Listeners, NEW ii \in 1 .. Len(lis[mm].cmds), lis[mm].cmds[ii].t = "resolve"
          PROVE  /\ lis[mm].cmds[ii].a \in Asks /\ ask[lis[mm].cmds[ii].a].task = "resolving"
                 /\ ask[lis[mm].cmds[ii].a].lis = mm /\ lis[mm].cmds[ii].a # a
                 /\ \A j \in 1 .. Len(lis[mm].cmds) :
                      lis[mm].cmds[j].t = "resolve" /\ lis[mm].cmds[j].a = lis[mm].cmds[ii].a => j = ii
      BY <3>0, <1>1 DEF ListenInv, CommandsAreOnce
    <3>1. CASE m # l
      <4>1. lis'[m] = lis[m]
        BY <3>1, <2>9 DEF Rest
      <4> QED BY <4>1, <3>0, <2>8, SMTT(30)
    <3>2. CASE m = l /\ i \in 1 .. Len(lis[l].cmds)
      <4>1. /\ b = lis[l].cmds[i].a /\ lis[l].cmds[i].t = "resolve"
        BY <3>2, <2>5, <2>6, <2>9
      <4>2. /\ b \in Asks /\ ask[b].task = "resolving" /\ ask[b].lis = l /\ b # a
            /\ \A j \in 1 .. Len(lis[l].cmds) : lis[l].cmds[j].t = "resolve" /\ lis[l].cmds[j].a = b => j = i
        <5>1. /\ lis[l].cmds[i].a \in Asks /\ ask[lis[l].cmds[i].a].task = "resolving"
              /\ ask[lis[l].cmds[i].a].lis = l /\ lis[l].cmds[i].a # a
              /\ \A j \in 1 .. Len(lis[l].cmds) :
                   lis[l].cmds[j].t = "resolve" /\ lis[l].cmds[j].a = lis[l].cmds[i].a => j = i
          BY <2>1, <3>0, <3>2, <4>1
        <5> QED BY <4>1, <5>1
      <4>3. ASSUME NEW j \in 1 .. Len(q), q[j].t = "resolve", q[j].a = b
            PROVE  j = i
        <5>1. j \in 1 .. Len(lis[l].cmds)
          BY <4>2, <4>3, <2>3, <2>4, <2>5
        <5> QED BY <4>2, <4>3, <5>1, <2>5
      <4> QED BY <3>2, <4>2, <4>3, <2>6, <2>8, <2>9
    <3>3. CASE m = l /\ i \notin 1 .. Len(lis[l].cmds)
      <4>1. i = Len(lis[l].cmds) + 1
        BY <3>3, <2>4, <2>5, <2>6, <2>9
      <4>2. b = a
        BY <3>3, <4>1, <2>3, <2>5, <2>6, <2>9
      <4>3. ASSUME NEW j \in 1 .. Len(q), q[j].t = "resolve", q[j].a = a
            PROVE  j = i
        <5>1. j \notin 1 .. Len(lis[l].cmds)
          <6> SUFFICES ASSUME j \in 1 .. Len(lis[l].cmds) PROVE FALSE
            OBVIOUS
          <6>1. lis[l].cmds[j] = q[j]
            BY <2>5
          <6>2. lis[l].cmds[j].t = "resolve" /\ lis[l].cmds[j].a = a
            BY <4>3, <6>1
          <6> QED BY <2>1, <3>0, <6>2
        <5> QED BY <4>1, <4>3, <5>1, <2>4, <2>5
      <4> QED BY <3>3, <4>2, <4>3, <2>6, <2>7, <2>8, <2>9
    <3> QED BY <3>1, <3>2, <3>3
  <2>20. ReplaysAreFresh'
    <3>1. ASSUME NEW m \in Listeners, lis'[m].pc = "resend", NEW b \in lis'[m].todo
          PROVE  /\ b \in Asks /\ ask'[b].task # "queued"
                 /\ tstate[ask'[b].st] = m =>
                       \/ ask'[b].task \in {"sending", "await"}
                       \/ ask'[b].task = "resolving" /\ ask'[b].lis = m
      <4>1. lis[m].pc = "resend" /\ b \in lis[m].todo
        BY <3>1, <2>6, <2>9 DEF Rest
      <4>2. /\ b \in Asks /\ ask[b].task # "queued"
            /\ tstate[ask[b].st] = m =>
                       \/ ask[b].task \in {"sending", "await"}
                       \/ ask[b].task = "resolving" /\ ask[b].lis = m
        BY <4>1 DEF ListenInv, ReplaysAreFresh
      <4> QED BY <4>2, <2>7, <2>8 DEF l
    <3>2. \A c \in Conns, b \in 1 .. MaxAsks : view[c][b] = "resolved" =>
           b \in Asks /\ ask'[b].task \in {"finish", "done"}
      BY <1>1, <2>8 DEF ListenInv, ReplaysAreFresh
    <3> QED BY <1>1, <2>10, <3>1, <3>2 DEF ReplaysAreFresh
  <2>21. RequestsReach'
    <3>1. \A b \in cb : b \in Asks /\ b # a
      BY <1>1 DEF ListenInv, AsksExist
    <3>2. \A m \in Listeners : /\ lis'[m].pc = lis[m].pc /\ lis'[m].a = lis[m].a /\ lis'[m].conn = lis[m].conn
                               /\ lis'[m].todo = lis[m].todo /\ lis'[m].ids = lis[m].ids
      BY <2>6, <2>9 DEF Rest
    <3> QED BY <1>1, <2>8, <2>10, <3>1, <3>2 DEF ListenInv, RequestsReach, Replaying
  <2>22. SenderResolves'
    <3> SUFFICES ASSUME NEW b \in Asks, ask'[b].task # "queued", ask'[b].st = entry, Runs(ask[b].conv)
                 PROVE  HasListener' /\ (ask'[b].task = "resolving" => ask'[b].lis = tstate[entry])
      BY <1>1, <2>7, <2>8, <2>10 DEF SenderResolves, Runs
    <3>1. ask[b].task # "queued" /\ ask[b].st = entry
      BY <1>1, <2>7, <2>8
    <3>2. HasListener /\ (ask[b].task = "resolving" => ask[b].lis = tstate[entry])
      BY <3>1 DEF ListenInv, SenderResolves
    <3>3. HasListener'
      <4>1. tstate[entry] \in Listeners
        BY <3>2 DEF HasListener, ListenInv, StatesExist
      <4>2. lis'[tstate[entry]].conv = lis[tstate[entry]].conv
        BY <4>1, <2>6, <2>9 DEF Rest
      <4> QED BY <3>2, <4>2, <1>1 DEF HasListener
    <3> QED BY <3>1, <3>2, <3>3, <2>7, <2>8 DEF l
  <2>23. UnloadSparesSubscribers'
    BY <1>1 DEF ListenInv, UnloadSparesSubscribers
  <2> QED BY <2>11, <2>13, <2>14, <2>15, <2>16, <2>17, <2>18, <2>19, <2>20, <2>21, <2>22, <2>23 DEF ListenInv
<1> QED BY <1>2, <1>3

\* Listeners end or are cancelled, ThreadStates lose theirs, and nothing is new.
StatesFall ==
  /\ Len(tstate') = Len(tstate) /\ Len(lis') = Len(lis)
  /\ \A s \in 1 .. Len(tstate) : tstate'[s] # 0 => tstate'[s] = tstate[s] /\ lis'[tstate[s]].pc # "ended"
  /\ \A m \in Listeners :
       /\ lis'[m].conv = lis[m].conv /\ lis'[m].st = lis[m].st /\ lis'[m].entry = lis[m].entry
       /\ lis'[m].conn = lis[m].conn /\ lis'[m].todo = lis[m].todo /\ lis'[m].a = lis[m].a /\ lis'[m].ids = lis[m].ids
       /\ lis'[m].pc = lis[m].pc \/ (lis[m].pc \in {"idle", "forget"} /\ lis'[m].pc \in {"idle", "ended"})
       /\ lis'[m].cmds = lis[m].cmds \/ lis'[m].cmds = <<>>
       /\ lis'[m].pc = "ended" => lis'[m].cmds = <<>>

LEMMA StatesFallKept ==
  ASSUME ListenInv, StatesFall, CoresStay, UNCHANGED <<conv, cb, ask, view>>, entry' \in {0, entry},
         unloader'.pc # "off" => unloader'.conv \in Convs
  PROVE  StatesExist' /\ AsksExist' /\ HandsAreOnce' /\ CommandsAreOnce' /\ ReplaysAreFresh'
<1> USE DEF Listeners, Asks, Convs
<1>1. StatesExist'
  <2>1. entry' \in 0 .. Len(tstate)
    BY DEF ListenInv, StatesExist
  <2>2. \A s \in 1 .. Len(tstate) :
         tstate'[s] # 0 => tstate'[s] \in Listeners /\ lis'[tstate'[s]].st = s /\ lis'[tstate'[s]].pc # "ended"
    BY DEF ListenInv, StatesExist, StatesFall
  <2>3. ASSUME NEW m \in Listeners
        PROVE  /\ lis'[m].conv \in Convs /\ lis'[m].st \in 1 .. Len(tstate)
               /\ lis'[m].pc \in {"resume", "replay", "resend"} => lis'[m].conn \in Conns
               /\ lis'[m].pc = "ended" => lis'[m].cmds = <<>>
    BY DEF ListenInv, StatesExist, StatesFall
  <2>4. ASSUME NEW m \in Listeners, NEW i \in 1 .. Len(lis'[m].cmds), lis'[m].cmds[i].t = "resume"
        PROVE  lis'[m].cmds[i].c \in Conns
    <3>1. lis'[m].cmds = lis[m].cmds
      BY <2>4 DEF StatesFall
    <3> QED BY <2>4, <3>1 DEF ListenInv, StatesExist
  <2> QED BY <2>1, <2>2, <2>3, <2>4 DEF ListenInv, StatesExist, StatesFall, CoresStay
<1>2. AsksExist'
  BY DEF ListenInv, AsksExist, StatesFall, CoresStay
<1>4. HandsAreOnce'
  <2>1. \A m \in Listeners : (lis'[m].pc = "send" <=> lis[m].pc = "send") /\ lis'[m].a = lis[m].a
    BY DEF StatesFall
  <2>2. Listeners' = Listeners
    BY DEF StatesFall
  <2> QED BY <2>1, <2>2 DEF ListenInv, HandsAreOnce
<1>5. CommandsAreOnce'
  <2> SUFFICES ASSUME NEW m \in Listeners, NEW i \in 1 .. Len(lis'[m].cmds), lis'[m].cmds[i].t = "resolve"
               PROVE  LET a == lis'[m].cmds[i].a IN
                      /\ a \in Asks /\ ask[a].task = "resolving" /\ ask[a].lis = m
                      /\ \A j \in 1 .. Len(lis'[m].cmds) :
                           lis'[m].cmds[j].t = "resolve" /\ lis'[m].cmds[j].a = a => j = i
    BY DEF CommandsAreOnce, StatesFall
  <2>1. lis'[m].cmds = lis[m].cmds
    BY DEF StatesFall
  <2> QED BY <2>1 DEF ListenInv, CommandsAreOnce
<1>6. ReplaysAreFresh'
  <2>1. ASSUME NEW m \in Listeners, lis'[m].pc = "resend", NEW a \in lis'[m].todo
        PROVE  /\ a \in Asks /\ ask[a].task # "queued"
               /\ tstate'[ask[a].st] = m =>
                     \/ ask[a].task \in {"sending", "await"}
                     \/ ask[a].task = "resolving" /\ ask[a].lis = m
    <3>1. lis[m].pc = "resend" /\ a \in lis[m].todo
      BY <2>1 DEF StatesFall
    <3>2. /\ a \in Asks /\ ask[a].task # "queued"
          /\ tstate[ask[a].st] = m =>
                     \/ ask[a].task \in {"sending", "await"}
                     \/ ask[a].task = "resolving" /\ ask[a].lis = m
      BY <3>1 DEF ListenInv, ReplaysAreFresh
    <3>3. ask[a].st \in 1 .. Len(tstate)
      BY <3>2 DEF ListenInv, AsksExist
    <3>4. tstate'[ask[a].st] = m => tstate[ask[a].st] = m
      BY <3>3 DEF StatesFall
    <3> QED BY <3>2, <3>4
  <2>2. Asks' = Asks /\ Listeners' = Listeners
    BY DEF StatesFall
  <2>3. \A c \in Conns, a \in 1 .. MaxAsks : view[c][a] = "resolved" =>
         a \in Asks /\ ask[a].task \in {"finish", "done"}
    BY DEF ListenInv, ReplaysAreFresh
  <2> QED BY <2>1, <2>2, <2>3 DEF ReplaysAreFresh
<1> QED BY <1>1, <1>2, <1>4, <1>5, <1>6

LEMMA StatesFallKeep ==
  ASSUME ListenInv, StatesFall, CoresStay, UNCHANGED <<conv, req, cb, ask, view>>, entry' \in {0, entry},
         unloader'.pc # "off" => unloader'.conv \in Convs
  PROVE  StatesExist' /\ AsksExist' /\ RequestIsCurrent' /\ HandsAreOnce' /\ CommandsAreOnce' /\ ReplaysAreFresh'
<1>1. RequestIsCurrent'
  BY DEF ListenInv, RequestIsCurrent, StatesFall, CoresStay, Listeners, Asks, Convs
<1> QED BY <1>1, StatesFallKept

\* The thread's state is forgotten, with those who followed it.
LEMMA StateForgotten ==
  ASSUME ListenInv, TypeOK', StatesFall, CoresStay, EventsAreOnce', TurnsWait', RequestIsCurrent',
         UNCHANGED <<conv, cb, ask, view>>, entry' = 0, subs' = {},
         StatesExist' /\ AsksExist' /\ HandsAreOnce' /\ CommandsAreOnce' /\ ReplaysAreFresh'
  PROVE  ListenInv'
<1>1. OneListener' /\ RequestsReach' /\ UnloadSparesSubscribers'
  BY DEF OneListener, RequestsReach, UnloadSparesSubscribers
<1>2. SenderResolves'
  <2>1. \A a \in Asks : ask[a].task # "queued" => ask[a].st # 0
    BY DEF ListenInv, AsksExist
  <2> QED BY <2>1 DEF SenderResolves, Asks
<1> QED BY <1>1, <1>2 DEF ListenInv

\* A listener ends; it clears its ThreadState only if that is still its own.
LEMMA ListenerEndsStep ==
  ASSUME ListenInv, NEW l \in Listeners, ListenerEnds(l)
  PROVE  ListenInv'
<1> USE DEF Listeners
<1> DEFINE new == [lis[l] EXCEPT !.pc = "ended", !.cmds = <<>>]
           s == lis[l].st
<1>0. /\ TypeOK /\ lis[l] \in Listener /\ tstate \in Seq(Nat) /\ s \in 1 .. Len(tstate)
      /\ lis \in Seq(Listener) /\ lis[l].conv \in Convs
  BY LisTyped DEF ListenInv, TypeOK, StatesExist
<1>1. /\ UNCHANGED <<conv, core, live, entry, subs, req, requests, unloads, unloader, closer, cb, ask, view, watch>>
      /\ lis[l].pc = "idle" /\ lis' = [lis EXCEPT ![l] = new]
      /\ tstate' = IF tstate[s] = l THEN [tstate EXCEPT ![s] = 0] ELSE tstate
      /\ lis[l].cancel \/ entry # lis[l].entry \/ core[lis[l].conv].phase = "dead"
  BY DEF ListenerEnds, coreVars, taskVars, askVars
<1>2. /\ new \in Listener /\ new.pc = "ended" /\ new.conv = lis[l].conv /\ new.st = lis[l].st
      /\ new.entry = lis[l].entry /\ new.cancel = lis[l].cancel /\ new.cmds = <<>> /\ new.a = lis[l].a
      /\ new.conn = lis[l].conn /\ new.todo = lis[l].todo /\ new.ids = lis[l].ids
  <2>1. <<>> \in Seq(Command)
    OBVIOUS
  <2> QED BY <1>0, <2>1 DEF Listener
<1> HIDE DEF new
<1>3. /\ lis' \in Seq(Listener) /\ Len(lis') = Len(lis) /\ lis'[l] = new
      /\ \A m \in Listeners : m # l => lis'[m] = lis[m]
  BY <1>0, <1>1, <1>2, OneLis DEF Rest
<1>4. /\ tstate' \in Seq(Nat) /\ Len(tstate') = Len(tstate)
      /\ \A r \in 1 .. Len(tstate) : tstate'[r] = IF r = s /\ tstate[s] = l THEN 0 ELSE tstate[r]
  BY <1>0, <1>1
<1> HIDE DEF s
<1>5. \A r \in 1 .. Len(tstate) : tstate[r] # 0 =>
         /\ tstate[r] \in Listeners /\ lis[tstate[r]].st = r /\ lis[tstate[r]].pc # "ended"
  BY DEF ListenInv, StatesExist
<1>6. \A r \in 1 .. Len(tstate) : tstate'[r] # 0 => tstate'[r] = tstate[r] /\ tstate[r] # l
  BY <1>4, <1>5 DEF s
<1>7. StatesFall
  <2>1. \A r \in 1 .. Len(tstate) : tstate'[r] # 0 => tstate'[r] = tstate[r] /\ lis'[tstate[r]].pc # "ended"
    BY <1>3, <1>5, <1>6
  <2>2. ASSUME NEW m \in Listeners
        PROVE  /\ lis'[m].conv = lis[m].conv /\ lis'[m].st = lis[m].st /\ lis'[m].entry = lis[m].entry
               /\ lis'[m].conn = lis[m].conn /\ lis'[m].todo = lis[m].todo /\ lis'[m].a = lis[m].a
               /\ lis'[m].ids = lis[m].ids
               /\ lis'[m].pc = lis[m].pc \/ (lis[m].pc \in {"idle", "forget"} /\ lis'[m].pc \in {"idle", "ended"})
               /\ lis'[m].cmds = lis[m].cmds \/ lis'[m].cmds = <<>>
               /\ lis'[m].pc = "ended" => lis'[m].cmds = <<>>
    BY <1>1, <1>2, <1>3 DEF ListenInv, StatesExist
  <2> QED BY <1>3, <1>4, <2>1, <2>2 DEF StatesFall
<1>8. TypeOK'
  BY <1>0, <1>1, <1>3, <1>4 DEF TypeOK
<1>9. CoresStay /\ EventsAreOnce' /\ TurnsWait'
  BY <1>1, AskSame, StayQueue, CoreSame
<1>10. StatesExist' /\ AsksExist' /\ RequestIsCurrent' /\ HandsAreOnce' /\ CommandsAreOnce' /\ ReplaysAreFresh'
  <2>1. unloader'.pc # "off" => unloader'.conv \in Convs
    BY <1>1 DEF ListenInv, StatesExist
  <2> QED BY <1>1, <1>7, <1>9, <2>1, StatesFallKeep
<1>11. OneListener'
  <2> SUFFICES ASSUME entry # 0
               PROVE  /\ tstate'[entry] # 0 => /\ ~lis'[tstate'[entry]].cancel
                                               /\ lis'[tstate'[entry]].pc # "ended"
                                               /\ lis'[tstate'[entry]].entry = entry
                      /\ \A m \in Listeners :
                           lis'[m].st = entry /\ ~lis'[m].cancel /\ lis'[m].pc # "ended" => tstate'[entry] = m
    BY <1>1, <1>3 DEF OneListener
  <2>1. entry \in 1 .. Len(tstate)
    BY DEF ListenInv, StatesExist
  <2>2. ASSUME tstate'[entry] # 0
        PROVE  /\ ~lis'[tstate'[entry]].cancel /\ lis'[tstate'[entry]].pc # "ended"
               /\ lis'[tstate'[entry]].entry = entry
    <3>1. tstate'[entry] = tstate[entry] /\ tstate[entry] # l /\ tstate[entry] # 0
      BY <2>1, <2>2, <1>6
    <3>2. lis'[tstate[entry]] = lis[tstate[entry]]
      BY <2>1, <3>1, <1>3, <1>5
    <3> QED BY <3>1, <3>2 DEF ListenInv, OneListener
  <2>3. ASSUME NEW m \in Listeners, lis'[m].st = entry, ~lis'[m].cancel, lis'[m].pc # "ended"
        PROVE  tstate'[entry] = m
    <3>1. m # l /\ lis'[m] = lis[m]
      BY <2>3, <1>2, <1>3
    <3>2. tstate[entry] = m
      BY <2>3, <3>1 DEF ListenInv, OneListener
    <3> QED BY <2>1, <3>1, <3>2, <1>4
  <2> QED BY <2>2, <2>3
<1>12. RequestsReach'
  <2> SUFFICES ASSUME NEW c \in subs, NEW a \in cb, ask[a].conv = conv, view[c][a] = "new"
               PROVE  \E m \in Listeners : Shows(m, c, a)'
    <3>1. subs \subseteq Conns /\ Listeners' = Listeners
      BY <1>0, <1>3 DEF TypeOK
    <3> QED BY <1>1, <3>1, ReachByShows DEF RequestsReach, Replaying, Shows
  <2>1. c \in Conns
    BY <1>0 DEF TypeOK
  <2>2. PICK m \in Listeners : Shows(m, c, a)
    BY SomebodyShows
  <2>3. m # l
    BY <2>2, <1>1 DEF Shows
  <2> QED BY <2>2, <2>3, <1>3 DEF Shows
<1>13. SenderResolves'
  <2> SUFFICES ASSUME NEW a \in Asks, ask[a].task # "queued", ask[a].st = entry, Runs(ask[a].conv)
               PROVE  HasListener' /\ (ask[a].task = "resolving" => ask[a].lis = tstate'[entry])
    BY <1>1 DEF SenderResolves, Runs, Asks
  <2>1. HasListener /\ (ask[a].task = "resolving" => ask[a].lis = tstate[entry])
    BY DEF ListenInv, SenderResolves
  <2>2. entry \in 1 .. Len(tstate) /\ tstate[entry] \in Listeners
    BY <2>1, <1>5 DEF ListenInv, StatesExist, HasListener
  <2>3. tstate[entry] # l
    <3> SUFFICES ASSUME tstate[entry] = l PROVE FALSE
      OBVIOUS
    <3>1. ~lis[l].cancel /\ lis[l].entry = entry
      BY <2>1 DEF HasListener, ListenInv, OneListener
    <3>2. core[lis[l].conv].phase # "dead"
      BY <2>1 DEF HasListener, Runs
    <3> QED BY <3>1, <3>2, <1>1
  <2>4. tstate'[entry] = tstate[entry] /\ lis'[tstate[entry]] = lis[tstate[entry]]
    BY <2>2, <2>3, <1>3, <1>4 DEF s
  <2> QED BY <2>1, <2>4, <1>1 DEF HasListener
<1>14. UnloadSparesSubscribers'
  BY <1>1 DEF ListenInv, UnloadSparesSubscribers
<1> QED BY <1>8, <1>9, <1>10, <1>11, <1>12, <1>13, <1>14 DEF ListenInv

\* clear_listener.
LEMMA ClearedKeeps ==
  ASSUME ListenInv, NEW s \in 1 .. Len(tstate)
  PROVE  /\ Cleared(s) \in Seq(Listener) /\ Len(Cleared(s)) = Len(lis)
         /\ \A m \in Listeners :
              LET r == Cleared(s)[m] IN
              /\ r.conv = lis[m].conv /\ r.st = lis[m].st /\ r.entry = lis[m].entry
              /\ r.conn = lis[m].conn /\ r.todo = lis[m].todo /\ r.a = lis[m].a /\ r.ids = lis[m].ids
              /\ r.pc = lis[m].pc /\ r.cmds = lis[m].cmds
              /\ IF tstate[s] = m THEN r.cancel ELSE r.cancel = lis[m].cancel
<1>0. TypeOK /\ lis \in Seq(Listener) /\ tstate \in Seq(Nat)
  BY DEF ListenInv, TypeOK
<1>1. CASE tstate[s] = 0
  <2>1. Cleared(s) = lis
    BY <1>1 DEF Cleared
  <2>2. \A m \in Listeners : m # 0
    BY DEF Listeners
  <2> QED BY <1>0, <1>1, <2>1, <2>2
<1>2. CASE tstate[s] # 0
  <2> DEFINE l == tstate[s]
             new == [lis[l] EXCEPT !.cancel = TRUE]
  <2>1. l \in Listeners
    BY <1>2 DEF ListenInv, StatesExist
  <2>2. lis[l] \in Listener
    BY <1>0, <2>1, LisTyped
  <2>4. /\ new \in Listener /\ new.pc = lis[l].pc /\ new.conv = lis[l].conv /\ new.st = lis[l].st /\ new.entry = lis[l].entry
        /\ new.conn = lis[l].conn /\ new.todo = lis[l].todo /\ new.a = lis[l].a /\ new.ids = lis[l].ids
        /\ new.cmds = lis[l].cmds /\ new.cancel
    BY <2>2 DEF Listener
  <2>5. Cleared(s) = [lis EXCEPT ![l] = new]
    BY <1>2 DEF Cleared
  <2> HIDE DEF new, l
  <2>6. /\ Cleared(s) \in Seq(Listener) /\ Len(Cleared(s)) = Len(lis) /\ Cleared(s)[l] = new
        /\ \A m \in Listeners : m # l => Cleared(s)[m] = lis[m]
    BY <1>0, <2>1, <2>4, <2>5 DEF Listeners
  <2> QED BY <2>4, <2>6 DEF l
<1> QED BY <1>1, <1>2

\* remove_thread_state, after a request or for a closed connection.
LEMMA RemoveSteps ==
  ASSUME ListenInv, RequestRemove \/ CloserRemove
  PROVE  ListenInv'
<1>0. /\ TypeOK /\ tstate \in Seq(Nat) /\ lis \in Seq(Listener) /\ entry \in 0 .. Len(tstate) /\ req \in Request
  BY DEF ListenInv, TypeOK, StatesExist
<1>1. /\ UNCHANGED <<conv, core, live, requests, unloads, unloader, cb, ask, view>> /\ remove_thread_state
      /\ watch' = NotWatched /\ closer' \in {closer, "off"} /\ (req' = Idle \/ req' = req)
  BY DEF RequestRemove, CloserRemove, TeardownRemove, Finish, coreVars, askVars
<1>2. entry' = 0 /\ subs' = {}
  BY <1>1 DEF remove_thread_state
<1>3. /\ tstate' \in Seq(Nat) /\ Len(tstate') = Len(tstate)
      /\ \A s \in 1 .. Len(tstate) : tstate'[s] = 0 \/ tstate'[s] = tstate[s]
  <2>1. CASE entry = 0
    BY <1>0, <1>1, <2>1 DEF remove_thread_state
  <2>2. CASE entry # 0
    <3>1. tstate' = [tstate EXCEPT ![entry] = 0] /\ entry \in 1 .. Len(tstate)
      BY <1>0, <1>1, <2>2 DEF remove_thread_state
    <3> QED BY <1>0, <3>1
  <2> QED BY <2>1, <2>2
<1>4. /\ lis' \in Seq(Listener) /\ Len(lis') = Len(lis)
      /\ \A m \in Listeners :
           /\ lis'[m].conv = lis[m].conv /\ lis'[m].st = lis[m].st /\ lis'[m].entry = lis[m].entry
           /\ lis'[m].conn = lis[m].conn /\ lis'[m].todo = lis[m].todo /\ lis'[m].a = lis[m].a
           /\ lis'[m].ids = lis[m].ids /\ lis'[m].pc = lis[m].pc /\ lis'[m].cmds = lis[m].cmds
  <2>1. CASE entry = 0
    BY <1>0, <1>1, <2>1 DEF remove_thread_state
  <2>2. CASE entry # 0
    <3>1. lis' = Cleared(entry) /\ entry \in 1 .. Len(tstate)
      BY <1>0, <1>1, <2>2 DEF remove_thread_state
    <3> QED BY <3>1, ClearedKeeps
  <2> QED BY <2>1, <2>2
<1>5. StatesFall
  <2>1. \A s \in 1 .. Len(tstate) : tstate'[s] # 0 => tstate'[s] = tstate[s] /\ lis'[tstate[s]].pc # "ended"
    BY <1>3, <1>4 DEF ListenInv, StatesExist
  <2>2. \A m \in Listeners : lis[m].pc = "ended" => lis[m].cmds = <<>>
    BY DEF ListenInv, StatesExist
  <2> QED BY <1>3, <1>4, <2>1, <2>2 DEF StatesFall
<1>6. CoresStay /\ EventsAreOnce' /\ TurnsWait'
  BY <1>1, AskSame, StayQueue, CoreSame
<1>7. TypeOK'
  <2>1. req' \in Request
    BY <1>0, <1>1 DEF Idle, Request
  <2>2. closer' \in {"off", "cancel", "remove"} /\ entry' \in Nat /\ subs' \subseteq Conns
    BY <1>0, <1>1, <1>2 DEF TypeOK
  <2> QED BY <1>0, <1>1, <1>3, <1>4, <2>1, <2>2, NotWatchedTyped DEF TypeOK
<1>8. StatesExist' /\ AsksExist' /\ HandsAreOnce' /\ CommandsAreOnce' /\ ReplaysAreFresh' /\ RequestIsCurrent'
  <2>1. unloader'.pc # "off" => unloader'.conv \in Convs
    BY <1>1 DEF ListenInv, StatesExist
  <2>2. CASE req' = req
    BY <1>1, <1>2, <1>5, <1>6, <2>1, <2>2, StatesFallKeep
  <2>3. CASE req' = Idle
    <3>1. RequestIsCurrent'
      BY <2>3 DEF RequestIsCurrent, Idle
    <3> QED BY <1>1, <1>2, <1>5, <1>6, <2>1, <3>1, StatesFallKept
  <2> QED BY <1>1, <2>2, <2>3
<1> QED BY <1>1, <1>2, <1>5, <1>6, <1>7, <1>8, StateForgotten

\* The unloading listener forgets the thread's state and tells the conversation
\* to stop.
LEMMA UnloadForgetStep ==
  ASSUME ListenInv, NEW l \in Listeners, UnloadForget(l)
  PROVE  ListenInv'
<1> DEFINE new == [lis[l] EXCEPT !.pc = "idle", !.cancel = TRUE]
           k == lis[l].conv
           nc == [core[k] EXCEPT !.stop = TRUE]
<1>0. /\ TypeOK /\ tstate \in Seq(Nat) /\ lis \in Seq(Listener) /\ entry \in 0 .. Len(tstate)
      /\ lis[l] \in Listener /\ k \in Convs /\ k \in Nat
  BY LisTyped DEF ListenInv, TypeOK, StatesExist, Convs
<1>1. /\ UNCHANGED <<conv, live, req, requests, unloads, closer, cb, ask, view, watch>>
      /\ entry' = 0 /\ subs' = {} /\ lis[l].pc = "forget" /\ lis' = [lis EXCEPT ![l] = new]
      /\ tstate' = IF entry = 0 THEN tstate ELSE [tstate EXCEPT ![entry] = 0]
      /\ unloader' = [pc |-> "wait", conv |-> k] /\ core' = [core EXCEPT ![k] = nc]
  BY DEF UnloadForget, askVars
<1> HIDE DEF k
<1>2. /\ new \in Listener /\ new.pc = "idle" /\ new.conv = lis[l].conv /\ new.st = lis[l].st /\ new.entry = lis[l].entry
      /\ new.conn = lis[l].conn /\ new.todo = lis[l].todo /\ new.a = lis[l].a /\ new.ids = lis[l].ids
      /\ new.cmds = lis[l].cmds
  BY <1>0 DEF Listener
<1> HIDE DEF new
<1>3. /\ tstate' \in Seq(Nat) /\ Len(tstate') = Len(tstate)
      /\ \A s \in 1 .. Len(tstate) : tstate'[s] = 0 \/ tstate'[s] = tstate[s]
  <2>1. CASE entry = 0
    BY <1>0, <1>1, <2>1
  <2>2. CASE entry # 0
    <3>1. tstate' = [tstate EXCEPT ![entry] = 0] /\ entry \in 1 .. Len(tstate)
      BY <1>0, <1>1, <2>2
    <3> QED BY <1>0, <3>1
  <2> QED BY <2>1, <2>2
<1>4. lis' \in Seq(Listener) /\ lis'[l] = new /\ Rest(l)
  BY <1>0, <1>1, <1>2, OneLis
<1>5. StatesFall
  <2>1. \A s \in 1 .. Len(tstate) : tstate'[s] # 0 => tstate'[s] = tstate[s] /\ lis'[tstate[s]].pc # "ended"
    BY <1>2, <1>3, <1>4, SMTT(30) DEF ListenInv, StatesExist, Rest
  <2>2. ASSUME NEW m \in Listeners
        PROVE  /\ lis'[m].conv = lis[m].conv /\ lis'[m].st = lis[m].st /\ lis'[m].entry = lis[m].entry
               /\ lis'[m].conn = lis[m].conn /\ lis'[m].todo = lis[m].todo /\ lis'[m].a = lis[m].a
               /\ lis'[m].ids = lis[m].ids
               /\ lis'[m].pc = lis[m].pc \/ (lis[m].pc \in {"idle", "forget"} /\ lis'[m].pc \in {"idle", "ended"})
               /\ lis'[m].cmds = lis[m].cmds \/ lis'[m].cmds = <<>>
               /\ lis'[m].pc = "ended" => lis'[m].cmds = <<>>
    BY <1>1, <1>2, <1>4 DEF ListenInv, StatesExist, Rest
  <2> QED BY <1>3, <1>4, <2>1, <2>2 DEF StatesFall, Rest
<1>6. core' \in Seq(Conversation) /\ CoresStay /\ EventsAreOnce' /\ TurnsWait'
  <2>1. core[k] \in Conversation /\ Len(core[k].ev) \in Nat
    BY <1>0, CoreTyped DEF k
  <2>2. /\ nc \in Conversation /\ nc.ev = core[k].ev /\ nc.ask = core[k].ask
        /\ nc.phase = core[k].phase
    BY <2>1 DEF Conversation
  <2> HIDE DEF nc
  <2>3. \A i \in 1 .. Len(nc.ev) : nc.ev[i].t = "ask" => i <= Len(core[k].ev) /\ nc.ev[i] = core[k].ev[i]
    BY <2>1, <2>2
  <2>4. AsksQueue
    BY <1>1, AskSame, StayQueue
  <2> QED BY <1>0, <1>1, <2>2, <2>3, <2>4, ConversationChanges
<1>7. unloader' \in [pc : {"off", "wait", "remove", "clear"}, conv : Nat] /\ unloader'.conv \in Convs
  BY <1>0, <1>1
<1>8. TypeOK'
  <2>1. entry' \in Nat /\ subs' \subseteq Conns
    BY <1>1
  <2> QED BY <1>0, <1>1, <1>3, <1>4, <1>6, <1>7, <2>1 DEF TypeOK
<1>9. StatesExist' /\ AsksExist' /\ RequestIsCurrent' /\ HandsAreOnce' /\ CommandsAreOnce' /\ ReplaysAreFresh'
  BY <1>1, <1>5, <1>6, <1>7, StatesFallKeep
<1> QED BY <1>1, <1>5, <1>6, <1>8, <1>9, StateForgotten

\* thread_state: an entry may be created, listeners subscribe who resumes, and
\* nothing else changes.
EntryEnsured ==
  /\ Len(tstate') \in Nat /\ Len(tstate') >= Len(tstate) /\ Len(lis') = Len(lis)
  /\ \A s \in 1 .. Len(tstate) : tstate'[s] = tstate[s]
  /\ \A s \in 1 .. Len(tstate') : s > Len(tstate) => tstate'[s] = 0
  /\ entry' = entry \/ (entry' = Len(tstate) + 1 /\ entry' <= Len(tstate'))
  /\ \A m \in Listeners :
       /\ lis'[m].conv = lis[m].conv /\ lis'[m].st = lis[m].st /\ lis'[m].entry = lis[m].entry
       /\ lis'[m].conn = lis[m].conn /\ lis'[m].todo = lis[m].todo /\ lis'[m].a = lis[m].a /\ lis'[m].ids = lis[m].ids
       /\ lis'[m].cmds = lis[m].cmds /\ lis'[m].cancel = lis[m].cancel
       /\ lis'[m].pc = lis[m].pc \/ (lis[m].pc = "resume" /\ lis'[m].pc = "replay")

LEMMA EnsureEntryDoes ==
  ASSUME TypeOK, NEW more, EnsureEntry(more)
  PROVE  /\ tstate' \in Seq(Nat) /\ Len(tstate') \in Nat /\ Len(tstate') >= Len(tstate)
         /\ \A s \in 1 .. Len(tstate) : tstate'[s] = tstate[s]
         /\ \A s \in 1 .. Len(tstate') : s > Len(tstate) => tstate'[s] = 0
         /\ entry' = entry \/ (entry' = Len(tstate) + 1 /\ entry' <= Len(tstate'))
         /\ entry' \in Nat /\ entry' # 0 /\ subs' = subs \cup more
<1>0. tstate \in Seq(Nat) /\ Len(tstate) \in Nat /\ entry \in Nat
  BY DEF TypeOK
<1>1. CASE entry = 0
  <2>1. tstate' = Append(tstate, 0) /\ entry' = Len(tstate) + 1
    BY <1>1 DEF EnsureEntry
  <2>2. /\ tstate' \in Seq(Nat) /\ Len(tstate') = Len(tstate) + 1
        /\ \A s \in 1 .. Len(tstate) : tstate'[s] = tstate[s]
        /\ tstate'[Len(tstate) + 1] = 0
    BY <1>0, <2>1
  <2>3. \A s \in 1 .. Len(tstate') : s > Len(tstate) => s = Len(tstate) + 1
    BY <1>0, <2>2
  <2> QED BY <1>0, <2>1, <2>2, <2>3 DEF EnsureEntry
<1>2. CASE entry # 0
  BY <1>0, <1>2 DEF EnsureEntry
<1> QED BY <1>1, <1>2

LEMMA EntryEnsuredKeeps ==
  ASSUME ListenInv, TypeOK', EntryEnsured, UNCHANGED <<conv, core, unloader, cb, ask, view>>,
         RequestIsCurrent', UnloadSparesSubscribers',
         \A c \in subs' \ subs :
           \/ \E m \in Listeners : lis'[m].pc = "replay" /\ lis'[m].conn = c
           \/ \A a \in cb : ask[a].conv # conv
  PROVE  ListenInv'
<1> USE DEF Listeners, Asks, Convs
<1>0. Len(tstate) \in Nat /\ entry \in 0 .. Len(tstate)
  BY DEF ListenInv, TypeOK, StatesExist
<1>1. StatesExist'
  <2>1. entry' \in 0 .. Len(tstate')
    BY <1>0 DEF EntryEnsured
  <2>2. ASSUME NEW s \in 1 .. Len(tstate'), tstate'[s] # 0
        PROVE  tstate'[s] \in Listeners /\ lis'[tstate'[s]].st = s /\ lis'[tstate'[s]].pc # "ended"
    <3>1. s \in 1 .. Len(tstate) /\ tstate'[s] = tstate[s]
      BY <1>0, <2>2 DEF EntryEnsured
    <3>2. tstate[s] \in Listeners /\ lis[tstate[s]].st = s /\ lis[tstate[s]].pc # "ended"
      BY <2>2, <3>1 DEF ListenInv, StatesExist
    <3>3. lis'[tstate[s]].st = s /\ lis'[tstate[s]].pc # "ended"
      BY <3>2 DEF EntryEnsured
    <3> QED BY <3>1, <3>2, <3>3
  <2>3. ASSUME NEW m \in Listeners
        PROVE  /\ lis'[m].conv \in Convs /\ lis'[m].st \in 1 .. Len(tstate')
               /\ lis'[m].pc \in {"resume", "replay", "resend"} => lis'[m].conn \in Conns
               /\ lis'[m].pc = "ended" => lis'[m].cmds = <<>>
               /\ \A i \in 1 .. Len(lis'[m].cmds) : lis'[m].cmds[i].t = "resume" => lis'[m].cmds[i].c \in Conns
    <3>1. lis[m].st \in 1 .. Len(tstate)
      BY DEF ListenInv, StatesExist
    <3>2. lis'[m].st \in 1 .. Len(tstate')
      BY <1>0, <3>1 DEF EntryEnsured
    <3>3. /\ lis[m].conv \in Convs
          /\ lis[m].pc \in {"resume", "replay", "resend"} => lis[m].conn \in Conns
          /\ lis[m].pc = "ended" => lis[m].cmds = <<>>
          /\ \A i \in 1 .. Len(lis[m].cmds) : lis[m].cmds[i].t = "resume" => lis[m].cmds[i].c \in Conns
      BY DEF ListenInv, StatesExist
    <3>4. /\ lis'[m].conv = lis[m].conv /\ lis'[m].conn = lis[m].conn /\ lis'[m].cmds = lis[m].cmds
          /\ lis'[m].pc = lis[m].pc \/ (lis[m].pc = "resume" /\ lis'[m].pc = "replay")
      BY DEF EntryEnsured
    <3> QED BY <3>2, <3>3, <3>4
  <2> QED BY <2>1, <2>2, <2>3 DEF ListenInv, StatesExist, EntryEnsured
<1>2. AsksExist'
  <2>1. \A a \in Asks : ask[a].task # "queued" => ask[a].st \in 1 .. Len(tstate')
    BY <1>0 DEF ListenInv, AsksExist, EntryEnsured
  <2> QED BY <2>1 DEF ListenInv, AsksExist, EntryEnsured
<1>3. EventsAreOnce' /\ TurnsWait'
  BY AskSame, StayQueue, CoreSame
<1>4. HandsAreOnce'
  <2>1. \A m \in Listeners : (lis'[m].pc = "send" <=> lis[m].pc = "send") /\ lis'[m].a = lis[m].a
    BY DEF EntryEnsured
  <2>2. Listeners' = Listeners
    BY DEF EntryEnsured
  <2> QED BY <2>1, <2>2 DEF ListenInv, HandsAreOnce
<1>5. CommandsAreOnce'
  <2> SUFFICES ASSUME NEW m \in Listeners, NEW i \in 1 .. Len(lis'[m].cmds), lis'[m].cmds[i].t = "resolve"
               PROVE  LET a == lis'[m].cmds[i].a IN
                      /\ a \in Asks /\ ask[a].task = "resolving" /\ ask[a].lis = m
                      /\ \A j \in 1 .. Len(lis'[m].cmds) :
                           lis'[m].cmds[j].t = "resolve" /\ lis'[m].cmds[j].a = a => j = i
    BY DEF CommandsAreOnce, EntryEnsured
  <2>1. lis'[m].cmds = lis[m].cmds
    BY DEF EntryEnsured
  <2> QED BY <2>1 DEF ListenInv, CommandsAreOnce
<1>6. ReplaysAreFresh'
  <2>1. ASSUME NEW m \in Listeners, lis'[m].pc = "resend", NEW a \in lis'[m].todo
        PROVE  /\ a \in Asks /\ ask[a].task # "queued"
               /\ tstate'[ask[a].st] = m =>
                     \/ ask[a].task \in {"sending", "await"}
                     \/ ask[a].task = "resolving" /\ ask[a].lis = m
    <3>1. lis[m].pc = "resend" /\ a \in lis[m].todo
      BY <2>1 DEF EntryEnsured
    <3>2. /\ a \in Asks /\ ask[a].task # "queued"
          /\ tstate[ask[a].st] = m =>
                     \/ ask[a].task \in {"sending", "await"}
                     \/ ask[a].task = "resolving" /\ ask[a].lis = m
      BY <3>1 DEF ListenInv, ReplaysAreFresh
    <3>3. ask[a].st \in 1 .. Len(tstate)
      BY <3>2 DEF ListenInv, AsksExist
    <3> QED BY <3>2, <3>3 DEF EntryEnsured
  <2>2. Asks' = Asks /\ Listeners' = Listeners
    BY DEF EntryEnsured
  <2>3. \A c \in Conns, a \in 1 .. MaxAsks : view[c][a] = "resolved" =>
         a \in Asks /\ ask[a].task \in {"finish", "done"}
    BY DEF ListenInv, ReplaysAreFresh
  <2> QED BY <2>1, <2>2, <2>3 DEF ReplaysAreFresh
<1>7. OneListener'
  <2>1. CASE entry' = entry
    <3> SUFFICES ASSUME entry # 0
                 PROVE  /\ tstate'[entry] # 0 => /\ ~lis'[tstate'[entry]].cancel
                                                 /\ lis'[tstate'[entry]].pc # "ended"
                                                 /\ lis'[tstate'[entry]].entry = entry
                        /\ \A m \in Listeners :
                             lis'[m].st = entry /\ ~lis'[m].cancel /\ lis'[m].pc # "ended" => tstate'[entry] = m
      BY <2>1 DEF OneListener, EntryEnsured
    <3>1. tstate'[entry] = tstate[entry] /\ (tstate[entry] # 0 => tstate[entry] \in Listeners)
      BY <1>0 DEF EntryEnsured, ListenInv, StatesExist
    <3> QED BY <3>1, SMTT(30) DEF ListenInv, OneListener, EntryEnsured
  <2>2. CASE entry' = Len(tstate) + 1 /\ entry' <= Len(tstate')
    <3>1. tstate'[entry'] = 0
      BY <1>0, <2>2 DEF EntryEnsured
    <3>2. \A m \in Listeners : lis'[m].st # entry'
      BY <1>0, <2>2 DEF EntryEnsured, ListenInv, StatesExist
    <3> QED BY <3>1, <3>2 DEF OneListener, EntryEnsured
  <2> QED BY <2>1, <2>2 DEF EntryEnsured
<1>8. SenderResolves'
  <2> SUFFICES ASSUME NEW a \in Asks, ask[a].task # "queued", ask[a].st = entry', Runs(ask[a].conv)
               PROVE  HasListener' /\ (ask[a].task = "resolving" => ask[a].lis = tstate'[entry'])
    BY DEF SenderResolves, Runs
  <2>1. ask[a].st \in 1 .. Len(tstate)
    BY DEF ListenInv, AsksExist
  <2>2. entry' = entry
    BY <1>0, <2>1 DEF EntryEnsured
  <2>3. HasListener /\ (ask[a].task = "resolving" => ask[a].lis = tstate[entry])
    BY <2>2 DEF ListenInv, SenderResolves
  <2>4. tstate'[entry] = tstate[entry] /\ tstate[entry] \in Listeners
    BY <2>1, <2>2, <2>3 DEF EntryEnsured, ListenInv, StatesExist, HasListener
  <2> QED BY <2>2, <2>3, <2>4 DEF HasListener, EntryEnsured
<1>9. RequestsReach'
  <2> SUFFICES ASSUME NEW c \in subs', NEW a \in cb, ask[a].conv = conv, view[c][a] = "new"
               PROVE  \E m \in Listeners : Shows(m, c, a)'
    <3>1. subs' \subseteq Conns /\ Listeners' = Listeners
      BY DEF TypeOK, EntryEnsured
    <3> QED BY <3>1, ReachByShows DEF RequestsReach, Replaying, Shows
  <2>1. c \in Conns
    BY DEF TypeOK
  <2>2. CASE c \in subs
    <3>1. PICK m \in Listeners : Shows(m, c, a)
      BY <2>2, SomebodyShows
    <3> QED BY <3>1 DEF Shows, EntryEnsured
  <2>3. CASE c \notin subs
    BY <2>3 DEF Shows
  <2> QED BY <2>2, <2>3
<1> QED BY <1>1, <1>2, <1>3, <1>4, <1>5, <1>6, <1>7, <1>8, <1>9 DEF ListenInv

\* The listener subscribes the connection of the resume it took.
LEMMA ResumeSubscribeStep ==
  ASSUME ListenInv, NEW l \in Listeners, ResumeSubscribe(l)
  PROVE  ListenInv'
<1>0. /\ TypeOK /\ lis[l] \in Listener /\ lis[l].cmds \in Seq(Command) /\ UnloadSparesSubscribers
      /\ subs \subseteq Conns /\ live \subseteq Conns /\ unloads \in BOOLEAN /\ ask \in Seq(ServerRequest)
      /\ view \in [Conns -> [1 .. MaxAsks -> {"new", "shown", "left", "resolved"}]]
  BY LisTyped DEF ListenInv, TypeOK
<1>1. /\ UNCHANGED <<conv, core, live, req, requests, closer, unloader, unloads, watch, cb, ask, view>>
      /\ lis[l].pc = "resume" /\ lis[l].conn \in Conns
  BY DEF ResumeSubscribe, coreVars, taskVars, askVars, ListenInv, StatesExist
<1>2. CASE unloads \/ lis[l].conn \notin live
  <2> DEFINE new == [lis[l] EXCEPT !.pc = "idle", !.conn = 0, !.a = 0]
  <2>1. lis' = [lis EXCEPT ![l] = new] /\ UNCHANGED <<entry, subs, tstate>>
    BY <1>2 DEF ResumeSubscribe, Select
  <2>2. /\ new \in Listener /\ new.pc = "idle" /\ new.conv = lis[l].conv /\ new.st = lis[l].st
        /\ new.entry = lis[l].entry /\ new.cancel = lis[l].cancel /\ new.cmds = lis[l].cmds
    BY <1>0, SelectTyped
  <2> HIDE DEF new
  <2>3. Takes(l, 0)
    BY <1>0, <2>1, <2>2, ListenerIs, TakesNone
  <2>4. AsksMove(l, 0) /\ ViewsMove /\ UnloadSparesSubscribers'
    BY <1>0, <1>1, <2>1, AskSame, StayMove, ViewsSame DEF UnloadSparesSubscribers
  <2>5. \A c \in subs', a \in cb' : ~Shows(l, c, a)
    BY <1>1 DEF Shows
  <2> QED BY <1>0, <1>1, <2>1, <2>2, <2>3, <2>4, <2>5, ListenerGoes
<1>3. CASE ~(unloads \/ lis[l].conn \notin live)
  <2> DEFINE new == [lis[l] EXCEPT !.pc = "replay"]
  <2>1. lis' = [lis EXCEPT ![l] = new] /\ EnsureEntry({lis[l].conn}) /\ ~unloads
    BY <1>3 DEF ResumeSubscribe, Goto
  <2>2. /\ new \in Listener /\ new.pc = "replay" /\ new.conv = lis[l].conv /\ new.st = lis[l].st
        /\ new.entry = lis[l].entry /\ new.cancel = lis[l].cancel /\ new.cmds = lis[l].cmds
        /\ new.conn = lis[l].conn /\ new.todo = lis[l].todo /\ new.a = lis[l].a /\ new.ids = lis[l].ids
    BY <1>0 DEF Listener
  <2> HIDE DEF new
  <2>3. /\ tstate' \in Seq(Nat) /\ Len(tstate') \in Nat /\ Len(tstate') >= Len(tstate)
        /\ \A s \in 1 .. Len(tstate) : tstate'[s] = tstate[s]
        /\ \A s \in 1 .. Len(tstate') : s > Len(tstate) => tstate'[s] = 0
        /\ entry' = entry \/ (entry' = Len(tstate) + 1 /\ entry' <= Len(tstate'))
        /\ entry' \in Nat /\ subs' = subs \cup {lis[l].conn}
    BY <1>0, <2>1, EnsureEntryDoes
  <2>4. lis' \in Seq(Listener) /\ lis'[l] = new /\ Rest(l)
    BY <1>0, <2>1, <2>2, OneLis
  <2>5. EntryEnsured
    <3>1. ASSUME NEW m \in Listeners
          PROVE  /\ lis'[m].conv = lis[m].conv /\ lis'[m].st = lis[m].st /\ lis'[m].entry = lis[m].entry
                 /\ lis'[m].conn = lis[m].conn /\ lis'[m].todo = lis[m].todo /\ lis'[m].a = lis[m].a
                 /\ lis'[m].ids = lis[m].ids
                 /\ lis'[m].cmds = lis[m].cmds /\ lis'[m].cancel = lis[m].cancel
                 /\ lis'[m].pc = lis[m].pc \/ (lis[m].pc = "resume" /\ lis'[m].pc = "replay")
      BY <1>1, <2>2, <2>4 DEF Rest
    <3> QED BY <2>3, <2>4, <3>1 DEF EntryEnsured, Rest
  <2>6. TypeOK'
    <3>1. subs' \subseteq Conns
      BY <1>0, <1>1, <2>3
    <3> QED BY <1>0, <1>1, <2>3, <2>4, <3>1 DEF TypeOK
  <2>7. RequestIsCurrent'
    <3>1. RequestIsCurrent /\ Len(tstate) \in Nat
      BY <1>0 DEF ListenInv, TypeOK
    <3>2. Listeners' = Listeners /\ \A m \in Listeners : lis'[m].conv = lis[m].conv
      BY <2>5 DEF EntryEnsured, Listeners
    <3>3. \A s \in 1 .. Len(tstate) : s \in 1 .. Len(tstate')
      BY <3>1, <2>3
    <3> QED BY <1>1, <3>1, <3>2, <3>3 DEF RequestIsCurrent, Asks, Convs
  <2>8. UnloadSparesSubscribers'
    BY <1>1, <2>1 DEF UnloadSparesSubscribers
  <2>9. \A c \in subs' \ subs : \E m \in Listeners : lis'[m].pc = "replay" /\ lis'[m].conn = c
    BY <2>2, <2>3, <2>4
  <2> QED BY <1>1, <2>5, <2>6, <2>7, <2>8, <2>9, EntryEnsuredKeeps
<1> QED BY <1>2, <1>3

\* A client request finds or makes the thread's state.
LEMMA EntrySteps ==
  ASSUME ListenInv, ResumeRunning \/ Attach
  PROVE  ListenInv'
<1>0. /\ TypeOK /\ req \in Request /\ RequestIsCurrent /\ live \subseteq Conns /\ subs \subseteq Conns
      /\ conv \in 0 .. Len(core) /\ Len(tstate) \in Nat /\ entry \in 0 .. Len(tstate)
      /\ UnloadSparesSubscribers /\ Len(core) \in Nat
  BY DEF ListenInv, TypeOK, StatesExist
<1>1. /\ UNCHANGED <<conv, core, live, lis, requests, unloads, unloader, closer, cb, ask, view, watch>>
      /\ req.pc # "idle" /\ req.conn \in Conns
  BY <1>0 DEF ResumeRunning, Attach, RequestIsCurrent, coreVars, askVars
<1>2. CASE Attach /\ (conv = 0 \/ unloads \/ req.conn \notin live)
  <2>1. req' = [req EXCEPT !.pc = "answer"] /\ UNCHANGED <<entry, subs, tstate>>
    BY <1>2 DEF Attach, Step
  <2>2. req' \in Request /\ req'.pc = "answer" /\ req'.conn = req.conn
    BY <1>0, <2>1 DEF Request
  <2>3. RequestIsCurrent'
    BY <1>1, <2>2 DEF RequestIsCurrent
  <2>4. TypeOK'
    BY <1>0, <1>1, <2>1, <2>2 DEF TypeOK
  <2>5. AsksStay /\ ViewsStay
    BY <1>1, AskSame, ViewSame
  <2>6. CoresStay /\ EventsAreOnce' /\ TurnsWait'
    BY <1>1, <2>5, StayQueue, CoreSame
  <2>7. unloader'.pc # "off" => unloader'.conv \in Convs
    BY <1>1 DEF ListenInv, StatesExist
  <2> QED BY <1>1, <2>1, <2>3, <2>4, <2>5, <2>6, <2>7, QuietStep
<1>3. ASSUME NEW more \in {{}, {req.conn}}, EnsureEntry(more), conv # 0,
             NEW pc \in {"listen", "start"}, req' = [req EXCEPT !.pc = pc, !.conv = conv, !.st = entry'],
             more # {} => ~unloads /\ req.pc = "attach"
      PROVE  ListenInv'
  <2>1. /\ tstate' \in Seq(Nat) /\ Len(tstate') \in Nat /\ Len(tstate') >= Len(tstate)
        /\ \A s \in 1 .. Len(tstate) : tstate'[s] = tstate[s]
        /\ \A s \in 1 .. Len(tstate') : s > Len(tstate) => tstate'[s] = 0
        /\ entry' = entry \/ (entry' = Len(tstate) + 1 /\ entry' <= Len(tstate'))
        /\ entry' \in Nat /\ entry' # 0 /\ subs' = subs \cup more
    BY <1>0, <1>3, EnsureEntryDoes
  <2>2. req' \in Request /\ req'.pc = pc /\ req'.conn = req.conn /\ req'.conv = conv /\ req'.st = entry'
    <3>1. conv \in Nat
      BY <1>0
    <3> QED BY <1>0, <1>3, <2>1, <3>1 DEF Request
  <2>3. TypeOK'
    <3>1. subs' \subseteq Conns
      BY <1>0, <1>1, <1>3, <2>1
    <3> QED BY <1>0, <1>1, <2>1, <2>2, <3>1 DEF TypeOK
  <2>4. entry' \in 1 .. Len(tstate') /\ conv \in Convs
    BY <1>0, <1>3, <2>1 DEF Convs
  <2>5. RequestIsCurrent'
    BY <1>1, <2>2, <2>4 DEF RequestIsCurrent, Convs
  <2>6. EntryEnsured
    BY <1>1, <2>1 DEF EntryEnsured
  <2>7. UnloadSparesSubscribers'
    BY <1>0, <1>1, <1>3, <2>1 DEF UnloadSparesSubscribers
  <2>8. ASSUME more # {}, NEW a \in cb, ask[a].conv = conv
        PROVE  FALSE
    <3>1. a \in Asks /\ ask[a].task # "queued"
      BY DEF ListenInv, AsksExist, HandsAreOnce
    <3>2. conv = req.conv
      BY <1>0, <1>3, <2>8 DEF RequestIsCurrent
    <3> QED BY <1>0, <1>3, <2>8, <3>1, <3>2 DEF RequestIsCurrent
  <2>9. \A c \in subs' \ subs : \A a \in cb : ask[a].conv # conv
    BY <2>1, <2>8
  <2> QED BY <1>1, <2>3, <2>5, <2>6, <2>7, <2>9, EntryEnsuredKeeps
<1>4. CASE Attach /\ ~(conv = 0 \/ unloads \/ req.conn \notin live)
  <2>1. /\ EnsureEntry({req.conn}) /\ req' = [req EXCEPT !.pc = "start", !.conv = conv, !.st = entry']
        /\ conv # 0 /\ ~unloads /\ req.pc = "attach"
    BY <1>4 DEF Attach
  <2> QED BY <1>3, <2>1
<1>5. CASE ResumeRunning
  <2>1. /\ EnsureEntry({}) /\ req' = [req EXCEPT !.pc = "listen", !.conv = conv, !.st = entry'] /\ conv # 0
    BY <1>5 DEF ResumeRunning
  <2> QED BY <1>3, <2>1
<1> QED BY <1>2, <1>4, <1>5

LEMMA NewListenerTyped ==
  ASSUME NEW k \in Nat, NEW s \in Nat, NEW e \in Nat
  PROVE  LET r == [conv |-> k, st |-> s, entry |-> e, pc |-> "idle", cancel |-> FALSE, cmds |-> <<>>, conn |-> 0,
                   ids |-> {}, todo |-> {}, a |-> 0] IN
         /\ r \in Listener /\ r.conv = k /\ r.st = s /\ r.entry = e /\ r.pc = "idle" /\ ~r.cancel /\ r.cmds = <<>>
         /\ Len(r.cmds) = 0
<1>1. <<>> \in Seq(Command) /\ Len(<<>>) = 0
  OBVIOUS
<1> QED BY <1>1 DEF Listener

\* ensure_listener_task_running: a listener on the conversation the request
\* knows, unless the ThreadState has one.
LEMMA SetListenerStep ==
  ASSUME ListenInv, set_listener(req.st, req.conv), entry # 0, ~listener_matches(req.st, req.conv),
         req.pc \in {"listen", "start"}, NEW pc \in {"command", "answer"}, req' = [req EXCEPT !.pc = pc],
         UNCHANGED <<coreVars, live, entry, subs, requests, unloads, unloader, closer, askVars, watch>>
  PROVE  ListenInv'
<1> USE DEF Listeners, Asks, Convs
<1> DEFINE s == req.st
           k == req.conv
           one == [conv |-> k, st |-> s, entry |-> entry, pc |-> "idle", cancel |-> FALSE, cmds |-> <<>>, conn |-> 0,
                   ids |-> {}, todo |-> {}, a |-> 0]
           n == Len(lis) + 1
<1>0. /\ TypeOK /\ req \in Request /\ tstate \in Seq(Nat) /\ Len(lis) \in Nat /\ entry \in 1 .. Len(tstate)
      /\ s \in 1 .. Len(tstate) /\ k \in Convs /\ conv \in {0, k} /\ req.conn \in Conns
  BY SMTT(30) DEF ListenInv, TypeOK, StatesExist, RequestIsCurrent
<1>1. /\ UNCHANGED <<conv, core, live, entry, subs, requests, unloads, unloader, closer, cb, ask, view, watch>>
      /\ lis' = Append(Cleared(s), one) /\ tstate' = [tstate EXCEPT ![s] = n]
  BY DEF set_listener, coreVars, askVars
<1>2. one \in Listener /\ one.conv = k /\ one.st = s /\ one.entry = entry /\ one.pc = "idle" /\ ~one.cancel
      /\ one.cmds = <<>> /\ Len(one.cmds) = 0
  BY <1>0, NewListenerTyped, SMTT(30)
<1>3. /\ Cleared(s) \in Seq(Listener) /\ Len(Cleared(s)) = Len(lis)
      /\ \A m \in Listeners :
           LET r == Cleared(s)[m] IN
           /\ r.conv = lis[m].conv /\ r.st = lis[m].st /\ r.entry = lis[m].entry
           /\ r.conn = lis[m].conn /\ r.todo = lis[m].todo /\ r.a = lis[m].a /\ r.ids = lis[m].ids
           /\ r.pc = lis[m].pc /\ r.cmds = lis[m].cmds
           /\ IF tstate[s] = m THEN r.cancel ELSE r.cancel = lis[m].cancel
  BY <1>0, ClearedKeeps
<1> HIDE DEF one
<1>4. /\ lis' \in Seq(Listener) /\ Len(lis') = n /\ lis'[n] = one
      /\ \A m \in Listeners : lis'[m] = Cleared(s)[m]
  BY <1>0, <1>1, <1>2, <1>3
<1>5. \A m \in Listeners :
           /\ lis'[m].conv = lis[m].conv /\ lis'[m].st = lis[m].st /\ lis'[m].entry = lis[m].entry
           /\ lis'[m].conn = lis[m].conn /\ lis'[m].todo = lis[m].todo /\ lis'[m].a = lis[m].a
           /\ lis'[m].ids = lis[m].ids /\ lis'[m].pc = lis[m].pc /\ lis'[m].cmds = lis[m].cmds
           /\ IF tstate[s] = m THEN lis'[m].cancel ELSE lis'[m].cancel = lis[m].cancel
  BY <1>3, <1>4
<1>6. Listeners' = Listeners \cup {n} /\ n \notin Listeners /\ n # 0 /\ n \in Nat
  BY <1>0, <1>4
<1>7. /\ tstate' \in Seq(Nat) /\ Len(tstate') = Len(tstate) /\ tstate'[s] = n
      /\ \A r \in 1 .. Len(tstate) : r # s => tstate'[r] = tstate[r]
  BY <1>0, <1>1, <1>6
<1>8. \A r \in 1 .. Len(tstate) : tstate[r] # 0 =>
         /\ tstate[r] \in Listeners /\ lis[tstate[r]].st = r /\ lis[tstate[r]].pc # "ended"
  BY DEF ListenInv, StatesExist
<1>9. req' \in Request /\ req'.pc = pc /\ req'.conn = req.conn /\ req'.st = s
  BY <1>0 DEF Request
<1> HIDE DEF n, s, k
<1>10. TypeOK'
  BY <1>0, <1>1, <1>4, <1>7, <1>9 DEF TypeOK
<1>11. RequestIsCurrent'
  BY <1>0, <1>7, <1>9 DEF RequestIsCurrent
<1>12. EventsAreOnce' /\ TurnsWait'
  BY <1>1, AskSame, StayQueue, CoreSame
<1>13. StatesExist'
  <2>1. ASSUME NEW r \in 1 .. Len(tstate), tstate'[r] # 0
        PROVE  tstate'[r] \in Listeners' /\ lis'[tstate'[r]].st = r /\ lis'[tstate'[r]].pc # "ended"
    <3>1. CASE r = s
      BY <3>1, <1>2, <1>4, <1>6, <1>7
    <3>2. CASE r # s
      <4>1. tstate'[r] = tstate[r] /\ tstate[r] # 0
        BY <2>1, <3>2, <1>7
      <4>2. tstate[r] \in Listeners /\ lis[tstate[r]].st = r /\ lis[tstate[r]].pc # "ended"
        BY <4>1, <1>8
      <4>3. lis'[tstate[r]].st = r /\ lis'[tstate[r]].pc # "ended"
        BY <4>2, <1>5
      <4> HIDE DEF Listeners
      <4> QED BY <4>1, <4>2, <4>3, <1>6
    <3> QED BY <3>1, <3>2
  <2>2. ASSUME NEW m \in Listeners'
        PROVE  /\ lis'[m].conv \in Convs /\ lis'[m].st \in 1 .. Len(tstate)
               /\ lis'[m].pc \in {"resume", "replay", "resend"} => lis'[m].conn \in Conns
               /\ lis'[m].pc = "ended" => lis'[m].cmds = <<>>
               /\ \A i \in 1 .. Len(lis'[m].cmds) : lis'[m].cmds[i].t = "resume" => lis'[m].cmds[i].c \in Conns
    <3>1. CASE m = n
      BY <3>1, <1>0, <1>2, <1>4
    <3>2. CASE m \in Listeners
      <4>1. /\ lis[m].conv \in Convs /\ lis[m].st \in 1 .. Len(tstate)
            /\ lis[m].pc \in {"resume", "replay", "resend"} => lis[m].conn \in Conns
            /\ lis[m].pc = "ended" => lis[m].cmds = <<>>
            /\ \A i \in 1 .. Len(lis[m].cmds) : lis[m].cmds[i].t = "resume" => lis[m].cmds[i].c \in Conns
        BY <3>2 DEF ListenInv, StatesExist
      <4>2. /\ lis'[m].conv = lis[m].conv /\ lis'[m].st = lis[m].st /\ lis'[m].pc = lis[m].pc
            /\ lis'[m].conn = lis[m].conn /\ lis'[m].cmds = lis[m].cmds
        BY <3>2, <1>5
      <4> QED BY <4>1, <4>2
    <3> QED BY <3>1, <3>2, <1>6
  <2> QED BY <1>1, <1>7, <2>1, <2>2 DEF ListenInv, StatesExist
<1>14. AsksExist'
  BY <1>1, <1>6, <1>7 DEF ListenInv, AsksExist
<1>15. HandsAreOnce'
  <2>1. \A m \in Listeners' : lis'[m].pc = "send" => m \in Listeners
    BY <1>2, <1>4, <1>6
  <2>2. \A m \in Listeners : lis'[m].pc = lis[m].pc /\ lis'[m].a = lis[m].a
    BY <1>5
  <2>3. /\ \A a \in cb : ask[a].task \in {"sending", "await"} /\ ask[a].result = "none"
        /\ \A l \in Listeners : lis[l].pc = "send" =>
             /\ lis[l].a \in Asks /\ ask[lis[l].a].task = "sending"
             /\ \A m \in Listeners : lis[m].pc = "send" /\ lis[m].a = lis[l].a => m = l
    BY DEF ListenInv, HandsAreOnce
  <2>4. ASSUME NEW l \in Listeners', lis'[l].pc = "send"
        PROVE  /\ lis'[l].a \in Asks /\ ask[lis'[l].a].task = "sending"
               /\ \A m \in Listeners' : lis'[m].pc = "send" /\ lis'[m].a = lis'[l].a => m = l
    <3>1. l \in Listeners /\ lis[l].pc = "send" /\ lis'[l].a = lis[l].a
      BY <2>1, <2>2, <2>4
    <3> QED BY <2>1, <2>2, <2>3, <3>1
  <2> QED BY <1>1, <2>3, <2>4 DEF HandsAreOnce
<1>16. CommandsAreOnce'
  <2> SUFFICES ASSUME NEW m \in Listeners', NEW i \in 1 .. Len(lis'[m].cmds), lis'[m].cmds[i].t = "resolve"
               PROVE  LET a == lis'[m].cmds[i].a IN
                      /\ a \in Asks' /\ ask'[a].task = "resolving" /\ ask'[a].lis = m
                      /\ \A j \in 1 .. Len(lis'[m].cmds) :
                           lis'[m].cmds[j].t = "resolve" /\ lis'[m].cmds[j].a = a => j = i
    BY DEF CommandsAreOnce
  <2>1. m \in Listeners
    BY <1>2, <1>4, <1>6
  <2>2. lis'[m].cmds = lis[m].cmds
    BY <2>1, <1>5
  <2> QED BY <1>1, <2>1, <2>2 DEF ListenInv, CommandsAreOnce
<1>17. ReplaysAreFresh'
  <2>1. ASSUME NEW m \in Listeners', lis'[m].pc = "resend", NEW a \in lis'[m].todo
        PROVE  /\ a \in Asks /\ ask[a].task # "queued"
               /\ tstate'[ask[a].st] = m =>
                     \/ ask[a].task \in {"sending", "await"}
                     \/ ask[a].task = "resolving" /\ ask[a].lis = m
    <3>0. m \in Listeners /\ m # n
      BY <2>1, <1>2, <1>4, <1>6
    <3>1. lis[m].pc = "resend" /\ a \in lis[m].todo
      BY <2>1, <3>0, <1>5
    <3>2. /\ a \in Asks /\ ask[a].task # "queued"
          /\ tstate[ask[a].st] = m =>
                     \/ ask[a].task \in {"sending", "await"}
                     \/ ask[a].task = "resolving" /\ ask[a].lis = m
      BY <3>0, <3>1 DEF ListenInv, ReplaysAreFresh
    <3>3. ask[a].st \in 1 .. Len(tstate)
      BY <3>2 DEF ListenInv, AsksExist
    <3> QED BY <3>0, <3>2, <3>3, <1>7
  <2>2. \A c \in Conns, a \in 1 .. MaxAsks : view[c][a] = "resolved" =>
         a \in Asks /\ ask[a].task \in {"finish", "done"}
    BY DEF ListenInv, ReplaysAreFresh
  <2> QED BY <1>1, <2>1, <2>2 DEF ReplaysAreFresh
<1>18. OneListener'
  <2>1. /\ tstate[entry] # 0 => ~lis[tstate[entry]].cancel /\ lis[tstate[entry]].pc # "ended" /\ lis[tstate[entry]].entry = entry
        /\ \A m \in Listeners :
             lis[m].st = entry /\ ~lis[m].cancel /\ lis[m].pc # "ended" => tstate[entry] = m
    BY DEF ListenInv, OneListener
  <2>2. ASSUME tstate'[entry] # 0
        PROVE  /\ ~lis'[tstate'[entry]].cancel /\ lis'[tstate'[entry]].pc # "ended"
               /\ lis'[tstate'[entry]].entry = entry
    <3>1. CASE entry = s
      BY <3>1, <1>2, <1>4, <1>7
    <3>2. CASE entry # s
      <4>1. tstate'[entry] = tstate[entry] /\ tstate[entry] \in Listeners /\ lis[tstate[entry]].st = entry
        BY <2>2, <3>2, <1>0, <1>7, <1>8
      <4>2. tstate[s] # tstate[entry]
        BY <3>2, <4>1, <1>0, <1>8
      <4> QED BY <4>1, <4>2, <2>1, <2>2, <1>5
    <3> QED BY <3>1, <3>2
  <2>3. ASSUME NEW m \in Listeners', lis'[m].st = entry, ~lis'[m].cancel, lis'[m].pc # "ended"
        PROVE  tstate'[entry] = m
    <3>1. CASE m = n
      BY <2>3, <3>1, <1>2, <1>4, <1>7
    <3>2. CASE m \in Listeners
      <4>1. tstate[s] # m /\ lis[m].st = entry /\ ~lis[m].cancel /\ lis[m].pc # "ended"
        BY <2>3, <3>2, <1>5
      <4>2. tstate[entry] = m
        BY <2>1, <3>2, <4>1
      <4> QED BY <4>1, <4>2, <1>0, <1>7
    <3> QED BY <3>1, <3>2, <1>6
  <2> QED BY <1>1, <2>2, <2>3 DEF OneListener
<1>19. RequestsReach'
  <2> SUFFICES ASSUME NEW c \in subs, NEW a \in cb, ask[a].conv = conv, view[c][a] = "new"
               PROVE  \E m \in Listeners : Shows(m, c, a)'
    <3>1. subs \subseteq Conns
      BY <1>0 DEF TypeOK
    <3> QED BY <1>1, <1>6, <3>1, ReachByShows DEF RequestsReach, Replaying, Shows
  <2>1. c \in Conns
    BY <1>0 DEF TypeOK
  <2> HIDE DEF Listeners
  <2>2. Replaying(c, a) \/ \E l \in Listeners : lis[l].pc = "send" /\ lis[l].a = a /\ c \in lis[l].ids
    BY DEF ListenInv, RequestsReach
  <2>3. \E m \in Listeners : Shows(m, c, a)
    BY <2>1, <2>2, ReachByShows
  <2>4. PICK m \in Listeners : Shows(m, c, a)
    BY <2>3
  <2> QED BY <2>4, <1>5 DEF Shows
<1>20. SenderResolves'
  <2> SUFFICES ASSUME NEW a \in Asks, ask[a].task # "queued", ask[a].st = entry, Runs(ask[a].conv)
               PROVE  HasListener' /\ (ask[a].task = "resolving" => ask[a].lis = tstate'[entry])
    BY <1>1 DEF SenderResolves, Runs
  <2>1. HasListener /\ (ask[a].task = "resolving" => ask[a].lis = tstate[entry])
    BY DEF ListenInv, SenderResolves
  <2>2. conv = k
    BY <1>0 DEF Runs
  <2>3. entry # s
    BY <2>1, <2>2 DEF HasListener, listener_matches, s, k
  <2>4. tstate'[entry] = tstate[entry] /\ tstate[entry] \in Listeners
    BY <2>1, <2>3, <1>0, <1>7, <1>8 DEF HasListener
  <2>5. lis'[tstate[entry]].conv = lis[tstate[entry]].conv
    BY <2>4, <1>5
  <2> QED BY <2>1, <2>4, <2>5, <1>1 DEF HasListener
<1>21. UnloadSparesSubscribers'
  BY <1>1 DEF ListenInv, UnloadSparesSubscribers
<1> QED BY <1>10, <1>11, <1>12, <1>13, <1>14, <1>15, <1>16, <1>17, <1>18, <1>19, <1>20, <1>21 DEF ListenInv

LEMMA ListenSteps ==
  ASSUME ListenInv, ResumeListen \/ AttachListen
  PROVE  ListenInv'
<1>0. /\ TypeOK /\ req \in Request /\ (req.pc # "idle" => req.conn \in Conns)
      /\ req.pc \in {"listen", "start"} => req.st \in 1 .. Len(tstate)
  BY DEF ListenInv, TypeOK, RequestIsCurrent
<1>1. /\ UNCHANGED <<coreVars, live, entry, subs, requests, unloads, unloader, closer, askVars, watch>>
      /\ req.pc \in {"listen", "start"}
      /\ req' = Idle \/ \E pc \in {"command", "answer"} : req' = [req EXCEPT !.pc = pc]
  BY DEF ResumeListen, AttachListen, Finish, Step
<1>2. CASE UNCHANGED <<tstate, lis>>
  <2>1. UNCHANGED <<conv, core, live, entry, subs, tstate, lis, requests, unloads, unloader, closer, cb, ask, view, watch>>
    BY <1>1, <1>2 DEF coreVars, askVars
  <2>2. req' \in Request /\ RequestIsCurrent'
    <3>1. CASE req' = Idle
      BY <3>1 DEF Request, Idle, RequestIsCurrent
    <3>2. CASE \E pc \in {"command", "answer"} : req' = [req EXCEPT !.pc = pc]
      <4>1. req' \in Request /\ req'.pc \in {"command", "answer"} /\ req'.conn = req.conn /\ req'.st = req.st
        BY <1>0, <3>2 DEF Request
      <4> QED BY <1>0, <1>1, <2>1, <4>1 DEF RequestIsCurrent
    <3> QED BY <1>1, <3>1, <3>2
  <2>3. TypeOK'
    BY <1>0, <2>1, <2>2 DEF TypeOK
  <2>4. AsksStay /\ ViewsStay
    BY <2>1, AskSame, ViewSame
  <2>5. CoresStay /\ EventsAreOnce' /\ TurnsWait'
    BY <2>1, <2>4, StayQueue, CoreSame
  <2>6. unloader'.pc # "off" => unloader'.conv \in Convs
    BY <2>1 DEF ListenInv, StatesExist
  <2> QED BY <2>1, <2>2, <2>3, <2>4, <2>5, <2>6, QuietStep
<1>3. CASE ~UNCHANGED <<tstate, lis>>
  <2>1. /\ set_listener(req.st, req.conv) /\ entry # 0 /\ ~listener_matches(req.st, req.conv)
        /\ req' = [req EXCEPT !.pc = "command"] \/ req' = [req EXCEPT !.pc = "answer"]
    BY <1>3 DEF ResumeListen, AttachListen, Step
  <2> QED BY <1>1, <2>1, SetListenerStep
<1> QED BY <1>2, <1>3

\* The resume is queued behind what the listener has to do.
LEMMA ResumeCommandStep ==
  ASSUME ListenInv, ResumeCommand
  PROVE  ListenInv'
<1>0. /\ TypeOK /\ req \in Request /\ req.conn \in Conns /\ req.st \in 1 .. Len(tstate) /\ UnloadSparesSubscribers
  BY DEF ListenInv, TypeOK, RequestIsCurrent, ResumeCommand
<1>1. /\ UNCHANGED <<conv, core, live, entry, subs, tstate, requests, unloads, unloader, closer, cb, ask, view, watch>>
      /\ req' = Idle
  BY DEF ResumeCommand, Finish, coreVars, askVars
<1>2. req' \in Request /\ RequestIsCurrent'
  BY <1>1 DEF Request, Idle, RequestIsCurrent
<1>3. AsksStay /\ ViewsStay /\ ViewsMove
  BY <1>1, AskSame, ViewSame, ViewsSame
<1>4. CoresStay /\ EventsAreOnce' /\ TurnsWait'
  BY <1>1, <1>3, StayQueue, CoreSame
<1>5. CASE lis' = lis
  <2>1. TypeOK'
    BY <1>0, <1>1, <1>2, <1>5 DEF TypeOK
  <2>2. unloader'.pc # "off" => unloader'.conv \in Convs
    BY <1>1 DEF ListenInv, StatesExist
  <2> QED BY <1>1, <1>2, <1>3, <1>4, <1>5, <2>1, <2>2, QuietStep
<1>6. CASE lis' # lis
  <2> SUFFICES ASSUME NEW l \in Listeners, lis[l].pc # "ended",
                      NEW cmd, cmd = [t |-> "resume", c |-> req.conn, a |-> 0],
                      lis' = [lis EXCEPT ![l].cmds = Append(@, cmd)]
               PROVE  ListenInv'
    BY <1>0, <1>6 DEF ResumeCommand, ListenInv, StatesExist
  <2> DEFINE q == Append(lis[l].cmds, cmd)
             new == [lis[l] EXCEPT !.cmds = q]
  <2>1. lis[l].pc # "ended" /\ lis' = [lis EXCEPT ![l] = new]
    OBVIOUS
  <2>2. l \in Listeners
    OBVIOUS
  <2>3. cmd \in Command /\ cmd.t = "resume" /\ cmd.c \in Conns
    BY <1>0 DEF Command
  <2>4. lis[l] \in Listener /\ lis[l].cmds \in Seq(Command) /\ Len(lis[l].cmds) \in Nat
    BY <1>0, <2>2, LisTyped
  <2>5. /\ q \in Seq(Command) /\ Len(q) = Len(lis[l].cmds) + 1 /\ q[Len(lis[l].cmds) + 1] = cmd
        /\ \A i \in 1 .. Len(lis[l].cmds) : q[i] = lis[l].cmds[i]
    BY <2>3, <2>4
  <2> HIDE DEF q
  <2>6. /\ new \in Listener /\ new.pc = lis[l].pc /\ new.conv = lis[l].conv /\ new.st = lis[l].st
        /\ new.entry = lis[l].entry /\ new.cancel = lis[l].cancel /\ new.cmds = q /\ new.a = lis[l].a
        /\ new.conn = lis[l].conn /\ new.todo = lis[l].todo /\ new.ids = lis[l].ids
    BY <2>4, <2>5 DEF Listener
  <2> HIDE DEF new
  <2>7. lis' \in Seq(Listener) /\ lis'[l] = new /\ Rest(l)
    BY <1>0, <2>1, <2>2, <2>6, OneLis
  <2>8. TypeOK'
    BY <1>0, <1>1, <1>2, <2>7 DEF TypeOK
  <2>9. Takes(l, 0)
    <3> SUFFICES ASSUME NEW i \in 1 .. Len(q)
                 PROVE  \/ q[i].t = "resume" /\ q[i].c \in Conns
                        \/ i + 0 <= Len(lis[l].cmds) /\ q[i] = lis[l].cmds[i + 0]
      BY <2>6, <2>7 DEF Takes
    <3>1. CASE i \in 1 .. Len(lis[l].cmds)
      BY <3>1, <2>4, <2>5
    <3>2. CASE i = Len(lis[l].cmds) + 1
      BY <3>2, <2>3, <2>5
    <3> QED BY <3>1, <3>2, <2>4, <2>5
  <2>10. AsksMove(l, 0)
    BY <1>3, StayMove
  <2>11. \A c \in subs', a \in cb' : Shows(l, c, a) => Shows(l, c, a)'
    BY <2>6, <2>7 DEF Shows
  <2>12. lis'[l].pc \in {"resume", "replay", "resend"} => lis'[l].conn \in Conns
    BY <2>2, <2>6, <2>7 DEF ListenInv, StatesExist
  <2>13. UnloadSparesSubscribers'
    BY <1>0, <1>1 DEF UnloadSparesSubscribers
  <2> QED BY <1>1, <1>2, <1>3, <1>4, <2>1, <2>2, <2>6, <2>7, <2>8, <2>9, <2>10, <2>11, <2>12, <2>13, ListenerMove
<1> QED BY <1>5, <1>6

\* A thread that is not loaded is resumed: its conversation is new to everybody.
LEMMA ResumeColdStep ==
  ASSUME ListenInv, ResumeCold
  PROVE  ListenInv'
<1> DEFINE n == Len(core) + 1
           one == [phase |-> "idle", turns |-> 0, ask |-> 0, ev |-> <<>>, stop |-> FALSE]
<1>0. /\ TypeOK /\ req \in Request /\ req.conn \in Conns /\ core \in Seq(Conversation) /\ Len(core) \in Nat
  BY DEF ListenInv, TypeOK, RequestIsCurrent, ResumeCold
<1>1. /\ UNCHANGED <<live, entry, subs, tstate, lis, requests, unloads, unloader, closer, cb, ask, view, watch>>
      /\ core' = Append(core, one) /\ conv' = n /\ req' = [req EXCEPT !.pc = "attach", !.conv = n]
  BY DEF ResumeCold, entryVars, askVars
<1>2. one \in Conversation /\ one.ask = 0 /\ Len(one.ev) = 0
  <2>1. <<>> \in Seq(Events)
    OBVIOUS
  <2> QED BY <2>1 DEF Conversation
<1> HIDE DEF one
<1>3. /\ core' \in Seq(Conversation) /\ Len(core') = n /\ core'[n] = one
      /\ \A k \in Convs : core'[k] = core[k]
  BY <1>0, <1>1, <1>2 DEF Convs
<1>4. Convs' = Convs \cup {n} /\ n \notin Convs /\ n \in Nat /\ n # 0
  BY <1>0, <1>3 DEF Convs
<1>5. req' \in Request /\ req'.pc = "attach" /\ req'.conn = req.conn /\ req'.conv = n
  BY <1>0, <1>1, <1>4 DEF Request
<1> HIDE DEF n
<1>6. TypeOK'
  BY <1>0, <1>1, <1>3, <1>4, <1>5 DEF TypeOK
<1>7. \A a \in Asks : ask[a].conv \in Convs
  BY DEF ListenInv, AsksExist
<1>8. \A l \in Listeners : lis[l].conv \in Convs
  BY DEF ListenInv, StatesExist
<1>9. StatesExist'
  <2>1. conv' \in 0 .. Len(core')
    BY <1>1, <1>3, <1>4
  <2> QED BY <1>1, <1>4, <2>1 DEF ListenInv, StatesExist, Listeners
<1>10. AsksExist'
  BY <1>1, <1>4 DEF ListenInv, AsksExist, Listeners, Asks
<1>11. RequestIsCurrent'
  BY <1>0, <1>1, <1>4, <1>5, <1>7, <1>8 DEF RequestIsCurrent, Listeners, Asks
<1>12. OneListener' /\ HandsAreOnce' /\ CommandsAreOnce' /\ ReplaysAreFresh' /\ UnloadSparesSubscribers'
  BY <1>1 DEF ListenInv, OneListener, HandsAreOnce, CommandsAreOnce, ReplaysAreFresh, UnloadSparesSubscribers, Asks, Listeners
<1>13. EventsAreOnce'
  <2>1. ASSUME NEW k \in Convs', NEW i \in 1 .. Len(core'[k].ev), core'[k].ev[i].t = "ask"
        PROVE  LET a == core'[k].ev[i].a IN
               /\ a \in Asks' /\ ask'[a].conv = k /\ ask'[a].task = "queued"
               /\ \A j \in 1 .. Len(core'[k].ev) : core'[k].ev[j].t = "ask" /\ core'[k].ev[j].a = a => j = i
               /\ core'[k].ask = a => i = Len(core'[k].ev)
    <3>1. k # n
      BY <1>2, <1>3, <2>1
    <3>2. k \in Convs /\ core'[k] = core[k] /\ Asks' = Asks
      BY <3>1, <1>1, <1>3, <1>4, <2>1 DEF Asks
    <3>3. LET a == core[k].ev[i].a IN
          /\ a \in Asks /\ ask[a].conv = k /\ ask[a].task = "queued"
          /\ \A j \in 1 .. Len(core[k].ev) : core[k].ev[j].t = "ask" /\ core[k].ev[j].a = a => j = i
          /\ core[k].ask = a => i = Len(core[k].ev)
      BY <2>1, <3>2 DEF ListenInv, EventsAreOnce
    <3> QED BY <1>1, <3>2, <3>3
  <2> QED BY <2>1 DEF EventsAreOnce
<1>14. TurnsWait'
  <2> SUFFICES ASSUME NEW k \in Convs', core'[k].ask # 0
               PROVE  /\ core'[k].ask \in Asks /\ ask[core'[k].ask].conv = k /\ core'[k].phase = "turn"
                      /\ ask[core'[k].ask].task # "queued" => core'[k].ev = <<>>
    BY <1>1 DEF TurnsWait, Asks
  <2>1. k \in Convs /\ core'[k] = core[k]
    BY <1>2, <1>3, <1>4
  <2> QED BY <2>1 DEF ListenInv, TurnsWait
<1>15. RequestsReach'
  <2>1. \A a \in cb : ask[a].conv # n
    BY <1>4, <1>7 DEF ListenInv, AsksExist
  <2> QED BY <1>1, <2>1 DEF RequestsReach
<1>16. SenderResolves'
  <2>1. \A a \in Asks : ask[a].conv # n
    BY <1>4, <1>7
  <2> QED BY <1>1, <2>1 DEF SenderResolves, Runs, Asks
<1> QED BY <1>6, <1>9, <1>10, <1>11, <1>12, <1>13, <1>14, <1>15, <1>16 DEF ListenInv

\* Nothing is loaded, followed or asked for at first.
LEMMA ListenStart == ASSUME Init PROVE ListenInv
<1> USE DEF Init
<1>1. TypeOK
  <2>1. Idle \in Request
    BY DEF Idle, Request
  <2>2. core \in Seq(Conversation) /\ tstate \in Seq(Nat) /\ lis \in Seq(Listener) /\ ask \in Seq(ServerRequest)
    OBVIOUS
  <2>3. Len(ask) <= MaxAsks
    BY ListenerAssumption
  <2>4. view \in [Conns -> [1 .. MaxAsks -> {"new", "shown", "left", "resolved"}]]
    OBVIOUS
  <2>5. watch \in [running : BOOLEAN, pending : Nat]
    BY NotWatchedTyped
  <2>6. unloader \in [pc : {"off", "wait", "remove", "clear"}, conv : Nat]
    OBVIOUS
  <2>7. conv \in Nat /\ entry \in Nat /\ requests \in Nat
    OBVIOUS
  <2> QED BY <2>1, <2>2, <2>3, <2>4, <2>5, <2>6, <2>7 DEF TypeOK
<1>2. Len(core) = 0 /\ Len(tstate) = 0 /\ Len(lis) = 0 /\ Len(ask) = 0
  OBVIOUS
<1>3. Convs = {} /\ Asks = {} /\ Listeners = {} /\ 1 .. Len(tstate) = {}
  BY <1>2 DEF Convs, Asks, Listeners
<1>4. StatesExist /\ AsksExist /\ OneListener
  BY <1>2, <1>3 DEF StatesExist, AsksExist, OneListener
<1>5. RequestIsCurrent
  BY DEF RequestIsCurrent, Idle
<1>6. EventsAreOnce /\ TurnsWait /\ HandsAreOnce /\ CommandsAreOnce
  BY <1>3 DEF EventsAreOnce, TurnsWait, HandsAreOnce, CommandsAreOnce
<1>7. ReplaysAreFresh
  BY <1>3 DEF ReplaysAreFresh
<1>8. RequestsReach /\ SenderResolves /\ UnloadSparesSubscribers
  BY <1>3 DEF RequestsReach, SenderResolves, UnloadSparesSubscribers
<1> QED BY <1>1, <1>4, <1>5, <1>6, <1>7, <1>8 DEF ListenInv

\* One step of anybody.
LEMMA ListenStep == ASSUME ListenInv, [Next]_vars PROVE ListenInv'
<1>1. ASSUME NEW k \in Convs, ConversationStep(k) PROVE ListenInv'
  BY <1>1, TurnSteps, AskApprovalStep DEF ConversationStep
<1>2. ASSUME NEW c \in Conns, ClientStep(c) PROVE ListenInv'
  BY <1>2, RequestMoves, QuietSteps DEF ClientStep
<1>3. CASE RequestStep
  BY <1>3, RequestMoves, QuietSteps, EntrySteps, ListenSteps, ResumeCommandStep, ResumeColdStep, ArchiveStep,
     RemoveSteps DEF RequestStep
<1>4. CASE CloserCancel \/ CloserRemove
  BY <1>4, QuietSteps, RemoveSteps
<1>5. ASSUME NEW l \in Listeners, ListenerStep(l) \/ UnloadDue(l) PROVE ListenInv'
  BY <1>5, ListenerEndsStep, ListenerTurns, ResumeSubscribeStep, ReplaySendStep, ResolveRequestStep, EventSteps,
     OnApprovalRequestStep, SendRequestStep, UnloadForgetStep DEF ListenerStep
<1>6. CASE UnloaderStep
  BY <1>6, QuietSteps
<1>7. ASSUME NEW a \in Asks, TaskStep(a) PROVE ListenInv'
  BY <1>7, TaskResolveStep, TaskEndSteps DEF TaskStep
<1>8. CASE UNCHANGED vars
  <2>1. UNCHANGED <<conv, core, live, entry, subs, tstate, lis, req, requests, unloads, unloader, closer, cb, ask, view, watch>>
    BY <1>8 DEF vars, coreVars, entryVars, taskVars, askVars
  <2>2. TypeOK'
    BY <2>1 DEF ListenInv, TypeOK
  <2>3. AsksStay /\ ViewsStay
    BY <2>1, AskSame, ViewSame
  <2>4. CoresStay /\ EventsAreOnce' /\ TurnsWait'
    BY <2>1, <2>3, StayQueue, CoreSame
  <2>5. RequestIsCurrent'
    BY <2>1, <2>3, RequestSame
  <2>6. unloader'.pc # "off" => unloader'.conv \in Convs
    BY <2>1 DEF ListenInv, StatesExist
  <2> QED BY <2>1, <2>2, <2>3, <2>4, <2>5, <2>6, QuietStep
<1> QED BY <1>1, <1>2, <1>3, <1>4, <1>5, <1>6, <1>7, <1>8 DEF Next

\* ListenInv is an invariant: whatever connections, conversations, listeners and
\* tasks do, in any order.
THEOREM ListenSafety == Spec => []ListenInv
<1>1. Init => ListenInv
  BY ListenStart
<1>2. ListenInv /\ [Next]_vars => ListenInv'
  BY ListenStep
<1> QED BY <1>1, <1>2, PTL DEF Spec

\* Every connection that follows the thread has been sent, or is about to be sent
\* by a replay, every request of its conversation that waits for an answer.
THEOREM PendingReachesSubscribersAlways == Spec => []PendingReachesSubscribers
<1>1. ASSUME ListenInv PROVE PendingReachesSubscribers
  <2> SUFFICES ASSUME NEW c \in subs, NEW a \in cb, ask[a].task = "await", ask[a].conv = conv, ~Replaying(c, a)
               PROVE  view[c][a] # "new"
    BY DEF PendingReachesSubscribers
  <2>1. \A l \in Listeners : ~(lis[l].pc = "send" /\ lis[l].a = a)
    BY <1>1 DEF ListenInv, HandsAreOnce
  <2> QED BY <1>1, <2>1 DEF ListenInv, RequestsReach
<1> QED BY <1>1, ListenSafety, PTL

\* Nobody follows a thread that is marked for unloading.
THEOREM UnloadSparesSubscribersAlways == Spec => []UnloadSparesSubscribers
<1>1. ListenInv => UnloadSparesSubscribers
  BY DEF ListenInv
<1> QED BY <1>1, ListenSafety, PTL

\* What a step does to a server request: who takes its callback, and who moves
\* its task.
LEMMA AskChanges ==
  ASSUME ListenInv, [Next]_vars, NEW a \in Asks
  PROVE  \/ ask'[a].task = ask[a].task /\ ask'[a].result \in {ask[a].result, "answer", "drop"}
         \/ /\ ask'[a].task = ask[a].task /\ a \in cb
            /\ \E l \in Listeners : OnTurnStarted(l) \/ OnTurnEnded(l)
         \/ ask'[a].task \in {"sending", "await"} /\ ask'[a].result = ask[a].result
         \/ /\ \E l \in Listeners : ResolveRequest(l) /\ Head(lis[l].cmds).a = a
            /\ ask'[a].task = "finish" /\ ask'[a].result = ask[a].result
         \/ TaskResolve(a) \/ TaskResolveFails(a) \/ TaskSubmit(a)
<1>0. /\ TypeOK /\ ask \in Seq(ServerRequest) /\ ask[a] \in ServerRequest /\ Len(ask) \in Nat
      /\ \A b \in Asks : ask[b] \in ServerRequest
  BY AskTyped DEF ListenInv, TypeOK
<1>1. CASE ask' = ask
  BY <1>1
<1>2. ASSUME NEW k \in Convs, AskApproval(k) PROVE ask'[a] = ask[a]
  <2> DEFINE one == [conv |-> k, task |-> "queued", result |-> "none", st |-> 0, lis |-> 0]
  <2>1. ask' = Append(ask, one)
    BY <1>2 DEF AskApproval
  <2> HIDE DEF one
  <2> QED BY <1>0, <2>1 DEF Asks
<1>3. ASSUME NEW as, NEW result \in {"answer", "drop", "abort"}, ask' = Settled(as, result)
      PROVE  ask'[a].task = ask[a].task /\ ask'[a].result \in {ask[a].result, result} /\ (a \in as \/ ask'[a] = ask[a])
  BY <1>0, <1>3 DEF Settled, ServerRequest
<1>4. ASSUME NEW b \in Asks, b # a,
             \/ TaskResolve(b) \/ TaskResolveFails(b) \/ TaskSubmit(b)
      PROVE  ask'[a] = ask[a]
  <2>1. CASE TaskResolve(b)
    <3>1. PICK t, l : ask' = [ask EXCEPT ![b].task = t, ![b].lis = l]
      BY <2>1 DEF TaskResolve
    <3> QED BY <1>0, <1>4, <3>1 DEF Asks
  <2>2. CASE TaskResolveFails(b) \/ TaskSubmit(b)
    BY <1>0, <1>4, <2>2 DEF TaskResolveFails, TaskSubmit, Asks
  <2> QED BY <1>4, <2>1, <2>2
<1>5. ASSUME NEW l \in Listeners, OnApprovalRequest(l)
      PROVE  ask'[a] = ask[a] \/ (ask'[a].task = "sending" /\ ask'[a].result = ask[a].result)
  <2> DEFINE b == Head(core[lis[l].conv].ev).a
  <2>1. ask' = [ask EXCEPT ![b].task = "sending", ![b].st = lis[l].st]
    BY <1>5 DEF OnApprovalRequest
  <2> HIDE DEF b
  <2>2. ASSUME NEW t, NEW s, ask' = [ask EXCEPT ![b].task = t, ![b].st = s]
        PROVE  ask'[a] = ask[a] \/ (ask'[a].task = t /\ ask'[a].result = ask[a].result)
    BY <1>0, <2>2 DEF ServerRequest, Asks
  <2> QED BY <2>1, <2>2
<1>6. ASSUME NEW l \in Listeners, SendRequest(l)
      PROVE  ask'[a] = ask[a] \/ (ask'[a].task = "await" /\ ask'[a].result = ask[a].result)
  <2>1. ask' = ask \/ ask' = [ask EXCEPT ![lis[l].a].task = "await"]
    BY <1>6 DEF SendRequest
  <2>2. ASSUME NEW b, ask' = [ask EXCEPT ![b].task = "await"]
        PROVE  \/ ask'[a] = ask[a]
               \/ ask'[a].task = "await" /\ ask'[a].result = ask[a].result
    <3> DEFINE t == "await"
    <3>1. ask' = [ask EXCEPT ![b].task = t]
      BY <2>2
    <3> HIDE DEF t
    <3>2. ask'[a] = ask[a] \/ (ask'[a].task = t /\ ask'[a].result = ask[a].result)
      BY <1>0, <3>1 DEF ServerRequest, Asks
    <3> QED BY <3>2 DEF t
  <2> QED BY <2>1, <2>2
<1>7. ASSUME NEW l \in Listeners, ResolveRequest(l)
      PROVE  \/ ask'[a] = ask[a]
             \/ Head(lis[l].cmds).a = a /\ ask'[a].task = "finish" /\ ask'[a].result = ask[a].result
  <2> DEFINE b == Head(lis[l].cmds).a
  <2>1. ask' = [ask EXCEPT ![b].task = "finish", ![b].lis = 0]
    BY <1>7 DEF ResolveRequest
  <2> HIDE DEF b
  <2>2. ask'[a] = ask[a] \/ (b = a /\ ask'[a].task = "finish" /\ ask'[a].result = ask[a].result)
    BY <1>0, <2>1 DEF Asks, ServerRequest
  <2> QED BY <2>2 DEF b
<1>8. ASSUME NEW k \in Convs, ConversationStep(k) PROVE ask'[a] = ask[a]
  BY <1>2, <1>8 DEF ConversationStep, StartTurn, EndTurn, ShutDown, askVars
<1>9. ASSUME NEW c \in Conns, ClientStep(c)
      PROVE  ask'[a].task = ask[a].task /\ ask'[a].result \in {ask[a].result, "answer", "drop"}
  <2>1. ask' = ask \/ \E b \in Asks : ask' = Settled({b}, "answer")
    BY <1>9 DEF ClientStep, Begin, Answer, CloseConnection, askVars
  <2> QED BY <1>3, <2>1
<1>10. ASSUME RequestStep \/ CloserCancel \/ CloserRemove \/ UnloaderStep
       PROVE  ask'[a].task = ask[a].task /\ ask'[a].result \in {ask[a].result, "answer", "drop"}
  <2>1. CASE RequestCancel \/ CloserCancel
    <3>1. ask' = Settled(cb, "drop")
      BY <2>1 DEF RequestCancel, CloserCancel, TeardownCancel, cancel_requests_for_thread
    <3> QED BY <1>3, <3>1
  <2>2. CASE ~(RequestCancel \/ CloserCancel)
    <3>1. ask' = ask
      BY <1>10, <2>2 DEF RequestStep, CloserRemove, UnloaderStep, ResumeCheck, ResumeRunning, ResumeListen,
         ResumeCommand, ResumeCold, Attach, AttachListen, ResumeAnswer, Unsubscribe, Archive, ArchiveWait,
         RequestRemove, TeardownRemove, UnloaderWait, UnloaderRemove, UnloaderClear, askVars
    <3> QED BY <3>1
  <2> QED BY <2>1, <2>2
<1>11. ASSUME NEW l \in Listeners, OnTurnStarted(l) \/ OnTurnEnded(l)
       PROVE  ask'[a].task = ask[a].task /\ (a \in cb \/ ask'[a] = ask[a])
  <2>1. ask' = Settled(cb, "abort")
    BY <1>11 DEF OnTurnStarted, OnTurnEnded, cancel_requests_for_thread
  <2> QED BY <1>3, <2>1
<1>12. ASSUME NEW l \in Listeners, UnloadMark(l)
       PROVE  ask'[a].task = ask[a].task /\ ask'[a].result \in {ask[a].result, "answer", "drop"}
  <2>1. ask' = ask \/ ask' = Settled(cb, "drop")
    BY <1>12 DEF UnloadMark, cancel_requests_for_thread
  <2> QED BY <1>3, <2>1
<1>13. ASSUME NEW l \in Listeners,
              \/ ListenerEnds(l) \/ TakeResume(l) \/ ResumeSubscribe(l) \/ ReplaySnapshot(l) \/ ReplaySend(l)
              \/ OnShutdownComplete(l) \/ UnloadForget(l) \/ UnloadDue(l)
       PROVE  ask' = ask
  BY <1>13 DEF ListenerEnds, TakeResume, ResumeSubscribe, ReplaySnapshot, ReplaySend, OnShutdownComplete,
     UnloadForget, UnloadDue, askVars
<1>14. CASE \E l \in Listeners : ListenerStep(l) \/ UnloadDue(l)
  BY <1>14, <1>5, <1>6, <1>7, <1>11, <1>12, <1>13 DEF ListenerStep
<1>15. CASE \E b \in Asks : TaskStep(b)
  BY <1>15, <1>4 DEF TaskStep
<1>16. CASE UNCHANGED vars
  BY <1>16 DEF vars, askVars
<1> QED BY <1>8, <1>9, <1>10, <1>14, <1>15, <1>16 DEF Next

\* A waiting turn's approval is abandoned only by a listener of another
\* conversation that takes an event.
THEOREM ApprovalIsKeptAlways == Spec => ApprovalIsKept
<1>1. ASSUME ListenInv, [Next]_vars, NEW a \in Asks,
             Waits(a), Waits(a)', ~Abandoned(a), Abandoned(a)'
      PROVE  \E l \in Listeners : LET k == lis[l].conv IN k # ask[a].conv /\ core'[k].ev # core[k].ev
  <2>0. TypeOK /\ ask[a] \in ServerRequest /\ a \in Nat /\ a # 0 /\ ask[a].conv \in Convs /\ core \in Seq(Conversation)
    BY <1>1, AskTyped, AskRange DEF ListenInv, AsksExist, TypeOK, Asks
  <2>1. CASE TaskSubmit(a)
    <3>1. ask[a].result # "abort" /\ core[ask[a].conv].ask = a
      BY <1>1 DEF Abandoned, Waits
    <3>2. core' = [core EXCEPT ![ask[a].conv].ask = 0] /\ ask' = [ask EXCEPT ![a].task = "done"]
      BY <2>1, <3>1 DEF TaskSubmit
    <3>3. ask'[a].conv = ask[a].conv
      BY <2>0, <3>2 DEF TypeOK, Asks, ServerRequest
    <3>4. core[ask[a].conv] \in Conversation
      BY <2>0, CoreTyped
    <3>5. core'[ask[a].conv].ask = 0
      BY <2>0, <3>2, <3>4 DEF Convs, Conversation
    <3> QED BY <1>1, <2>0, <3>3, <3>5 DEF Waits
  <2>2. CASE TaskResolve(a) \/ TaskResolveFails(a)
    <3>1. ask'[a].result = ask[a].result /\ ask'[a].task # "done"
      <4>1. \E t \in {"finish", "resolving"} : \E l : ask' = [ask EXCEPT ![a].task = t, ![a].lis = l]
        BY <2>2 DEF TaskResolve, TaskResolveFails
      <4>2. ASSUME NEW t, NEW l, ask' = [ask EXCEPT ![a].task = t, ![a].lis = l]
            PROVE  ask'[a].task = t /\ ask'[a].result = ask[a].result
        <5>1. a \in DOMAIN ask
          BY <2>0 DEF TypeOK, Asks
        <5> QED BY <2>0, <4>2, <5>1 DEF ServerRequest
      <4> QED BY <4>1, <4>2
    <3> QED BY <1>1, <3>1 DEF Abandoned
  <2>3. ASSUME NEW l \in Listeners, OnTurnStarted(l) \/ OnTurnEnded(l), a \in cb
        PROVE  LET k == lis[l].conv IN k # ask[a].conv /\ core'[k].ev # core[k].ev
    <3> DEFINE k == lis[l].conv
    <3>1. PICK t \in {"start", "end"} : NextEvent(l, t)
      BY <2>3 DEF OnTurnStarted, OnTurnEnded
    <3>2. k \in Convs /\ core[k].ev \in Seq(Events) /\ core[k].ev # <<>> /\ core'[k].ev = Tail(core[k].ev)
      BY <1>1, <3>1, EventTaken
    <3> HIDE DEF k
    <3>3. core'[k].ev # core[k].ev
      <4>1. Len(Tail(core[k].ev)) # Len(core[k].ev)
        BY <3>2, TailTyped
      <4> QED BY <3>2, <4>1
    <3>4. ask[a].task # "queued"
      BY <1>1, <2>3 DEF ListenInv, HandsAreOnce
    <3>5. core[ask[a].conv].ev = <<>>
      BY <1>1, <2>0, <3>4 DEF ListenInv, TurnsWait, Waits
    <3> QED BY <3>2, <3>3, <3>5 DEF k
  <2>4. \/ ask'[a].task = ask[a].task /\ ask'[a].result \in {ask[a].result, "answer", "drop"}
        \/ ask'[a].task \in {"sending", "await"} /\ ask'[a].result = ask[a].result
        \/ ask'[a].task = "finish" /\ ask'[a].result = ask[a].result
        => FALSE
    BY <1>1 DEF Abandoned
  <2>5. \/ ask'[a].task = ask[a].task /\ ask'[a].result \in {ask[a].result, "answer", "drop"}
        \/ a \in cb /\ \E l \in Listeners : OnTurnStarted(l) \/ OnTurnEnded(l)
        \/ ask'[a].task \in {"sending", "await"} /\ ask'[a].result = ask[a].result
        \/ ask'[a].task = "finish" /\ ask'[a].result = ask[a].result
        \/ TaskResolve(a) \/ TaskResolveFails(a) \/ TaskSubmit(a)
    BY <1>1, AskChanges
  <2> QED BY <2>1, <2>2, <2>3, <2>4, <2>5
<1>2. ListenInv /\ [Next]_vars =>
        [\A a \in Asks :
           Waits(a) /\ Waits(a)' /\ ~Abandoned(a) /\ Abandoned(a)' =>
             \E l \in Listeners : LET k == lis[l].conv IN k # ask[a].conv /\ core'[k].ev # core[k].ev]_vars
  BY <1>1
<1> QED BY <1>2, ListenSafety, PTL DEF Spec, ApprovalIsKept

\* The task of a request goes on only when those who follow the thread have been
\* told that it is resolved.
THEOREM NoticeBeforeDecisionAlways == Spec => NoticeBeforeDecision
<1>1. ASSUME ListenInv, [Next]_vars, NEW a \in Asks, ask[a].task # "finish", ask'[a].task = "finish",
             ask[a].st = entry, Runs(ask[a].conv), NEW c \in subs
      PROVE  view'[c][a] # "shown"
  <2>0. TypeOK /\ ask[a] \in ServerRequest /\ c \in Conns /\ a \in 1 .. MaxAsks
    BY <1>1, AskTyped, AskRange DEF ListenInv, TypeOK
  <2>1. ASSUME NEW l \in Listeners, ResolveRequest(l), Head(lis[l].cmds).a = a
        PROVE  view'[c][a] = "resolved"
    BY <2>0, <2>1 DEF ResolveRequest, TypeOK
  <2>2. ASSUME ask[a].task # "queued" PROVE HasListener /\ (ask[a].task = "resolving" => ask[a].lis = tstate[entry])
    BY <1>1, <2>2 DEF ListenInv, SenderResolves
  <2>3. CASE TaskResolve(a)
    <3>1. tstate[ask[a].st] # 0
      BY <1>1, <2>2, <2>3 DEF TaskResolve, HasListener
    <3>2. ask' = [ask EXCEPT ![a].task = "resolving", ![a].lis = tstate[ask[a].st]]
      BY <2>3, <3>1 DEF TaskResolve
    <3>3. ask'[a].task = "resolving"
      BY <2>0, <3>2 DEF TypeOK, Asks, ServerRequest
    <3> QED BY <1>1, <3>3
  <2>4. CASE TaskResolveFails(a)
    <3>1. ask[a].lis = tstate[entry] /\ tstate[entry] # 0 /\ entry # 0 /\ lis[ask[a].lis].pc = "ended"
      BY <2>2, <2>4 DEF TaskResolveFails, HasListener
    <3> QED BY <1>1, <3>1 DEF ListenInv, StatesExist
  <2>5. CASE TaskSubmit(a)
    BY <1>1, <2>5 DEF TaskSubmit
  <2> QED BY <1>1, <2>1, <2>3, <2>4, <2>5, AskChanges
<1>2. ListenInv /\ [Next]_vars =>
        [\A a \in Asks :
          /\ ask[a].task # "finish" /\ ask'[a].task = "finish"
          /\ ask[a].st = entry /\ Runs(ask[a].conv)
          => \A c \in subs : view'[c][a] # "shown"]_vars
  BY <1>1
<1> QED BY <1>2, ListenSafety, PTL DEF Spec, NoticeBeforeDecision

\* A request that a connection was told is resolved is shown to it again only by
\* a replay of a listener that is no longer that of the request's ThreadState.
THEOREM NoRequestAfterResolvedAlways == Spec => NoRequestAfterResolved
<1>1. ASSUME ListenInv, [Next]_vars, NEW c \in Conns, NEW a \in Asks,
             view[c][a] = "resolved", view'[c][a] # "resolved"
      PROVE  \E l \in Listeners : lis[l].pc = "resend" /\ tstate[ask[a].st] # l
  <2>0. /\ TypeOK /\ a \in 1 .. MaxAsks /\ ask[a].task \in {"finish", "done"}
        /\ view \in [Conns -> [1 .. MaxAsks -> {"new", "shown", "left", "resolved"}]]
    BY <1>1, AskRange DEF ListenInv, TypeOK, ReplaysAreFresh
  <2>1. ASSUME NEW l \in Listeners, ReplaySend(l)
        PROVE  lis[l].pc = "resend" /\ tstate[ask[a].st] # l
    <3>1. PICK b \in lis[l].todo : view' = [view EXCEPT ![lis[l].conn][b] = Shown(lis[l].conn)]
      BY <1>1, <2>1 DEF ReplaySend
    <3>2. b = a
      BY <1>1, <2>0, <3>1
    <3>3. lis[l].pc = "resend"
      BY <2>1 DEF ReplaySend
    <3> QED BY <1>1, <2>0, <3>1, <3>2, <3>3 DEF ListenInv, ReplaysAreFresh
  <2>2. ASSUME NEW l \in Listeners, SendRequest(l)
        PROVE  FALSE
    <3>1. PICK d \in lis[l].ids : view' = [view EXCEPT ![d][lis[l].a] = Shown(d)]
      BY <1>1, <2>2 DEF SendRequest
    <3>2. lis[l].a = a
      BY <1>1, <2>0, <3>1
    <3> QED BY <1>1, <2>0, <2>2, <3>2 DEF SendRequest, ListenInv, HandsAreOnce
  <2>3. ASSUME NEW l \in Listeners, ResolveRequest(l)
        PROVE  FALSE
    <3> DEFINE b == Head(lis[l].cmds).a
    <3>1. view' = [d \in Conns |-> IF d \in subs THEN [view[d] EXCEPT ![b] = "resolved"] ELSE view[d]]
      BY <2>3 DEF ResolveRequest
    <3> HIDE DEF b
    <3>2. view'[c][a] = view[c][a] \/ view'[c][a] = "resolved"
      BY <1>1, <2>0, <3>1
    <3> QED BY <1>1, <3>2
  <2>4. CASE Unsubscribe
    <3>1. view' = view \/ view' = [view EXCEPT ![req.conn] = Left(@)]
      BY <2>4 DEF Unsubscribe
    <3>3. view[c] \in [1 .. MaxAsks -> {"new", "shown", "left", "resolved"}]
      BY <2>0
    <3>4. Left(view[c])[a] = "resolved"
      BY <1>1, <2>0, <3>3 DEF Left
    <3>5. view'[c] \in {view[c], Left(view[c])}
      BY <2>0, <3>1
    <3>2. view'[c][a] = "resolved"
      BY <1>1, <3>4, <3>5
    <3> QED BY <1>1, <3>2
  <2>5. view' # view
    BY <1>1
  <2>6. ASSUME NEW k \in Convs, ConversationStep(k) PROVE FALSE
    BY <2>5, <2>6 DEF ConversationStep, StartTurn, EndTurn, ShutDown, AskApproval, askVars
  <2>7. ASSUME NEW d \in Conns, ClientStep(d) PROVE FALSE
    BY <2>5, <2>7 DEF ClientStep, Begin, Answer, CloseConnection, askVars
  <2>8. CASE RequestStep \/ CloserCancel \/ CloserRemove \/ UnloaderStep
    BY <2>4, <2>5, <2>8 DEF RequestStep, CloserCancel, CloserRemove, UnloaderStep, ResumeCheck, ResumeRunning,
       ResumeListen, ResumeCommand, ResumeCold, Attach, AttachListen, ResumeAnswer, Archive, ArchiveWait,
       RequestCancel, RequestRemove, TeardownCancel, TeardownRemove, UnloaderWait, UnloaderRemove,
       UnloaderClear, askVars
  <2>9. ASSUME NEW l \in Listeners,
               \/ ListenerEnds(l) \/ TakeResume(l) \/ ResumeSubscribe(l) \/ ReplaySnapshot(l)
               \/ OnTurnStarted(l) \/ OnTurnEnded(l) \/ OnShutdownComplete(l) \/ OnApprovalRequest(l)
               \/ UnloadMark(l) \/ UnloadForget(l) \/ UnloadDue(l)
        PROVE  FALSE
    BY <2>5, <2>9 DEF ListenerEnds, TakeResume, ResumeSubscribe, ReplaySnapshot, OnTurnStarted, OnTurnEnded,
       OnShutdownComplete, OnApprovalRequest, UnloadMark, UnloadForget, UnloadDue, askVars
  <2>10. CASE \E l \in Listeners : ListenerStep(l) \/ UnloadDue(l)
    BY <2>1, <2>2, <2>3, <2>9, <2>10 DEF ListenerStep
  <2>11. ASSUME NEW b \in Asks, TaskStep(b) PROVE FALSE
    BY <2>5, <2>11 DEF TaskStep, TaskResolve, TaskResolveFails, TaskSubmit
  <2>12. CASE UNCHANGED vars
    BY <2>5, <2>12 DEF vars, askVars
  <2> QED BY <1>1, <2>6, <2>7, <2>8, <2>10, <2>11, <2>12 DEF Next
<1>2. ListenInv /\ [Next]_vars =>
        [\A c \in Conns, a \in Asks :
          view[c][a] = "resolved" /\ view'[c][a] # "resolved" =>
            \E l \in Listeners : lis[l].pc = "resend" /\ tstate[ask[a].st] # l]_vars
  BY <1>1
<1> QED BY <1>2, ListenSafety, PTL DEF Spec, NoRequestAfterResolved

\* A listener stays on the conversation it was started for.
LEMMA ListenersStay ==
  ASSUME ListenInv, [Next]_vars, NEW m \in Listeners
  PROVE  lis'[m].conv = lis[m].conv
<1>0. /\ TypeOK /\ lis[m] \in Listener /\ lis \in Seq(Listener) /\ Len(lis) \in Nat /\ m \in DOMAIN lis /\ m \in 1 .. Len(lis)
  BY LisTyped DEF ListenInv, TypeOK, Listeners
<1>1. ASSUME NEW s \in 1 .. Len(tstate), NEW k, lis' = Cleared(s) \/ set_listener(s, k)
      PROVE  lis'[m].conv = lis[m].conv
  <2>1. Cleared(s) \in Seq(Listener) /\ Len(Cleared(s)) = Len(lis) /\ Cleared(s)[m].conv = lis[m].conv
    BY <1>1, ClearedKeeps
  <2>2. ASSUME NEW x, lis' = Append(Cleared(s), x) PROVE lis'[m] = Cleared(s)[m]
    <3> DEFINE q == Cleared(s)
    <3>1. q \in Seq(Listener) /\ m \in 1 .. Len(q) /\ lis' = Append(q, x)
      BY <1>0, <2>1, <2>2
    <3> HIDE DEF q
    <3>2. lis'[m] = q[m]
      BY <3>1
    <3> QED BY <3>2 DEF q
  <2> QED BY <1>1, <2>1, <2>2 DEF set_listener
<1>2. ASSUME remove_thread_state PROVE lis'[m].conv = lis[m].conv
  <2>1. entry # 0 => entry \in 1 .. Len(tstate)
    BY DEF ListenInv, StatesExist, TypeOK
  <2>2. lis' = lis \/ (entry # 0 /\ lis' = Cleared(entry))
    BY <1>2 DEF remove_thread_state
  <2> QED BY <1>1, <2>1, <2>2
<1>3. ASSUME RequestStep PROVE lis'[m].conv = lis[m].conv
  <2>1. CASE ResumeListen \/ AttachListen
    <3>1. req.st \in 1 .. Len(tstate)
      BY <2>1 DEF ListenInv, RequestIsCurrent, ResumeListen, AttachListen
    <3>2. lis' = lis \/ set_listener(req.st, req.conv)
      BY <2>1 DEF ResumeListen, AttachListen
    <3> QED BY <1>1, <3>1, <3>2
  <2>2. CASE RequestRemove
    BY <1>2, <2>2 DEF RequestRemove, TeardownRemove
  <2>3. CASE ResumeCommand
    <3>1. PICK l, q : lis' = lis \/ lis' = [lis EXCEPT ![l].cmds = q]
      BY <2>3 DEF ResumeCommand
    <3>2. CASE lis' = [lis EXCEPT ![l].cmds = q]
      BY <1>0, <3>2 DEF Listener
    <3> QED BY <3>1, <3>2
  <2>4. CASE ~(ResumeListen \/ AttachListen \/ RequestRemove \/ ResumeCommand)
    <3>1. lis' = lis
      BY <1>3, <2>4 DEF RequestStep, ResumeCheck, ResumeRunning, ResumeCold, Attach, ResumeAnswer, Unsubscribe, Archive,
         ArchiveWait, RequestCancel, TeardownCancel, entryVars
    <3> QED BY <3>1
  <2> QED BY <2>1, <2>2, <2>3, <2>4
<1>4. CASE CloserCancel \/ CloserRemove
  BY <1>2, <1>4 DEF CloserCancel, CloserRemove, TeardownCancel, TeardownRemove, entryVars
<1>5. ASSUME NEW k \in Convs, ConversationStep(k) PROVE lis' = lis
  BY <1>5 DEF ConversationStep, StartTurn, EndTurn, ShutDown, AskApproval, entryVars
<1>6. ASSUME NEW c \in Conns, ClientStep(c) PROVE lis' = lis
  BY <1>6 DEF ClientStep, Begin, Answer, CloseConnection, entryVars
<1>7. ASSUME UnloaderStep PROVE lis' = lis
  BY <1>7 DEF UnloaderStep, UnloaderWait, UnloaderRemove, UnloaderClear, entryVars
<1>8. ASSUME NEW a \in Asks, TaskStep(a) PROVE lis'[m].conv = lis[m].conv
  <2>1. PICK l, q : lis' = lis \/ lis' = [lis EXCEPT ![l].cmds = q]
    BY <1>8 DEF TaskStep, TaskResolve, TaskResolveFails, TaskSubmit, entryVars
  <2>2. CASE lis' = [lis EXCEPT ![l].cmds = q]
    BY <1>0, <2>2 DEF Listener
  <2> QED BY <2>1, <2>2
<1>9. ASSUME NEW l \in Listeners, ListenerStep(l) \/ UnloadDue(l) PROVE lis'[m].conv = lis[m].conv
  <2>0. ASSUME Select(l) \/ \E pc : Goto(l, pc) PROVE lis'[m].conv = lis[m].conv
    <3>1. CASE Select(l)
      BY <1>0, <3>1 DEF Select, Listener
    <3>2. ASSUME NEW pc, Goto(l, pc) PROVE lis'[m].conv = lis[m].conv
      BY <1>0, <3>2 DEF Goto, Listener
    <3> QED BY <2>0, <3>1, <3>2
  <2>1. CASE ListenerEnds(l)
    BY <1>0, <2>1 DEF ListenerEnds, Listener
  <2>9. CASE TakeResume(l)
    BY <1>0, <2>9 DEF TakeResume, Listener
  <2>10. CASE ReplaySnapshot(l)
    BY <1>0, <2>10 DEF ReplaySnapshot, Listener
  <2>2. CASE ResumeSubscribe(l) \/ UnloadMark(l) \/ UnloadDue(l)
    BY <2>0, <2>2 DEF ResumeSubscribe, UnloadMark, UnloadDue
  <2>3. CASE ReplaySend(l)
    <3>1. ASSUME NEW x, lis' = [lis EXCEPT ![l].todo = @ \ {x}] PROVE lis'[m].conv = lis[m].conv
      BY <1>0, <3>1 DEF Listener
    <3> QED BY <2>0, <2>3, <3>1 DEF ReplaySend
  <2>4. CASE ResolveRequest(l)
    BY <1>0, <2>4 DEF ResolveRequest, Listener
  <2>5. CASE OnTurnStarted(l) \/ OnTurnEnded(l) \/ OnShutdownComplete(l)
    BY <2>5 DEF OnTurnStarted, OnTurnEnded, OnShutdownComplete
  <2>6. CASE OnApprovalRequest(l)
    BY <1>0, <2>6 DEF OnApprovalRequest, Listener
  <2>7. CASE SendRequest(l)
    <3>1. ASSUME NEW x, lis' = [lis EXCEPT ![l].ids = @ \ {x}] PROVE lis'[m].conv = lis[m].conv
      BY <1>0, <3>1 DEF Listener
    <3> QED BY <2>0, <2>7, <3>1 DEF SendRequest
  <2>8. CASE UnloadForget(l)
    BY <1>0, <2>8 DEF UnloadForget, Listener
  <2> QED BY <1>9, <2>1, <2>2, <2>3, <2>4, <2>5, <2>6, <2>7, <2>8, <2>9, <2>10 DEF ListenerStep
<1>10. CASE UNCHANGED vars
  BY <1>10 DEF vars, entryVars
<1> QED BY <1>3, <1>4, <1>5, <1>6, <1>7, <1>8, <1>9, <1>10 DEF Next

\* A followed thread keeps its listener: neither a listener that ends late nor a
\* request that knows an old conversation takes it away.
THEOREM ListenerIsKeptAlways == Spec => ListenerIsKept
<1>1. ASSUME ListenInv, [Next]_vars, subs' # {}, Runs(conv), Runs(conv)', HasListener
      PROVE  HasListener'
  <2>0. /\ TypeOK /\ entry \in 1 .. Len(tstate) /\ entry # 0 /\ tstate \in Seq(Nat)
        /\ tstate[entry] # 0 /\ tstate[entry] \in Listeners /\ lis[tstate[entry]].conv = conv
        /\ ~lis[tstate[entry]].cancel /\ lis[tstate[entry]].entry = entry
    BY <1>1 DEF ListenInv, StatesExist, OneListener, HasListener, TypeOK
  <2>1. conv # 0 /\ conv' # 0 /\ core[conv].phase # "dead"
    BY <1>1 DEF Runs
  <2>2. ASSUME entry' = entry, tstate'[entry] = tstate[entry], conv' = conv PROVE HasListener'
    BY <1>1, <2>0, <2>2, ListenersStay DEF HasListener
  <2>3. ASSUME NEW more, EnsureEntry(more) PROVE entry' = entry /\ tstate' = tstate
    BY <2>0, <2>3 DEF EnsureEntry
  <2>4. ASSUME ResumeListen \/ AttachListen
        PROVE  entry' = entry /\ conv' = conv /\ tstate'[entry] = tstate[entry]
    <3>1. entry' = entry /\ conv' = conv /\ (tstate' = tstate \/ (set_listener(req.st, req.conv) /\ ~listener_matches(req.st, req.conv)))
      BY <2>0, <2>4 DEF ResumeListen, AttachListen, coreVars
    <3>2. conv = req.conv
      BY <1>1, <2>1, <2>4 DEF ListenInv, RequestIsCurrent, ResumeListen, AttachListen
    <3>3. CASE req.st = entry
      BY <2>0, <3>1, <3>2, <3>3 DEF listener_matches
    <3>4. CASE req.st # entry
      BY <2>0, <3>1, <3>4 DEF set_listener
    <3> QED BY <3>1, <3>3, <3>4
  <2>5. CASE RequestStep
    <3>1. CASE ResumeRunning \/ Attach
      BY <2>2, <2>3, <3>1 DEF ResumeRunning, Attach, coreVars
    <3>2. CASE RequestRemove
      BY <1>1, <3>2 DEF RequestRemove, TeardownRemove, remove_thread_state
    <3>3. CASE ResumeCold \/ Archive
      BY <2>1, <3>3 DEF ResumeCold, Archive
    <3>4. CASE ResumeCheck \/ ResumeCommand \/ ResumeAnswer \/ Unsubscribe \/ ArchiveWait \/ RequestCancel
      BY <2>2, <3>4 DEF ResumeCheck, ResumeCommand, ResumeAnswer, Unsubscribe, ArchiveWait, RequestCancel,
         TeardownCancel, coreVars, entryVars
    <3> QED BY <2>2, <2>4, <2>5, <3>1, <3>2, <3>3, <3>4 DEF RequestStep
  <2>6. CASE CloserCancel \/ CloserRemove
    BY <1>1, <2>2, <2>6 DEF CloserCancel, CloserRemove, TeardownCancel, TeardownRemove, remove_thread_state, coreVars,
       entryVars
  <2>7. ASSUME NEW k \in Convs, ConversationStep(k) PROVE HasListener'
    BY <2>2, <2>7 DEF ConversationStep, StartTurn, EndTurn, ShutDown, AskApproval, entryVars
  <2>8. ASSUME NEW c \in Conns, ClientStep(c) PROVE HasListener'
    BY <2>2, <2>8 DEF ClientStep, Begin, Answer, CloseConnection, coreVars, entryVars
  <2>9. CASE UnloaderStep
    BY <2>1, <2>2, <2>9 DEF UnloaderStep, UnloaderWait, UnloaderRemove, UnloaderClear, coreVars, entryVars
  <2>10. ASSUME NEW a \in Asks, TaskStep(a) PROVE HasListener'
    BY <2>2, <2>10 DEF TaskStep, TaskResolve, TaskResolveFails, TaskSubmit, coreVars, entryVars
  <2>11. ASSUME NEW l \in Listeners, ListenerEnds(l) PROVE HasListener'
    <3>1. l # tstate[entry]
      BY <2>0, <2>1, <2>11 DEF ListenerEnds
    <3>2. lis[l].st = entry => tstate[lis[l].st] # l
      BY <3>1
    <3>3. entry' = entry /\ conv' = conv /\ tstate'[entry] = tstate[entry]
      BY <2>0, <2>11, <3>2 DEF ListenerEnds, coreVars
    <3> QED BY <2>2, <3>3
  <2>12. ASSUME NEW l \in Listeners, ListenerStep(l) \/ UnloadDue(l) PROVE HasListener'
    <3>1. CASE UnloadForget(l)
      BY <1>1, <3>1 DEF UnloadForget
    <3>2. CASE ResumeSubscribe(l)
      BY <2>2, <2>3, <3>2 DEF ResumeSubscribe, coreVars
    <3>3. CASE \/ TakeResume(l) \/ ReplaySnapshot(l) \/ ReplaySend(l) \/ ResolveRequest(l)
               \/ SendRequest(l) \/ UnloadMark(l) \/ UnloadDue(l)
      BY <2>2, <3>3 DEF TakeResume, ReplaySnapshot, ReplaySend, ResolveRequest, SendRequest, UnloadMark, UnloadDue, coreVars
    <3>4. CASE OnTurnStarted(l) \/ OnTurnEnded(l) \/ OnShutdownComplete(l) \/ OnApprovalRequest(l)
      BY <2>2, <3>4 DEF OnTurnStarted, OnTurnEnded, OnShutdownComplete, OnApprovalRequest, NextEvent
    <3> QED BY <2>11, <2>12, <3>1, <3>2, <3>3, <3>4 DEF ListenerStep
  <2>13. CASE UNCHANGED vars
    BY <2>2, <2>13 DEF vars, coreVars, entryVars
  <2> QED BY <1>1, <2>5, <2>6, <2>7, <2>8, <2>9, <2>10, <2>12, <2>13 DEF Next
<1>2. ListenInv /\ [Next]_vars =>
        [subs # {} /\ subs' # {} /\ Runs(conv) /\ Runs(conv)' /\ HasListener => HasListener']_vars
  BY <1>1
<1> QED BY <1>2, ListenSafety, PTL DEF Spec, ListenerIsKept
=============================================================================
