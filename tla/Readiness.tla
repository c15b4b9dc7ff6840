----------------------------- MODULE Readiness -----------------------------
(***************************************************************************)
(* The readiness flag of codex-rs/utils/readiness: a one-way flag flipped  *)
(* by whoever presents a subscribed token, or by the first reader that     *)
(* finds no subscription at all.  Threads run is_ready, subscribe,         *)
(* mark_ready and wait_ready concurrently; every atomic load, every lock   *)
(* acquisition and every send on the watch channel is a step of its own.   *)
(*                                                                         *)
(* The watch channel is tokio's (external): a send with no live receiver   *)
(* fails and leaves the stored value as it was.                            *)
(***************************************************************************)
EXTENDS Integers

CONSTANTS
  Procs,     \* the threads that share the flag
  Modulus    \* number of distinct token ids (2^32 in the code: i32 wraps)

ASSUME ModulusAssumption == Modulus \in Nat /\ Modulus > 1

VARIABLES
  ready,     \* ready: AtomicBool
  next_id,   \* next_id: AtomicI32, modulo Modulus
  tokens,    \* tokens: Mutex<HashSet<Token>>
  locked,    \* the tokens mutex: the set of threads holding it (at most one)
  sent,      \* the value stored in the watch channel tx
  receivers, \* the threads whose watch receiver is alive
  pc,        \* where each thread stands in its current call
  op,        \* which call that is
  arg,       \* the token passed to mark_ready
  held,      \* the token each thread obtained last (0: none)
  early,     \* history: threads whose receiver was created before the flip
  marks      \* history: number of mark_ready calls that answered Ok(true)

vars == <<ready, next_id, tokens, locked, sent, receivers, pc, op, arg, held,
          early, marks>>

Ids    == 0 .. Modulus - 1
Token  == Ids \ {0}
Ops    == {"is_ready", "wait_ready", "subscribe", "mark_ready"}
Labels == {"idle", "try_lock", "await_lock", "critical", "reload", "send",
           "rx_subscribe", "rx_borrow", "rx_changed"}

Init ==
  /\ ready = FALSE
  /\ next_id = 1
  /\ tokens = {}
  /\ locked = {}
  /\ sent = FALSE
  /\ receivers = {}
  /\ pc = [p \in Procs |-> "idle"]
  /\ op = [p \in Procs |-> "is_ready"]
  /\ arg = [p \in Procs |-> 0]
  /\ held = [p \in Procs |-> 0]
  /\ early = {}
  /\ marks = 0

Goto(p, label) == pc' = [pc EXCEPT ![p] = label]

(***************************************************************************)
(* Every call starts with load_ready and returns at once when it is true.  *)
(***************************************************************************)
CallIsReady(p, call) ==
  /\ pc[p] = "idle"
  /\ call \in {"is_ready", "wait_ready"}
  /\ op' = [op EXCEPT ![p] = call]
  /\ Goto(p, IF ready THEN "idle" ELSE "try_lock")
  /\ UNCHANGED <<ready, next_id, tokens, locked, sent, receivers, arg, held, early, marks>>

CallSubscribe(p) ==
  /\ pc[p] = "idle"
  /\ op' = [op EXCEPT ![p] = "subscribe"]
  /\ Goto(p, IF ready THEN "idle" ELSE "await_lock")
  /\ UNCHANGED <<ready, next_id, tokens, locked, sent, receivers, arg, held, early, marks>>

\* A token is Copy and only subscribe creates one, so any thread may present
\* any token handed out so far; id 0 is never authorised.
CallMarkReady(p, t) ==
  /\ pc[p] = "idle"
  /\ op' = [op EXCEPT ![p] = "mark_ready"]
  /\ arg' = [arg EXCEPT ![p] = t]
  /\ Goto(p, IF ready \/ t = 0 THEN "idle" ELSE "await_lock")
  /\ UNCHANGED <<ready, next_id, tokens, locked, sent, receivers, held, early, marks>>

(***************************************************************************)
(* The tokens mutex: is_ready only tries it, the others wait at most       *)
(* LOCK_TIMEOUT for it.                                                    *)
(***************************************************************************)
TryLock(p) ==
  /\ pc[p] = "try_lock"
  /\ \/ locked = {} /\ locked' = {p} /\ Goto(p, "critical")
     \/ locked # {} /\ Goto(p, "reload") /\ UNCHANGED locked
  /\ UNCHANGED <<ready, next_id, tokens, sent, receivers, op, arg, held, early, marks>>

AcquireLock(p) ==
  /\ pc[p] = "await_lock"
  /\ locked = {}
  /\ locked' = {p}
  /\ Goto(p, "critical")
  /\ UNCHANGED <<ready, next_id, tokens, sent, receivers, op, arg, held, early, marks>>

LockTimeout(p) ==
  /\ pc[p] = "await_lock"
  /\ locked # {}
  /\ Goto(p, "idle")
  /\ UNCHANGED <<ready, next_id, tokens, locked, sent, receivers, op, arg, held, early, marks>>

(***************************************************************************)
(* The three critical sections; each drops the guard at its end.           *)
(***************************************************************************)
InCritical(p, call) ==
  /\ pc[p] = "critical" /\ op[p] \in call
  /\ locked' = locked \ {p}

IsReadyLocked(p) ==
  /\ InCritical(p, {"is_ready", "wait_ready"})
  /\ \/ /\ tokens = {}
        /\ ready' = TRUE
        /\ Goto(p, IF ready THEN "idle" ELSE "send")
     \/ /\ tokens # {}
        /\ Goto(p, "reload")
        /\ UNCHANGED ready
  /\ UNCHANGED <<next_id, tokens, sent, receivers, op, arg, held, early, marks>>

IdAt(k) == (next_id + k) % Modulus

\* The fetch_add loop ends at the k-th id after next_id: the first one that is
\* neither 0 nor taken.  Bound: none is left after 2^32 - 1 subscriptions, and
\* then the loop of the code never ends.
FreshAt(k) ==
  /\ IdAt(k) \notin tokens \cup {0}
  /\ \A j \in Ids : j < k => IdAt(j) \in tokens \cup {0}

InsertFreshToken(p) ==
  \E k \in Ids :
    /\ FreshAt(k)
    /\ tokens' = tokens \cup {IdAt(k)}
    /\ held' = [held EXCEPT ![p] = IdAt(k)]
    /\ next_id' = IdAt(k + 1)

\* Mutant: the recheck of the flag under the lock is dropped.
SubscribeLockedNoRecheck(p) ==
  /\ InCritical(p, {"subscribe"})
  /\ InsertFreshToken(p)
  /\ Goto(p, "idle")
  /\ UNCHANGED <<ready, sent, receivers, op, arg, early, marks>>

SubscribeLocked(p) ==
  /\ InCritical(p, {"subscribe"})
  /\ \/ ready /\ UNCHANGED <<tokens, next_id, held>>
     \/ ~ready /\ InsertFreshToken(p)
  /\ Goto(p, "idle")
  /\ UNCHANGED <<ready, sent, receivers, op, arg, early, marks>>

MarkReadyLocked(p) ==
  /\ InCritical(p, {"mark_ready"})
  /\ \/ /\ arg[p] \in tokens
        /\ ready' = TRUE
        /\ tokens' = {}
        /\ marks' = marks + 1
        /\ Goto(p, "send")
     \/ /\ arg[p] \notin tokens
        /\ Goto(p, "idle")
        /\ UNCHANGED <<ready, tokens, marks>>
  /\ UNCHANGED <<next_id, sent, receivers, op, arg, held, early>>

\* is_ready's last load: false sends wait_ready on to its receiver.
Reload(p) ==
  /\ pc[p] = "reload"
  /\ Goto(p, IF ~ready /\ op[p] = "wait_ready" THEN "rx_subscribe" ELSE "idle")
  /\ UNCHANGED <<ready, next_id, tokens, locked, sent, receivers, op, arg, held, early, marks>>

(***************************************************************************)
(* tokio's watch channel: send fails, and stores nothing, when no receiver *)
(* is alive; the callers ignore the error.                                 *)
(***************************************************************************)
WatchSend(value, stored) == IF receivers = {} THEN stored ELSE value

\* Mutant: the send is forgotten.
BroadcastForgotten(p) ==
  /\ pc[p] = "send"
  /\ Goto(p, "idle")
  /\ UNCHANGED <<ready, next_id, tokens, locked, sent, receivers, op, arg, held, early, marks>>

Broadcast(p) ==
  /\ pc[p] = "send"
  /\ sent' = WatchSend(TRUE, sent)
  /\ Goto(p, "idle")
  /\ UNCHANGED <<ready, next_id, tokens, locked, receivers, op, arg, held, early, marks>>

WaitSubscribe(p) ==
  /\ pc[p] = "rx_subscribe"
  /\ receivers' = receivers \cup {p}
  /\ early' = IF ready THEN early ELSE early \cup {p}
  /\ Goto(p, "rx_borrow")
  /\ UNCHANGED <<ready, next_id, tokens, locked, sent, op, arg, held, marks>>

\* Both the fast-path borrow and the loop around changed() leave on true.
WaitObserve(p) ==
  /\ \/ pc[p] = "rx_borrow"
     \/ pc[p] = "rx_changed" /\ sent
  /\ \/ sent /\ receivers' = receivers \ {p} /\ early' = early \ {p} /\ Goto(p, "idle")
     \/ ~sent /\ Goto(p, "rx_changed") /\ UNCHANGED <<receivers, early>>
  /\ UNCHANGED <<ready, next_id, tokens, locked, sent, op, arg, held, marks>>

Calls(p) ==
  \/ \E call \in {"is_ready", "wait_ready"} : CallIsReady(p, call)
  \/ CallSubscribe(p)
  \/ \E q \in Procs : CallMarkReady(p, held[q])

Steps(p) ==
  \/ TryLock(p) \/ AcquireLock(p) \/ LockTimeout(p)
  \/ IsReadyLocked(p) \/ SubscribeLocked(p) \/ MarkReadyLocked(p)
  \/ Reload(p) \/ Broadcast(p) \/ WaitSubscribe(p) \/ WaitObserve(p)

Next == \E p \in Procs : Calls(p) \/ Steps(p)

\* Tokio keeps polling a task that can make progress; no thread has to call.
Fairness == \A p \in Procs : WF_vars(Steps(p))

Spec == Init /\ [][Next]_vars /\ Fairness

-----------------------------------------------------------------------------

TypeOK ==
  /\ ready \in BOOLEAN
  /\ next_id \in Ids
  /\ tokens \subseteq Token
  /\ locked \subseteq Procs
  /\ sent \in BOOLEAN
  /\ receivers \subseteq Procs
  /\ pc \in [Procs -> Labels]
  /\ op \in [Procs -> Ops]
  /\ arg \in [Procs -> Ids]
  /\ held \in [Procs -> Ids]
  /\ early \subseteq Procs
  /\ marks \in Nat

\* No subscription is left, and none is ever added, once the flag is ready:
\* subscribe's recheck under the lock closes the window its first load leaves.
ReadyDrainsTokens == ready => tokens = {}

\* The tokens mutex excludes: the threads between acquiring and dropping the
\* guard are the recorded holders, and there is at most one of them.
LockExcludes ==
  /\ locked = {p \in Procs : pc[p] = "critical"}
  /\ \A p, q \in locked : p = q

\* However many threads race with valid tokens, at most one mark_ready call
\* in the life of the flag answers Ok(true).
AtMostOneMark == marks <= 1

\* Two threads never hold the same token, also after the ids wrapped around.
UniqueTokens ==
  \A p, q \in Procs : p # q /\ held[p] = held[q] => held[p] = 0

\* The inductive strengthening of the three: a mark is what made the flag
\* ready, and until then every token handed out is still subscribed.
TokenInv ==
  /\ TypeOK
  /\ LockExcludes
  /\ ReadyDrainsTokens
  /\ UniqueTokens
  /\ marks = 0 \/ (marks = 1 /\ ready)
  /\ ~ready => \A p \in Procs : held[p] # 0 => held[p] \in tokens

\* A thread whose receiver existed before the flag flipped returns from
\* wait_ready: whoever flips the flag has still to send, and a receiver is
\* alive when it does.
EarlyWaitersReturn ==
  \A p \in Procs : (p \in early /\ ready) ~> pc[p] = "idle"

\* wait_ready's contract, "Asynchronously wait until the flag becomes ready":
\* a thread inside wait_ready returns once the flag is ready.
WaitersReturn ==
  \A p \in Procs :
    (ready /\ pc[p] \in {"rx_subscribe", "rx_borrow", "rx_changed"}) ~> pc[p] = "idle"

=============================================================================
