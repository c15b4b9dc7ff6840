------------------------- MODULE MC_TurnLifecycle ---------------------------
(* Small instances of TurnLifecycle. *)
EXTENDS TurnLifecycle

(* Statements of comments and documentation that TLC refutes; see the README,
   "Statements TLC refutes". *)

\* Mail that a new turn drains from the mailbox is not left in a turn object
\* nobody looks at any more.
DrainedMailInGoodHands ==
    \A i \in (sent \cap (TriggerMail \cup PlainMail)) \ mailbox : InGoodHands(i)

\* inject_response_items hands the input back if there is no task to inject
\* into, so an injected item is never left behind.
InjectedItemsInGoodHands ==
    \A i \in (sent \cap (Injected \cup Approvals)) \ idle : InGoodHands(i)

\* A turn ends once: with its completion or with its abortion.
OneTerminalEvent ==
    \A k \in Tasks :
        Cardinality({n \in DOMAIN events[k] : events[k][n] # "started"}) <= 1

\* Mail that was not for the current turn stays queued for a later turn: a task
\* that has been cancelled does not take it.
CancelledTaskLeavesMail ==
    [][\A k \in cancelled : DrainMail(k) => mailbox' = mailbox]_vars
=============================================================================
