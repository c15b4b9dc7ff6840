----------------------------- MODULE EventFeed -----------------------------
(***************************************************************************)
(* What the event stream of one process promises its consumers             *)
(* (ExecProcessEvent, exec-server/src/process.rs): output events in any    *)
(* number, one Exited, and one Closed after which nothing arrives.  Exited *)
(* may precede output that was still in the pipes; Closed follows Exited.  *)
(***************************************************************************)
EXTENDS Sequences

VARIABLE feed     \* the kinds of the events published so far

Has(kind) == \E i \in DOMAIN feed : feed[i] = kind

Emit(kind) == feed' = Append(feed, kind)

Output == ~Has("closed") /\ Emit("output")

Exited == ~Has("closed") /\ ~Has("exited") /\ Emit("exited")

Closed == Has("exited") /\ ~Has("closed") /\ Emit("closed")

Init == feed = <<>>

Next == Output \/ Exited \/ Closed

Spec == Init /\ [][Next]_feed
=============================================================================
