-------------------------- MODULE MC_ThreadListener --------------------------
(***************************************************************************)
(* Instances of ThreadListener for TLC.                                    *)
(***************************************************************************)
EXTENDS ThreadListener, TLC

Symmetry == Permutations(Conns)

(* Statements TLC refutes (README, "Statements TLC refutes").              *)

\* A connection whose thread/resume of an unloaded thread succeeds is subscribed.
ResumeMeansSubscribed == [][ResumeAnswer => req.conn \in subs]_vars

\* A connection is subscribed to a running thread only while it is loaded.
ResumedIsLoaded ==
    [][\A l \in Listeners :
        ResumeSubscribe(l) /\ lis'[l].pc = "replay" => conv = lis[l].conv]_vars

\* A pending approval shows in the status of the thread (waitingOnApproval).
PendingIsFlagged == \A a \in cb : ask[a].conv = conv => watch.pending > 0

\* Callbacks of a conversation do not outlive its teardown.
CallbacksEndWithTheThread == Quiet /\ conv = 0 /\ entry = 0 => cb = {}

\* While a turn of the loaded conversation waits for an approval, a task will
\* still submit a decision.
ApprovalNotLost ==
    \A k \in Convs : Runs(k) /\ core[k].ask # 0 => ~Abandoned(core[k].ask)

\* A followed thread has a listener on the loaded conversation.
FollowedHasListener == subs # {} /\ Runs(conv) /\ Quiet => HasListener
=============================================================================
