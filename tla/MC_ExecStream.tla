-------------------------- MODULE MC_ExecStream -----------------------------
(* Small instances of ExecStream: one process, a two-event log. *)
EXTENDS ExecStream

(* A statement of a comment that TLC refutes; see the README, "Statements TLC
   refutes". *)

\* Nothing is published after the terminal Failed event: "Session draining
\* stays with the reader task so it can preserve notification ordering before
\* publishing the terminal failure." (client.rs)
FailedIsTerminal == [][failure => UNCHANGED published]_svars
=============================================================================
