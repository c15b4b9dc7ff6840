-------------------------- MODULE MC_MemoryJobs --------------------------
(* Instances of MemoryJobs.  Processes are alike, and so are threads; the  *)
(* symmetry is used only where no temporal property is checked.            *)
EXTENDS MemoryJobs, TLC

Symmetry == Permutations(Procs) \union Permutations(Threads)

\* Refuted (see the README): the baseline a run compares with holds no memory
\* that an agent has not worked into the notes, so that `no changes' is never
\* taken for `consolidated'.  Ownership is confirmed before the baseline is reset,
\* not while (still_owns_lock), and a memory/reset stops no agent.
BaselineIsConsolidated == \A b \in ws.base : b.notes = Notes(b.inputs)
=============================================================================
