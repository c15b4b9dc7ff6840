--------------------------- MODULE MC_Readiness -----------------------------
(* Readiness on a small set of threads, with token ids that wrap early. *)
EXTENDS Readiness
=============================================================================
