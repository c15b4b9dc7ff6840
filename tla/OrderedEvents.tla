--------------------------- MODULE OrderedEvents ---------------------------
(***************************************************************************)
(* OrderedSessionEvents (exec-server/src/client.rs): numbered events that  *)
(* may arrive in any order and more than once are released in the order of *)
(* their numbers.  `last` is last_published_seq, `pending` the keys of the *)
(* BTreeMap of early events.                                               *)
(***************************************************************************)
EXTENDS Integers

\* The end of the run of consecutive numbers after `last` that are pending.
RunEnd(last, pending) ==
  CHOOSE n \in pending \union {last} :
    n >= last /\ (last + 1) .. n \subseteq pending /\ n + 1 \notin pending

\* Already published numbers are dropped.
Accepts(last, seq) == seq > last

\* Mutant: whatever arrives is released at once.
ReleasesArrival(last, pending, seq) == seq

\* What publish_ordered_event makes of seq: the new last_published_seq, and
\* the events between the old one and it are released.
Releases(last, pending, seq) ==
  IF Accepts(last, seq) THEN RunEnd(last, pending \union {seq}) ELSE last

StillPending(last, pending, seq) ==
  IF Accepts(last, seq)
  THEN {n \in pending \union {seq} : n > Releases(last, pending, seq)}
  ELSE pending
=============================================================================
