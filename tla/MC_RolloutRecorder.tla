------------------------- MODULE MC_RolloutRecorder -------------------------
(***************************************************************************)
(* RolloutRecorder on a small instance, and statements about it that TLC   *)
(* refutes (see the README).                                               *)
(***************************************************************************)
EXTENDS RolloutRecorder

\* Refuted: the reader finds everything a barrier answered Ok for.  The line
\* written after a tear runs into it, and the retry of the very line that
\* tore is the first to be lost (open_log_file appends).
PromisedIsLoaded == promised \subseteq Loaded(file)

\* Refuted: what is lost is at most one line for each tear.  A tear that cuts
\* a character in two makes read_to_string refuse the file.
LossIsBounded == Cardinality(promised \ Loaded(file)) <= tears

\* Refuted: the file begins with its metadata (read_session_meta_line).  A
\* name is appended to a file that was created but has no metadata yet.
StartsWithMeta == file # <<>> => file[1] = MetaLine

\* Refuted: one session at a time writes the file.  The table of live
\* recorders that is to refuse a second one is that of another store.
OneWriter == \A r, s \in Recorders : session[r] = "open" /\ session[s] = "open" => r = s

\* Refuted: an item accepted for a file that exists gets there.  After two
\* failed writes it waits for the next command, which may never come; one
\* queued behind a shutdown is dropped.
AcceptedIsWritten ==
  \A i \in 1..MaxCalls :
    (\E r \in Recorders : /\ session[r] = "open" /\ ~is_deferred(rec[r])
                           /\ \E k \in DOMAIN rec[r].queued : rec[r].queued[k] = i)
      ~> (ItemLine(i) \in {file[k] : k \in DOMAIN file} \/ count.troubles > 0)
=============================================================================
