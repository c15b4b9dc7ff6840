------------------------ MODULE MC_SessionRegistry --------------------------
(* Small instances of SessionRegistry. *)
EXTENDS SessionRegistry

(* A statement of the documentation that TLC refutes with two connections and
   one session; see the README, "Statements TLC refutes". *)

\* A live process belongs to a registered session or to one whose shutdown is
\* under way: "If the websocket connection closes, the server terminates any
\* remaining managed processes for that client connection" (README.md).
ProcessesHaveAnOwner ==
  running \subseteq sessions \union stopping
                    \union {session[c] : c \in {d \in Conns : pc[d] = "expired"}}
=============================================================================
