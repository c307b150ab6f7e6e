--------------------------- MODULE VersionHistory ---------------------------
(***************************************************************************)
(* What the `documents` table promises to its readers, free of rows, keys  *)
(* and transactions: every (source, url) has a history of distinct         *)
(* contents it has shown, and exactly one of them is current.  A version   *)
(* enters the history once, becomes current when it does, and never        *)
(* leaves.  This is the header contract of store.rs (invariants 3 and 5).  *)
(***************************************************************************)
CONSTANTS Urls,     \* the (source_id, url) pairs
          Hashes,   \* the contents a url can show
          NoHash    \* "no current version"

VARIABLES history,  \* history[u]: the contents recorded for u
          current   \* current[u]: the live content, or NoHash

vhVars == <<history, current>>

Init == /\ history = [u \in Urls |-> {}]
        /\ current = [u \in Urls |-> NoHash]

\* A content never seen at u before is recorded and becomes the live one.
Publish(u, h) == /\ h \notin history[u]
                 /\ history' = [history EXCEPT ![u] = @ \cup {h}]
                 /\ current' = [current EXCEPT ![u] = h]

Next == \E u \in Urls, h \in Hashes : Publish(u, h)

Spec == Init /\ [][Next]_vhVars
=============================================================================
