------------------------------ MODULE MCDaemon ------------------------------
(***************************************************************************)
(* Instances of the daemon's parts: three processes, three tasks on two    *)
(* throttled domains, and a site of seven urls that link to each other.    *)
(***************************************************************************)
EXTENDS Daemon, TLC

CONSTANTS p1, p2, p3,               \* a holder, a starter, one to be recycled
          t1, t2, t3, d1, d2,       \* a released permit finds two waiters
          home, a, b, c, p, q, notice

MCPids    == {p1, p2, p3}
MCTasks   == {t1, t2, t3}
MCDomains == {d1, d2}

\* Two entry links lead to p, the short way over a plain page and a longer one
\* over pages that score higher; p leads to q and back home, home links a
\* notice, and pages link to themselves or home as menus do.
MCUrls  == {home, a, b, c, p, q, notice}
MCEntry == {home}
MCLinks == home :> {home, a, b, notice} @@ a :> {p} @@ b :> {c} @@ c :> {p}
           @@ p :> {q, home, notice} @@ q :> {home, a} @@ notice :> {}
MCBoost == home :> 0 @@ a :> (-5) @@ b :> 20 @@ c :> 20 @@ p :> 20 @@ q :> 30
           @@ notice :> 0
MCDocuments == {q, notice}
=============================================================================
