----------------------------- MODULE MCDocStore -----------------------------
(* DocStore on two connections; three contents make the flip A, B, A and   *)
(* a chain of three rows reachable.                                        *)
EXTENDS DocStore, TLC

CONSTANTS u1, u2, a, b, c, w1, w2

MCUrls    == {u1, u2}
MCOneUrl  == {u1}
MCHashes  == {a, b, c}
MCWorkers == {w1, w2}
MCOneTime == {1}

(* Contents and connections are interchangeable; every checked formula is  *)
(* symmetric in them.                                                      *)
Symmetry == Permutations(MCHashes) \cup Permutations(MCWorkers)
=============================================================================
