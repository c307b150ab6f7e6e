------------------------------- MODULE Picking -------------------------------
(***************************************************************************)
(* The loops that read a list from its beginning and keep some of it, or   *)
(* join the lists they read, as the server and the scripts have many.      *)
(***************************************************************************)
EXTENDS Naturals, Sequences

\* The members of text at the places K, in their order.
Picked(text, K) ==
  LET to[n \in 0 .. Len(text)] ==
        IF n = 0 THEN <<>>
        ELSE IF n \in K THEN Append(to[n - 1], text[n]) ELSE to[n - 1]
  IN  to[Len(text)]

\* The lists of a list, one after the other.
Concat(lists) ==
  LET to[n \in 0 .. Len(lists)] == IF n = 0 THEN <<>> ELSE to[n - 1] \o lists[n]
  IN  to[Len(lists)]
=============================================================================
