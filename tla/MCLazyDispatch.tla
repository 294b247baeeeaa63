--------------------------- MODULE MCLazyDispatch ----------------------------
(***************************************************************************)
(* A user, two accounts with a counter and a filler.  Lists of zero to     *)
(* nine accounts: the benchmark's, one with user and vault the wrong way   *)
(* round, one of another vault, and one where user and vault are the same. *)
(***************************************************************************)
EXTENDS LazyDispatch, TLC

CONSTANTS u, v, w, f, none

MCAccounts == {u, v, w, f}
MCSized == {v, w}

Bases == {<<u, v>>, <<v, u>>, <<w, w>>, <<u, w>>}
Fillers == [k \in 1 .. 7 |-> f]
Lists == {SubSeq(b \o Fillers, 1, n) : b \in Bases, n \in {0, 1, 2, 3, 7, 8, 9}}

MCInstructions ==
  {[disc |-> d, accounts |-> a, signers |-> s, writable |-> r] :
     d \in Discs \cup {8, Empty}, a \in Lists, s \in {{}, {u, w}}, r \in {{u, v}, {w}}}

MCCounters == {v :> 0 @@ w :> 1}
=============================================================================
