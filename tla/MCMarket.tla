------------------------------- MODULE MCMarket -------------------------------
(***************************************************************************)
(* The market of router_market: the routes and balances of RouteInstances  *)
(* next to the edge, and between them swaps over the user, a pool and a    *)
(* foreign account with sound and unsound data.                            *)
(***************************************************************************)
EXTENDS Market, RouteInstances

CONSTANT none

MCSwaps ==
  {[data |-> [len |-> 17, disc |-> 0, rate |-> r, amount |-> n], accounts |-> a, writable |-> w] :
     r \in {Rate(3, 2), Rate(2, 3), Rate(0, 1), Rate(4, 0)}, n \in {0, 3, 7},
     a \in {<<>>, <<p>>, <<p, u>>, <<u, p>>, <<u, u>>, <<p, x>>, <<x, u>>, <<p, u, x>>},
     w \in {{u, p, x}, {u, x}}}
  \cup {[data |-> [len |-> h[1], disc |-> h[2], rate |-> Rate(1, 1), amount |-> 1],
         accounts |-> <<p, u>>, writable |-> {u, p}] : h \in {<<16, 0>>, <<17, 1>>, <<18, 0>>}}
=============================================================================
