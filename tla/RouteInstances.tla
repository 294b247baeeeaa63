--------------------------- MODULE RouteInstances ----------------------------
(***************************************************************************)
(* The instructions and balances the router runs are given.  A user "u"    *)
(* and two pools "p" and "q" are mock-amm's, "x" is somebody else's        *)
(* account and "amm" is the venue itself.                                  *)
(***************************************************************************)
EXTENDS Integers, SequencesExt, TLC

CONSTANTS u, p, q, x, amm

MCAccounts == {u, p, q, x, amm}
MCAmmOwned == {u, p, q}

Balances(bu, bp, bq, bx) == u :> bu @@ p :> bp @@ q :> bq @@ x :> bx @@ amm :> 0

Rate(n, d) == [num |-> n, den |-> d]

Data(min_out, initial_amount, rates) ==
  [disc |-> 1, header |-> TRUE, min_out |-> min_out, hop_count |-> Len(rates),
   initial_amount |-> initial_amount, rates |-> rates, ragged |-> FALSE]

\* The accounts of a route: its user, then the venue and a pool for each hop.
Route(usr, pools) == <<usr>> \o FlattenSeq([k \in DOMAIN pools |-> <<amm, pools[k]>>])

Tuples(S, lo, hi) == UNION {[1 .. n -> S] : n \in lo .. hi}

Ix(data, accounts, writable) == [data |-> data, accounts |-> accounts, writable |-> writable]

(***************************************************************************)
(* Routes over every choice of pools (the user's own account and the       *)
(* foreign one among them), for the user and for the foreign account.      *)
(***************************************************************************)
RoutesOver(usrs, pools, rates, hops, initials, mins) ==
  {Ix(Data(m, n, <<>> \o [k \in DOMAIN leg |-> leg[k][2]]),
      Route(usr, [k \in DOMAIN leg |-> leg[k][1]]), {u, p, q, x}) :
     usr \in usrs, leg \in Tuples(pools \X rates, hops[1], hops[2]), n \in initials, m \in mins}

\* Data and accounts that some check turns down, one defect or two at a time.
Defective ==
  LET good == Data(1, 2, <<Rate(3, 2), Rate(1, 2)>>)
      datas == {good,
                [good EXCEPT !.disc = 0], [good EXCEPT !.header = FALSE],
                [good EXCEPT !.hop_count = 0], [good EXCEPT !.hop_count = 1],
                [good EXCEPT !.hop_count = 3], [good EXCEPT !.ragged = TRUE],
                [good EXCEPT !.rates = <<Rate(3, 2), Rate(1, 0)>>],
                Data(1, 2, <<Rate(1, 1), Rate(1, 1), Rate(1, 1), Rate(1, 1)>>)}
      lists == {<<>>, <<u>>, <<u, amm>>, <<u, amm, p>>, <<u, x, p>>, <<u, amm, p, amm>>,
                <<u, amm, p, x, q>>, <<u, amm, p, amm, q>>, <<u, amm, p, amm, q, x>>}
  IN {Ix(d, a, w) : d \in datas, a \in lists, w \in {{u, p, q}, {p, q}, {u, q}, {u, p}}}

\* router_routes: two hops, all pools, rates that gain, lose and round; supply 9.
RoutesLedgers == {Balances(4, 3, 2, 0), Balances(2, 3, 2, 2)}
RoutesInstructions ==
  RoutesOver({u, x}, {p, q, u, x}, {Rate(3, 2), Rate(1, 2), Rate(1, 1)}, <<1, 2>>, {1, 3}, {0, 3})
    \cup Defective

\* router_market: the benchmark's own rates up to the maximum of hops, and balances
\* and amounts up against the largest u64.
EdgeLedgers == {Balances(4, 4, 1, 0), Balances(7, 7, 6, 0), Balances(4, 2, 7, 7)}
EdgeInstructions ==
  RoutesOver({u}, {p, q}, {Rate(3, 2), Rate(2, 3), Rate(2, 1)}, <<3, 3>>, {2}, {2}) \cup
  RoutesOver({u, x}, {p, q, u}, {Rate(2, 1), Rate(1, 2), Rate(5, 4)}, <<1, 2>>, {0, 4, 7}, {0, 7})

\* router_any_venue: few routes, every move the runtime lets a venue make.
VenueLedgers == {Balances(2, 2, 0, 1)}
VenueInstructions ==
  RoutesOver({u, x}, {p, q, u, x}, {Rate(1, 1)}, <<1, 2>>, {2}, {0, 3}) \cup
  RoutesOver({u}, {p, q}, {Rate(1, 1)}, <<3, 3>>, {0}, {2})

\* router_parity: routes of one and two hops, and every defect.
ParityInstructions ==
  RoutesOver({u, x}, {p, u, x}, {Rate(3, 2), Rate(1, 2)}, <<1, 2>>, {2}, {0, 3}) \cup Defective
\* router_parity_errors: the defects, except the empty account list, whose
\* different answer quasar-router/src/lib.rs documents.
DeclaredUserInstructions == {i \in Defective : i.accounts # <<>>}
=============================================================================
