---------------------------- MODULE MCReconcile ----------------------------
(***************************************************************************)
(* A host with a tunnel egress, wg, and a direct egress, eth; a static     *)
(* policy on each, and a domain policy on eth that resolves to no, one or  *)
(* two addresses.  The marks and tables are given by each run.             *)
(***************************************************************************)
EXTENDS Reconcile, IpRuleListing, TLC

CONSTANTS wg, eth,                 \* egresses
          full, reordered, small, brief,  \* configurations
          q1, q2, q3,              \* policies
          d1, d2, d3,              \* destinations
          a1, a2,                  \* addresses of the host in two networks
          WgMark, EthMark          \* <<fwmark, number of the route table>>

(* The marks of README.md:10-11, and a pair the listing test confuses.     *)
MCTunnelMark  == <<250, 250>>
MCDirectMark  == <<100, 100>>
MCShortMark   == <<6, 10>>

MCListed == [c \in Config |->
    CASE c \in {full, brief} -> <<eth, wg>> [] c = reordered -> <<wg, eth>> [] c = small -> <<wg>>]
MCEnabled == [c \in Config |-> IF c = small THEN {wg} ELSE {eth, wg}]
MCPolicies == [c \in Config |->
    CASE c = full -> <<q1, q2, q3>> [] c = brief -> <<q1, q3>>
      [] c = reordered -> <<q3, q1>> [] c = small -> <<q1>>]
MCAutoRefresh == [c \in Config |-> c # reordered]
MCFailClosed  == [c \in Config |-> c # reordered]
MCConfigured  == [c \in Config |-> [e \in {wg, eth} |-> <<a1, a1>>]]
MCLeases      == {<<a1, a1>>, <<a2, a2>>}
MCEgressOf    == (q1 :> wg) @@ (q2 :> eth) @@ (q3 :> eth)
MCYields      == (q1 :> {<<d1>>}) @@ (q2 :> {<<>>, <<d2>>, <<d2, d3>>}) @@ (q3 :> {<<d3>>})

(* Which line of `ip rule show` passes for which egress, from the digits.  *)
MCMark  == (wg :> WgMark) @@ (eth :> EthMark)
MCShows == {<<e, f>> \in {wg, eth} \X {wg, eth} :
              LinePasses(MCMark[e][1], MCMark[e][2], MCMark[f][1], MCMark[f][2])}
=============================================================================
