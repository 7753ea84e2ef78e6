---------------------------- MODULE PolicyChain ----------------------------
(***************************************************************************)
(* What eve-net promises of its nftables output chain.  `meta mark set` is *)
(* not terminal: of the rules a packet matches, the last one gives it its  *)
(* mark, so the order of the rules is the meaning of the chain.            *)
(*                                                                         *)
(* The chain is emptied at once and filled by one builder, which works     *)
(* from one configuration: rules are only ever added behind rules of the   *)
(* same or an earlier policy of that configuration, and nothing is added   *)
(* once the builder has let go of the chain, be it finished or failed,     *)
(* until the chain is emptied again.                                       *)
(***************************************************************************)
EXTENDS Naturals, Sequences

CONSTANTS Config, Policies, EgressOf, NoConfig

VARIABLES
    chain,    \* the rules of the chain
    builder   \* the configuration being applied, or NoConfig

(* Policy a is policy b or stands before it in configuration c.            *)
InOrder(c, a, b) ==
    \E i, j \in DOMAIN Policies[c] :
        i <= j /\ Policies[c][i] = a /\ Policies[c][j] = b

Init == chain = <<>> /\ builder = NoConfig

Clear(c) ==
    /\ chain' = <<>>
    /\ builder' = c

AddInOrder(r) ==
    /\ builder # NoConfig
    /\ r.mark = EgressOf[r.policy]
    /\ InOrder(builder, r.policy, r.policy)
    /\ \A i \in DOMAIN chain : InOrder(builder, chain[i].policy, r.policy)
    /\ chain' = Append(chain, r)
    /\ UNCHANGED builder

LetGo ==
    /\ builder' = NoConfig
    /\ UNCHANGED chain

Next ==
    \/ \E c \in Config \cup {NoConfig} : Clear(c)
    \/ Len(chain') > 0 /\ AddInOrder(chain'[Len(chain')])
    \/ LetGo

Spec == Init /\ [][Next]_<<chain, builder>>
=============================================================================
