-------------------------- MODULE MCDomainRouting --------------------------
(***************************************************************************)
(* Two domains; lookups answer with two addresses other than the one that  *)
(* the file from before has for the first domain, so that the addresses of *)
(* different answers, mixed, are those of none.                            *)
(***************************************************************************)
EXTENDS DomainRouting

CONSTANTS first, second, old, new, other

MCReplies == {{}, {new, other}}
MCEntry   == [ips |-> {old}, at |-> 0, expires |-> Ttl, error |-> FALSE]
MCOld     == {[d \in Domain |-> IF d = first THEN MCEntry ELSE NoEntry]}
=============================================================================
