---------------------------- MODULE MCDnsCache ----------------------------
(***************************************************************************)
(* Domains of enabled policies, one of a disabled policy and one that the  *)
(* configuration no longer names; a file from before may hold all of them  *)
(* with an old address.  Lookups answer with the old or a new one, or fail.*)
(***************************************************************************)
EXTENDS SharedCache

CONSTANTS live, second, disabled, gone, old, new

MCReplies == {{}, {old}, {new}}
MCEntry   == [ips |-> {old}, at |-> 0, expires |-> Ttl, error |-> FALSE]
MCOld     == {[d \in Domain |-> MCEntry]}
===========================================================================
