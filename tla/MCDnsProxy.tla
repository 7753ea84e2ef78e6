---------------------------- MODULE MCDnsProxy ----------------------------
(***************************************************************************)
(* Two upstreams; a name with a policy, asked for each kind of record, and *)
(* one without; datagrams that do not parse.  Settings as shipped, and     *)
(* with everything off.                                                    *)
(***************************************************************************)
EXTENDS DnsProxy

CONSTANTS policy, other, primary, fallback

MCUpstreams == <<primary, fallback>>
MCQuery == [name : {policy}, kind : {"A", "AAAA", "other"}]
           \cup [name : {other}, kind : {"A", "unparsable", "short"}]
MCSetting == {[deny |-> d, denyAaaa |-> d, cache |-> c] : d, c \in BOOLEAN}
===========================================================================
