----------------------------- MODULE DnsService -----------------------------
(***************************************************************************)
(* What the DNS proxy promises its clients.  Each datagram it has received *)
(* is answered at most once, with an answer to the question it asks, and   *)
(* the domains of policies are answered only as their settings allow; a    *)
(* datagram may be lost.                                                   *)
(***************************************************************************)
EXTENDS Naturals, Sequences

CONSTANTS
    Query,      \* [name, kind]: what a datagram asks
    PolicyName  \* names of enabled domain policies

VARIABLES
    settings,   \* [deny, denyAaaa, cache]: the settings of dns_interception
    arrived,    \* arrived[n]: the question of the n-th datagram
    pending,    \* datagrams received and not yet answered
    given       \* the answers: [id, resp]

Parsable(q) == q.kind \notin {"short", "unparsable"}
IsPolicyDomain(q) == Parsable(q) /\ q.name \in PolicyName

(* The answer of an upstream that a client may see.                        *)
MayPass(q, r) ==
    /\ r.query = q
    /\ Parsable(q)
    /\ IsPolicyDomain(q) =>
          /\ ~(q.kind = "AAAA" /\ settings.denyAaaa)
          /\ q.kind = "A" => r.parses /\ (settings.deny => r.ips # {})

Permitted(q, r) ==
    \/ r.what = "echo" /\ q.kind = "short"
    \/ r.what = "servfail" /\ q.kind # "short"
    \/ r.what = "refused" /\ IsPolicyDomain(q)
    \/ r.what = "reply" /\ MayPass(q, r)

Init == arrived = <<>> /\ pending = {} /\ given = {}

Ask ==
    /\ \E q \in Query : arrived' = Append(arrived, q)
    /\ pending' \in {pending, pending \cup {Len(arrived) + 1}}
    /\ UNCHANGED given

(* The difference of given' and given is one answer to a pending datagram. *)
Answer ==
    /\ \E n \in pending :
          /\ pending' = pending \ {n}
          /\ \A g \in given : g.id # n
          /\ \E g \in given' :
                /\ g.id = n /\ Permitted(arrived[n], g.resp)
                /\ given' = given \cup {g}
    /\ UNCHANGED arrived

Lose ==
    /\ pending' \subseteq pending
    /\ UNCHANGED <<arrived, given>>

Next == (Ask \/ Answer \/ Lose) /\ UNCHANGED settings

Spec == Init /\ [][Next]_<<settings, arrived, pending, given>>
=============================================================================
