--------------------------- MODULE DomainRouting ---------------------------
(***************************************************************************)
(* From a DNS answer to the rule that marks the packets sent to it: the    *)
(* programs of DnsCache, with the service as one of them.  The proxy saves *)
(* the addresses of a policy's domain and gives them to its client         *)
(* (src/dns_proxy.rs:164-173); the service empties the output chain and    *)
(* fills it, policy after policy, with the addresses it resolves through   *)
(* the same file (src/runtime.rs:73-104).  All the while dns-refresh and   *)
(* the proxy write it.                                                     *)
(*                                                                         *)
(* The egresses of the policies are healthy and installed, which is the    *)
(* subject of Reconcile.                                                   *)
(***************************************************************************)
EXTENDS DnsCache

CONSTANT Service    \* the reconcile of the service, of the Runtimes

ASSUME RoutingAssumption == Service \in Runtimes

VARIABLES
    chain,   \* chain[d]: the addresses marked for the policy of domain d
    pass,    \* the service: "none", "policies" (it applies them) or "done"
    todo,    \* the domains whose policies it has still to apply
    since,   \* when it emptied the chain
    given    \* (history) given[d]: see Save

loop        == <<pass, todo, since>>
routingVars == <<vars, chain, loop, given>>

Busy == pc[Service] # "idle"
Dom  == task[Service].dom
Ips  == task[Service].ips

-----------------------------------------------------------------------------
(* The service.                                                            *)

(* Variant: the chain is not emptied.                                      *)
BeginPassKeeping ==
    /\ pass # "policies"
    /\ pass' = "policies" /\ todo' = Enabled /\ since' = now
    /\ UNCHANGED <<vars, chain, given>>

(* The first pass of a service, or the next one after interval_sec.        *)
BeginPass ==
    /\ pass # "policies"
    /\ pass' = "policies" /\ todo' = Enabled /\ since' = now
    /\ chain' = [d \in Enabled |-> {}]
    /\ UNCHANGED <<vars, given>>

(* resolve_for_runtime begins.                                             *)
ResolvePolicy ==
    /\ pass = "policies" /\ ~Busy
    /\ \E d \in todo :
          /\ todo' = todo \ {d}
          /\ task' = [task EXCEPT ![Service].todo = {d}]
    /\ Goto(Service, "load")
    /\ UNCHANGED <<file, now, events, history, chain, pass, since, given>>

(* It has ended; a rule for each address.                                  *)
AddRule ==
    /\ pc[Service] = "done"
    /\ \E ip \in Ips :
          /\ ip \notin chain[Dom]
          /\ chain' = [chain EXCEPT ![Dom] = @ \cup {ip}]
    /\ UNCHANGED <<vars, loop, given>>

(* Variant: the policy is done with its first address.                     *)
EndPolicyAfterOne ==
    /\ Ips # {} => Ips \cap chain[Dom] # {}
    /\ End(Service)
    /\ UNCHANGED <<chain, loop, given>>

(* Without addresses, or where the cache could not be read or written, the *)
(* policy is skipped.                                                      *)
EndPolicy ==
    /\ Ips # {} => Ips \subseteq chain[Dom]
    /\ End(Service)
    /\ UNCHANGED <<chain, loop, given>>

(* Variant: the loop ends with the first policy.                           *)
EndPassEarly ==
    /\ pass = "policies" /\ ~Busy /\ todo # Enabled
    /\ pass' = "done"
    /\ UNCHANGED <<vars, chain, todo, since, given>>

EndPass ==
    /\ pass = "policies" /\ ~Busy /\ todo = {}
    /\ pass' = "done"
    /\ UNCHANGED <<vars, chain, todo, since, given>>

(* nft refuses a rule, or the service is killed: the chain stays as far as *)
(* it is filled, until the next pass.                                      *)
AbortPass ==
    /\ pass = "policies"
    /\ \/ Crash(Service)
       \/ /\ Faults /\ Event /\ ~Busy
          /\ UNCHANGED <<file, now, pc, task, history>>
    /\ pass' = "none" /\ todo' = {}
    /\ UNCHANGED <<chain, since, given>>

-----------------------------------------------------------------------------
(* The steps of all programs at the cache.                                 *)

Quiet(p) ==
    /\ \/ LoadFails(p) \/ LoadToResolve(p) \/ LoadToPrune(p)
       \/ LookupFails(p) \/ Truncate(p) \/ SaveFails(p)
    /\ UNCHANGED <<chain, loop, given>>

(* A new answer for the domain: the one given before is no longer the last.*)
Answer(p) ==
    /\ LookupAnswers(p) \/ LoadToStore(p)
    /\ given' = [given EXCEPT ![task'[p].dom] = NoEntry]
    /\ UNCHANGED <<chain, loop>>

(* A program between reading the file and writing it back.                 *)
HoldsCopy(p) == pc[p] \in {"lookup", "truncate", "write"}

(* given[d] is the entry of the addresses the proxy gives a client next,   *)
(* if no other program held a copy of the file when the proxy saved them   *)
(* (one that did writes it back without them, see UpdatesKept) and nobody  *)
(* has got an answer for d since.                                          *)
Save(p) ==
    /\ Write(p)
    /\ given' = IF /\ p \in Proxies /\ disk' = "readable"
                   /\ \A q \in Process \ {p} : ~HoldsCopy(q)
                THEN [given EXCEPT ![task[p].dom] = entries'[task[p].dom]]
                ELSE given
    /\ UNCHANGED <<chain, loop>>

CacheStep(p) == Quiet(p) \/ Answer(p) \/ Save(p)

(* A program other than the service comes and goes.                        *)
Others(p) ==
    /\ p # Service
    /\ Start(p) \/ End(p) \/ Crash(p)
    /\ UNCHANGED <<chain, loop, given>>

RoutingInit ==
    /\ Init
    /\ chain = [d \in Enabled |-> {}]
    /\ pass = "none" /\ todo = {} /\ since = Begin
    /\ given = [d \in Enabled |-> NoEntry]

ServiceStep == BeginPass \/ ResolvePolicy \/ AddRule \/ EndPolicy \/ EndPass

RoutingNext ==
    \/ ServiceStep \/ AbortPass
    \/ \E p \in Process : CacheStep(p) \/ Others(p)
    \/ Tick /\ UNCHANGED <<chain, loop, given>>

(* The service's loop and its restart, and the steps of an operation that  *)
(* has begun; nobody has to start one.                                     *)
RoutingFairness ==
    /\ WF_routingVars(ServiceStep)
    /\ \A p \in Process : WF_routingVars(CacheStep(p))

RoutingSpec == RoutingInit /\ [][RoutingNext]_routingVars /\ RoutingFairness

-----------------------------------------------------------------------------
(* Properties.                                                             *)

(* The type invariant: rules are for enabled policies, and a pass that has *)
(* ended has left none of them out (runtime.rs:75-121).                    *)
RoutingTypeOK ==
    /\ chain \in [Enabled -> SUBSET Ip]
    /\ pass \in {"none", "policies", "done"}
    /\ todo \in SUBSET Enabled /\ since \in Time
    /\ given \in [Enabled -> Entry \cup {NoEntry}]
    /\ pass # "policies" => todo = {} /\ ~Busy

(* The addresses that are marked for a domain are of one answer for it,    *)
(* all of that answer's once the pass has ended, and that answer was       *)
(* usable when the pass began, whatever the programs did to the file       *)
(* meanwhile (runtime.rs:73-104 with dns_cache.rs:74-86, 141-160).         *)
MarkedAreRecent ==
    \A d \in Enabled : chain[d] # {} =>
        \E a \in answers :
            /\ a.dom = d /\ chain[d] \subseteq a.ips
            /\ pass = "done" => chain[d] = a.ips
            /\ a.time + Ttl + (IF StaleAllowed THEN Grace ELSE 0) >= since

(* d's client uses addresses that are not marked.                          *)
Unmarked(d) ==
    given[d] # NoEntry /\ given[d].expires > now /\ ~(given[d].ips \subseteq chain[d])

(* What the proxy gave to a client for a domain, saved as given says, is   *)
(* in the file for as long as that can be read: whatever the programs that *)
(* have read the file since write back, and whichever of them fail or are  *)
(* killed while they do (dns_cache.rs:46-171).                             *)
GivenStays ==
    disk = "readable" =>
        \A d \in Enabled : given[d] # NoEntry =>
            /\ entries[d] # NoEntry
            /\ entries[d].ips = given[d].ips /\ entries[d].expires = given[d].expires

(* A reconcile that resolves the policy of d by the file.                  *)
Resolves(d) ==
    pc[Service] = "load" /\ task[Service].todo = {d} /\ pc'[Service] \in {"lookup", "done"} /\ Readable

(* A policy that is resolved while such a reply has not expired gets the   *)
(* addresses of the reply, without a lookup of its own that could answer   *)
(* with others (dns_cache.rs:61-72 with dns_proxy.rs:164-173).             *)
ReconcileUsesGiven ==
    [][\A d \in Enabled : Resolves(d) /\ given[d] # NoEntry /\ given[d].expires > now =>
            pc'[Service] = "done" /\ Dom' = d /\ Ips' = given[d].ips]_routingVars

(* Again and again the service has completed a pass after which what the   *)
(* proxy gave to clients is marked, until it expires or is superseded      *)
(* (dns_proxy.rs:171 with runtime.rs:75-104): failing passes, kills,       *)
(* lookups that fail and refreshes only delay that, unless the file stays  *)
(* unreadable.                                                             *)
RepliesGetMarked ==
    \/ <>[](~Readable)
    \/ []<>(pass = "done" /\ \A d \in Enabled : ~Unmarked(d))
=============================================================================
