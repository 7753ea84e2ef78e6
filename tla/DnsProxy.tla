------------------------------ MODULE DnsProxy ------------------------------
(***************************************************************************)
(* The DNS proxy of eve-net, src/dns_proxy.rs.  It serves one datagram at  *)
(* a time: it forwards the question to its upstreams in turn, each with a  *)
(* socket of its own and a timeout, stores the addresses of a policy's     *)
(* domain in the DNS cache, and answers.  Meanwhile datagrams queue in the *)
(* buffer of its socket.  Datagrams get lost, answers come late or never,  *)
(* the cache cannot be written, the process is killed and restarted.       *)
(*                                                                         *)
(* No port is bound again while an answer to its previous socket is on the *)
(* way.  The proxy runs with --apply and with dns_cache.enabled.           *)
(***************************************************************************)
EXTENDS Naturals, Sequences

CONSTANTS
    Name,       \* domain names
    PolicyName, \* names of the enabled domain policies
    Query,      \* questions clients ask: [name, kind]
    Ip,         \* addresses
    Upstreams,  \* dns_interception.effective_upstreams(), in order
    Setting,    \* settings of dns_interception the proxy may be started with
    MaxQueries, \* bound on datagrams from clients
    MaxQueue,   \* size of the socket's buffer
    MaxCrashes  \* bound on kills

Upstream == {Upstreams[i] : i \in DOMAIN Upstreams}
Kind     == {"A", "AAAA", "other", "unparsable", "short"}
Id       == 1..MaxQueries
Port     == 1..(MaxQueries * Len(Upstreams))

ASSUME ProxyAssumption ==
    /\ Query \subseteq [name : Name, kind : Kind]
    /\ PolicyName \subseteq Name
    /\ Len(Upstreams) > 0
    /\ Setting \subseteq [deny : BOOLEAN, denyAaaa : BOOLEAN, cache : BOOLEAN]
    /\ MaxQueries \in Nat /\ MaxQueue \in Nat /\ MaxCrashes \in Nat

VARIABLES
    settings,   \* the settings: deny (deny_unresolved_policy_domains and
                \* fail_closed_unresolved), denyAaaa, cache (cache_answers)
    arrived,    \* arrived[n]: the question of the n-th datagram from a client
    inbox,      \* datagrams in the buffer of the listening socket
    requests,   \* requests to upstreams so far; an answer to any may arrive
    bound,      \* sockets bound for requests so far; the last is the one in use
    pc,         \* what the proxy does next
    cur,        \* the datagram in hand, 0 for none
    idx,        \* index of the upstream in hand
    failures,   \* upstreams that failed for the datagram in hand
    resp,       \* the answer to be sent
    saved,      \* (history) addresses saved in the cache: [name, ips]
    given,      \* (history) answers sent: [id, resp, failures]
    crashes     \* kills so far

clients == <<settings, arrived>>
locals  == <<cur, idx, failures, resp>>
vars    == <<clients, inbox, requests, bound, pc, locals, saved, given, crashes>>

None     == [what |-> "none"]
Echo     == [what |-> "echo"]
Servfail == [what |-> "servfail"]
Refused  == [what |-> "refused"]
Reply    == [what : {"reply"}, from : Upstream, query : Query,
             ips : SUBSET Ip, parses : BOOLEAN]
Response == Reply \cup {None, Echo, Servfail, Refused}

-----------------------------------------------------------------------------
Question == arrived[cur]
Parsable(q) == q.kind \notin {"unparsable", "short"}

(* find_enabled_domain_policy                                              *)
IsPolicyDomain == Parsable(Question) /\ Question.name \in PolicyName

Respond(r) == resp' = r /\ pc' = "respond"

(* A datagram of a client; the kernel drops it where nobody listens or the *)
(* buffer is full.                                                         *)
Arrive ==
    /\ Len(arrived) < MaxQueries
    /\ \E q \in Query : arrived' = Append(arrived, q)
    /\ inbox' = IF pc # "off" /\ Len(inbox) < MaxQueue
                THEN Append(inbox, Len(arrived) + 1) ELSE inbox
    /\ UNCHANGED <<settings, requests, bound, pc, locals, saved, given, crashes>>

(* What a question calls for, before any upstream is asked.  A datagram    *)
(* too short even for an error response is sent back as it came.           *)
Classify(q) ==
    CASE q.kind = "short"      -> Echo
      [] q.kind = "unparsable" -> Servfail
      [] q.kind = "AAAA" /\ q.name \in PolicyName /\ settings.denyAaaa -> Refused
      [] OTHER -> None

Receive ==
    /\ pc = "idle" /\ inbox # <<>>
    /\ cur' = Head(inbox) /\ inbox' = Tail(inbox)
    /\ resp' = Classify(arrived[Head(inbox)])
    /\ pc' = IF resp' = None THEN "ask" ELSE "respond"
    /\ UNCHANGED <<clients, requests, bound, idx, failures, saved, given, crashes>>

-----------------------------------------------------------------------------
(* forward_query_with_failover and forward_query.                          *)

(* Variant: one socket for all requests.                                   *)
AskSharedSocket ==
    /\ pc = "ask"
    /\ bound' = 1
    /\ requests' = requests \cup {[to |-> Upstreams[idx], port |-> bound', query |-> Question]}
    /\ pc' = "wait"
    /\ UNCHANGED <<clients, inbox, locals, saved, given, crashes>>

Ask ==
    /\ pc = "ask"
    /\ bound' = bound + 1
    /\ requests' = requests \cup {[to |-> Upstreams[idx], port |-> bound', query |-> Question]}
    /\ pc' = "wait"
    /\ UNCHANGED <<clients, inbox, locals, saved, given, crashes>>

(* Variant: the second upstream is not tried when the first one fails.     *)
UpstreamFailsForGood ==
    /\ failures' = Append(failures, Upstreams[idx])
    /\ Respond(IF IsPolicyDomain /\ settings.deny THEN Refused ELSE Servfail)
    /\ UNCHANGED idx

(* On to the next upstream; when all have failed, to the error response.   *)
UpstreamFails ==
    /\ failures' = Append(failures, Upstreams[idx])
    /\ \/ /\ idx < Len(Upstreams)
          /\ idx' = idx + 1
          /\ pc' = "ask"
          /\ UNCHANGED resp
       \/ /\ idx = Len(Upstreams)
          /\ Respond(IF IsPolicyDomain /\ settings.deny THEN Refused ELSE Servfail)
          /\ UNCHANGED idx

(* The socket cannot be bound, or sending is refused (a firewall).         *)
AskFails ==
    /\ pc = "ask"
    /\ UpstreamFails
    /\ UNCHANGED <<clients, inbox, requests, bound, cur, saved, given, crashes>>

(* Variant: an upstream that is late is asked again.                       *)
TimeoutRetries ==
    /\ pc = "wait"
    /\ pc' = "ask"
    /\ bound' = bound - 1
    /\ UNCHANGED <<clients, inbox, requests, locals, saved, given, crashes>>

(* timeout_ms is over, or receiving failed; the socket is closed.          *)
Timeout ==
    /\ pc = "wait"
    /\ UpstreamFails
    /\ UNCHANGED <<clients, inbox, requests, bound, cur, saved, given, crashes>>

(* An answer arrives at the socket in use: the first one is taken, whoever *)
(* sent it and whatever its response code.  The records are looked at only *)
(* for the address of a policy's domain.                                   *)
TakeReply ==
    /\ pc = "wait"
    /\ \E q \in {x \in requests : x.port = bound}, ips \in SUBSET Ip, parses \in BOOLEAN :
          LET r == [what |-> "reply", from |-> q.to, query |-> q.query,
                    ips |-> ips, parses |-> parses]
          IN IF IsPolicyDomain /\ Question.kind = "A"
             THEN CASE ~parses  -> Respond(Servfail)
                    [] parses /\ ips = {} -> Respond(IF settings.deny THEN Refused ELSE r)
                    [] parses /\ ips # {} ->
                          /\ resp' = r
                          /\ pc' = IF settings.cache THEN "store" ELSE "respond"
             ELSE Respond(r)
    /\ UNCHANGED <<clients, inbox, requests, bound, cur, idx, failures, saved, given, crashes>>

-----------------------------------------------------------------------------
(* upsert_live_ips_from_proxy, in DnsCache, and the answer.                *)

Store ==
    /\ pc = "store"
    /\ saved' = saved \cup {[name |-> Question.name, ips |-> resp.ips]}
    /\ pc' = "respond"
    /\ UNCHANGED <<clients, inbox, requests, bound, locals, given, crashes>>

(* Variant: the cache is only a cache; without it the answer still goes.   *)
StoreFailsAnswering ==
    /\ pc = "store"
    /\ pc' = "respond"
    /\ UNCHANGED <<clients, inbox, requests, bound, locals, saved, given, crashes>>

(* The cache does not parse or cannot be written.                          *)
StoreFails ==
    /\ pc = "store"
    /\ Respond(Servfail)
    /\ UNCHANGED <<clients, inbox, requests, bound, cur, idx, failures, saved, given, crashes>>

(* Variant: the failures of the last datagram are kept.                    *)
SendKeepsFailures ==
    /\ pc = "respond"
    /\ given' = given \cup {[id |-> cur, resp |-> resp, failures |-> failures]}
    /\ pc' = "idle"
    /\ cur' = 0 /\ idx' = 1 /\ resp' = None
    /\ UNCHANGED <<clients, inbox, requests, bound, failures, saved, crashes>>

(* The answer goes to the sender of the datagram in hand.                  *)
Send ==
    /\ pc = "respond"
    /\ given' = given \cup {[id |-> cur, resp |-> resp, failures |-> failures]}
    /\ pc' = "idle"
    /\ cur' = 0 /\ idx' = 1 /\ failures' = <<>> /\ resp' = None
    /\ UNCHANGED <<clients, inbox, requests, bound, saved, crashes>>

(* A killed proxy takes the buffer of its socket with it.                  *)
Crash ==
    /\ pc # "off" /\ crashes < MaxCrashes
    /\ crashes' = crashes + 1
    /\ pc' = "off" /\ inbox' = <<>>
    /\ cur' = 0 /\ idx' = 1 /\ failures' = <<>> /\ resp' = None
    /\ UNCHANGED <<clients, requests, bound, saved, given>>

(* Restart=on-failure in eve-net-dns-proxy.service.                        *)
Restart ==
    /\ pc = "off"
    /\ pc' = "idle"
    /\ UNCHANGED <<clients, inbox, requests, bound, locals, saved, given, crashes>>

-----------------------------------------------------------------------------
Init ==
    /\ settings \in Setting
    /\ arrived = <<>> /\ inbox = <<>>
    /\ requests = {} /\ bound = 0
    /\ pc = "idle" /\ cur = 0 /\ idx = 1 /\ failures = <<>> /\ resp = None
    /\ saved = {} /\ given = {} /\ crashes = 0

Proxy ==
    \/ Receive \/ Ask \/ AskFails \/ Timeout \/ TakeReply
    \/ Store \/ StoreFails \/ Send \/ Restart

Next == Proxy \/ Arrive \/ Crash

Spec == Init /\ [][Next]_vars

(* The proxy goes on: timeouts expire, files can be read or not, systemd   *)
(* restarts it.  No upstream is obliged to answer, no client to ask.       *)
FairSpec == Spec /\ WF_vars(Proxy)

-----------------------------------------------------------------------------
(* Properties.                                                             *)

(* The type invariant; no upstream fails twice for a datagram, and the     *)
(* proxy has a datagram in hand exactly while it handles one.              *)
TypeOK ==
    /\ settings \in Setting
    /\ arrived \in Seq(Query) /\ Len(arrived) <= MaxQueries
    /\ inbox \in Seq(Id) /\ Len(inbox) <= MaxQueue
    /\ requests \subseteq [to : Upstream, port : Port, query : Query]
    /\ bound \in Port \cup {0}
    /\ pc \in {"off", "idle", "ask", "wait", "store", "respond"}
    /\ cur \in 0..Len(arrived) /\ (cur = 0 <=> pc \in {"off", "idle"})
    /\ idx \in DOMAIN Upstreams
    /\ failures \in Seq(Upstream) /\ Len(failures) <= Len(Upstreams)
    /\ resp \in Response
    /\ saved \subseteq [name : PolicyName, ips : SUBSET Ip]
    /\ given \subseteq [id : Id, resp : Response, failures : Seq(Upstream)]
    /\ crashes \in 0..MaxCrashes

(* The addresses of a policy's domain are in the cache, for the next       *)
(* reconcile to mark, before a client has them (dns_proxy.rs:158-171).     *)
CachedBeforeAnswered ==
    \A g \in given :
        LET q == arrived[g.id]
        IN settings.cache /\ q.kind = "A" /\ q.name \in PolicyName
              /\ g.resp.what = "reply" /\ g.resp.ips # {}
           => [name |-> q.name, ips |-> g.resp.ips] \in saved

(* README.md:373-378: upstreams are tried in order.  The reply a client    *)
(* gets is of the first upstream that did not fail, and an error for a     *)
(* name without a policy says that all of them failed.                     *)
FailoverInOrder ==
    \A g \in given :
        LET q == arrived[g.id]
            n == Len(g.failures)
        IN /\ g.failures = SubSeq(Upstreams, 1, n)
           /\ g.resp.what = "reply" => n < Len(Upstreams) /\ g.resp.from = Upstreams[n + 1]
           /\ g.resp.what \in {"servfail", "refused"} /\ q.kind # "unparsable"
                 /\ q.name \notin PolicyName
              => n = Len(Upstreams)

Pending == {inbox[i] : i \in DOMAIN inbox} \cup ({cur} \ {0})

(* Each datagram is answered at most once and with an answer to its own    *)
(* question that its settings allow, whatever comes late, is killed or     *)
(* fails: the proxy implements DnsService.                                 *)
Service == INSTANCE DnsService WITH
    pending <- Pending,
    given   <- {[id |-> g.id, resp |-> g.resp] : g \in given}

Serves == Service!Spec

(* The line of datagrams: the one in hand, then those of the buffer.       *)
InLine(i) == IF i = 0 THEN cur ELSE inbox[i]

(* Steps that the datagram in hand, or any datagram, may still take.       *)
StepsLeft ==
    LET later == 2 * (Len(Upstreams) - idx)
    IN CASE pc = "ask" -> later + 4 [] pc = "wait" -> later + 3
         [] pc = "store" -> 2 [] pc = "respond" -> 1 [] OTHER -> 0
MostSteps == 2 * Len(Upstreams) + 3

(* At most so many steps of the proxy, of which Len(Upstreams) for each    *)
(* datagram wait for a timeout, are between the i-th in line and its end.  *)
Wait(i) == i * MostSteps + StepsLeft

(* Nothing the upstreams do, or do not, and no client makes a datagram     *)
(* wait longer: each step of the proxy brings all in line nearer to their  *)
(* end, arrivals queue behind them (dns_proxy.rs:57-76, 176-210).          *)
ServedInTurn ==
    [][\A i \in 0..Len(inbox), j \in 0..Len(inbox') :
          InLine(i) # 0 /\ InLine(j)' = InLine(i) =>
              IF arrived' = arrived THEN Wait(j)' < Wait(i) ELSE Wait(j)' = Wait(i)]_vars

(* A datagram the proxy has received is answered or lost with the process: *)
(* it does not wait for ever behind others or on silent upstreams          *)
(* (dns_proxy.rs:57-76, 176-210).                                          *)
EveryQueryEnds == \A n \in Id : n \in Pending ~> n \notin Pending
=============================================================================
