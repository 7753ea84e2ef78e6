----------------------- MODULE DomainRouting_proofs -----------------------
(***************************************************************************)
(* Proofs about DomainRouting: its type invariant; that what the chain     *)
(* marks for a domain is one answer, whoever writes the cache file while   *)
(* the service applies its policies; and that a policy resolved before a   *)
(* reply to a client expires gets the addresses of that reply.             *)
(***************************************************************************)
EXTENDS DomainRouting, DnsCache_proofs

(* The service has resolved the policy in hand so far that it may get      *)
(* addresses for it.                                                       *)
InHand == pc[Service] \in {"lookup", "truncate", "write"} \/ (pc[Service] = "done" /\ Ips # {})

(* The policy in hand: it is not among those still to apply, its cache was *)
(* read after the chain was emptied, and it has no rules but those of its  *)
(* resolution.                                                             *)
HandOK ==
    /\ pc[Service] = "load" =>
          \E d \in Enabled \ todo : task[Service].todo = {d} /\ chain[d] = {}
    /\ pc[Service] \in {"lookup", "truncate", "write"} => task[Service].todo = {}
    /\ InHand => /\ Dom \in Enabled \ todo /\ task[Service].at >= since
                 /\ chain[Dom] \subseteq Ips
                 /\ pc[Service] # "done" => chain[Dom] = {}

(* The answer a was usable when the chain was emptied.                     *)
Usable(a) == a.time + Ttl + (IF StaleAllowed THEN Grace ELSE 0) >= since

(* The rules of d are of the answer a: all of it, unless the pass stopped  *)
(* or the policy is in hand.                                               *)
MarkedBy(d, a) ==
    /\ a.dom = d /\ chain[d] \subseteq a.ips /\ Usable(a)
    /\ \/ chain[d] = a.ips
       \/ pass = "none"
       \/ pc[Service] = "done" /\ Dom = d /\ Ips = a.ips

Marked == \A d \in Enabled : chain[d] # {} => \E a \in answers : MarkedBy(d, a)

RouteInv ==
    /\ RecentInv /\ RoutingTypeOK
    /\ since <= now
    /\ \A d \in todo : chain[d] = {}
    /\ HandOK
    /\ Marked

GivenType == [Enabled -> Entry \cup {NoEntry}]

LEMMA ServiceIsOne ==
    Service \in Process /\ Service \in Resolvers /\ Service \notin Proxies /\ Service \notin Pruners
BY RoutingAssumption, ProcessAssumption DEF Process, Resolvers

-----------------------------------------------------------------------------
(* A step that leaves the service where it is.                             *)
LEMMA ElsewhereRoute ==
    ASSUME RouteInv, RecentInv', UNCHANGED <<chain, pass, todo, since>>, given' \in GivenType,
           pc'[Service] = pc[Service], task'[Service] = task[Service],
           answers \subseteq answers', now <= now'
    PROVE  RouteInv'
<1>1. RoutingTypeOK'
    BY DEF RouteInv, RoutingTypeOK, GivenType, Busy
<1>2. since <= now'
    BY DEF RouteInv, RecentInv, TypeOK, RoutingTypeOK, Time
<1>3. HandOK'
    BY DEF RouteInv, HandOK, InHand, Dom, Ips
<1>4. Marked'
    BY DEF RouteInv, Marked, MarkedBy, Usable, Dom, Ips
<1>5. QED
    BY <1>1, <1>2, <1>3, <1>4 DEF RouteInv

(* A step of the service's resolution: it is not at its end before.        *)
LEMMA ResolutionRoute ==
    ASSUME RouteInv, RecentInv', UNCHANGED <<chain, pass, todo, since>>, given' \in GivenType,
           answers \subseteq answers', UNCHANGED now,
           pc[Service] \notin {"idle", "done"}, pc'[Service] # "idle", HandOK'
    PROVE  RouteInv'
<1>1. RoutingTypeOK'
    BY DEF RouteInv, RoutingTypeOK, GivenType, Busy
<1>2. Marked'
    BY DEF RouteInv, Marked, MarkedBy, Usable
<1>3. QED
    BY <1>1, <1>2 DEF RouteInv

LEMMA RouteTypes ==
    RouteInv => /\ TypeOK /\ chain \in [Enabled -> SUBSET Ip] /\ todo \in SUBSET Enabled
                /\ since \in Nat /\ now \in Nat /\ now \in Time /\ since <= now
                /\ given \in GivenType /\ task[Service] \in Task
                /\ task \in [Process -> Task] /\ Service \in Process
BY ServiceIsOne DEF RouteInv, RecentInv, TypeOK, RoutingTypeOK, Time, GivenType

LEMMA LoadRoute ==
    ASSUME RouteInv, RecentInv', UNCHANGED <<chain, pass, todo, since>>, given' \in GivenType,
           LoadToResolve(Service)
    PROVE  RouteInv'
<1>1. /\ pc[Service] = "load" /\ UNCHANGED <<now, answers>>
      /\ TypeOK /\ task[Service] \in Task /\ task \in [Process -> Task] /\ Service \in Process
      /\ now \in Nat /\ since \in Nat /\ since <= now
    BY RouteTypes DEF LoadToResolve, history
<1>2. PICK e \in Enabled \ todo : task[Service].todo = {e} /\ chain[e] = {}
    BY <1>1 DEF RouteInv, HandOK
<1>3. PICK d \in task[Service].todo :
          LET t == [task[Service] EXCEPT !.dom = d, !.todo = @ \ {d}, !.mem = Loaded, !.at = now]
              c == Loaded[d]
          IN IF Service \in Runtimes /\ IsFresh(c)
             THEN /\ task' = [task EXCEPT ![Service] = [t EXCEPT !.source = "fresh", !.ips = c.ips]]
                  /\ Goto(Service, "done")
             ELSE /\ task' = [task EXCEPT ![Service] = t]
                  /\ Goto(Service, "lookup")
    BY DEF LoadToResolve
<1> DEFINE t == [task[Service] EXCEPT !.dom = d, !.todo = @ \ {d}, !.mem = Loaded, !.at = now]
<1>4. d = e /\ t.dom = d /\ t.todo = {} /\ t.at = now
    BY <1>1, <1>2 DEF Task
<1>5. /\ task'[Service].dom = d /\ task'[Service].todo = {} /\ task'[Service].at = now
  <2>1. CASE task' = [task EXCEPT ![Service] = t]
      BY <1>1, <1>4, <2>1
  <2>2. CASE task' = [task EXCEPT ![Service] =
                         [t EXCEPT !.source = "fresh", !.ips = Loaded[d].ips]]
    <3>1. task'[Service] = [t EXCEPT !.source = "fresh", !.ips = Loaded[d].ips]
        BY <1>1, <2>2
    <3>2. QED
        BY <1>1, <1>4, <3>1 DEF Task
  <2>3. QED
      BY <1>3, <2>1, <2>2
<1>6. pc'[Service] \in {"done", "lookup"}
    BY <1>1, <1>3, GotoType DEF Place
<1>7. HandOK'
    BY <1>1, <1>2, <1>4, <1>5, <1>6 DEF HandOK, InHand, Dom, Ips
<1>8. QED
    BY <1>1, <1>6, <1>7, ResolutionRoute

(* The resolution ends with an error: no addresses.                        *)
LEMMA ErrorRoute ==
    ASSUME RouteInv, RecentInv', UNCHANGED <<chain, pass, todo, since>>, given' \in GivenType,
           LoadFails(Service) \/ SaveFails(Service)
    PROVE  RouteInv'
<1>1. /\ TypeOK /\ Service \in Process
      /\ pc[Service] \in {"load", "truncate", "write"} /\ UNCHANGED <<now, answers>>
      /\ Return(Service, "error", {}) /\ "error" \in Source /\ {} \in SUBSET Ip
    BY RouteTypes DEF LoadFails, SaveFails, history, Source
<1>2. pc'[Service] = "done" /\ task'[Service].ips = {}
    BY <1>1, ReturnType
<1>3. HandOK'
    BY <1>2 DEF HandOK, InHand, Ips
<1>4. QED
    BY <1>1, <1>2, <1>3, ResolutionRoute

(* The answer to the lookup, or its failure.                               *)
LEMMA LookupRoute ==
    ASSUME RouteInv, RecentInv', UNCHANGED <<chain, pass, todo, since>>, given' \in GivenType,
           LookupAnswers(Service) \/ LookupFails(Service)
    PROVE  RouteInv'
<1>1. /\ TypeOK /\ Service \in Process /\ task[Service] \in Task /\ task \in [Process -> Task]
      /\ pc[Service] = "lookup" /\ UNCHANGED now /\ answers \subseteq answers'
    BY RouteTypes DEF LookupAnswers, LookupFails, history, Answered
<1>2. /\ task[Service].todo = {} /\ Dom \in Enabled \ todo /\ task[Service].at >= since
      /\ chain[Dom] = {}
    BY <1>1 DEF RouteInv, HandOK, InHand
<1>3. pc'[Service] \in {"truncate", "done"}
    BY <1>1, <1>2, GotoType DEF LookupAnswers, LookupFails, NextDomain, Place
<1>4. task'[Service].dom = Dom /\ task'[Service].todo = {} /\ task'[Service].at = task[Service].at
  <2>1. CASE \E n, s, i : task' = [task EXCEPT ![Service].mem[Dom] = n,
                                              ![Service].source = s, ![Service].ips = i]
      BY <1>1, <1>2, <2>1 DEF Task, Dom
  <2>2. CASE task' = [task EXCEPT ![Service].source = "empty", ![Service].ips = {}]
      BY <1>1, <1>2, <2>2 DEF Task, Dom
  <2>3. CASE LookupAnswers(Service)
    <3>1. PICK ips \in Replies \ {{}} :
              task' = [task EXCEPT
                 ![Service].mem[Dom] = LiveEntry(ips, task[Service].at),
                 ![Service].ips = ips, ![Service].source = "live"]
        BY <2>3, Zenon DEF LookupAnswers, Dom
    <3> DEFINE n == LiveEntry(ips, task[Service].at)
    <3>2. task' = [task EXCEPT ![Service].mem[Dom] = n, ![Service].ips = ips,
                               ![Service].source = "live"]
        BY <3>1
    <3> HIDE DEF n
    <3>3. QED
        BY <1>1, <1>2, <3>2 DEF Task, Dom
  <2>4. CASE LookupFails(Service)
    <3> DEFINE e == task[Service].mem[Dom]
               usable == StaleAllowed /\ e.expires + Grace >= task[Service].at /\ e.ips # {}
               n == [e EXCEPT !.error = TRUE]
               s == IF usable THEN "stale" ELSE "empty"
               i == IF usable THEN e.ips ELSE {}
    <3>1. CASE e # NoEntry
      <4>1. task' = [task EXCEPT ![Service].mem[Dom] = n, ![Service].source = s,
                                 ![Service].ips = i]
          BY <2>4, <3>1, Zenon DEF LookupFails, Dom
      <4> HIDE DEF n, s, i
      <4>2. QED
          BY <2>1, <4>1
    <3>2. CASE e = NoEntry
        BY <2>2, <2>4, <3>2, Zenon DEF LookupFails, Dom
    <3>3. QED
        BY <3>1, <3>2
  <2>5. QED
      BY <2>3, <2>4
<1>5. HandOK'
    BY <1>2, <1>3, <1>4 DEF HandOK, InHand, Dom, Ips
<1>6. QED
    BY <1>1, <1>3, <1>5, ResolutionRoute

LEMMA WriteRoute ==
    ASSUME RouteInv, RecentInv', UNCHANGED <<chain, pass, todo, since>>, given' \in GivenType,
           Truncate(Service) \/ Write(Service)
    PROVE  RouteInv'
<1>1. /\ TypeOK /\ Service \in Process /\ UNCHANGED <<now, answers, task>>
      /\ pc[Service] \in {"truncate", "write"}
    BY RouteTypes DEF Truncate, Write, history
<1>2. task[Service].todo = {}
    BY <1>1 DEF RouteInv, HandOK
<1>3. pc'[Service] \in {"write", "done"}
    BY <1>1, <1>2, GotoType DEF Truncate, Write, NextDomain, Place
<1>4. HandOK'
    BY <1>1, <1>2, <1>3 DEF RouteInv, HandOK, InHand, Dom, Ips
<1>5. QED
    BY <1>1, <1>3, <1>4, ResolutionRoute

-----------------------------------------------------------------------------
(* The steps at the cache, whosever they are.                              *)

LEMMA CacheStepGiven ==
    ASSUME RouteInv, RecentInv', NEW p \in Process, CacheStep(p) PROVE given' \in GivenType
<1>1. given \in GivenType
    BY RouteTypes
<1>2. CASE Quiet(p)
    BY <1>1, <1>2 DEF Quiet
<1>3. CASE Answer(p)
    BY <1>1, <1>3 DEF Answer, GivenType
<1>4. CASE Save(p)
  <2>1. entries' \in Cache /\ Enabled \subseteq Domain
      BY DomainAssumption DEF RecentInv, TypeOK
  <2>2. \A d \in Enabled : entries'[d] \in Entry \cup {NoEntry}
      BY <2>1 DEF Cache
  <2>3. QED
      BY <1>1, <1>4, <2>2 DEF Save, GivenType
<1>5. QED
    BY <1>2, <1>3, <1>4 DEF CacheStep

(* A step of another program at the cache leaves the service alone.        *)
LEMMA OtherCacheStep ==
    ASSUME RouteInv, NEW p \in Process, p # Service, CacheStep(p)
    PROVE  /\ pc'[Service] = pc[Service] /\ task'[Service] = task[Service]
           /\ answers \subseteq answers' /\ UNCHANGED now
<1>1. TypeOK /\ Service \in Process
    BY RouteTypes
<1>2. \E l : Goto(p, l)
    BY DEF CacheStep, Quiet, Answer, Save, LoadFails, LoadToResolve, LoadToPrune, LookupFails,
       Truncate, SaveFails, LookupAnswers, LoadToStore, Write, NextDomain, Return
<1>3. pc'[Service] = pc[Service]
    BY <1>1, <1>2 DEF Goto, TypeOK
<1>4. task'[Service] = task[Service]
  <2>1. CASE Quiet(p)
      BY <1>1, <2>1, Zenon DEF Quiet, LoadFails, LoadToResolve, LoadToPrune, LookupFails, Truncate,
         SaveFails, Return, TypeOK
  <2>2. CASE Answer(p) \/ Save(p)
      BY <1>1, <2>2, Zenon DEF Answer, Save, LookupAnswers, LoadToStore, Write, TypeOK
  <2>3. QED
      BY <2>1, <2>2 DEF CacheStep
<1>5. answers \subseteq answers' /\ UNCHANGED now
  <2>1. CASE Quiet(p)
      BY <2>1 DEF Quiet, LoadFails, LoadToResolve, LoadToPrune, LookupFails, Truncate, SaveFails,
         history
  <2>2. CASE Answer(p) \/ Save(p)
      BY <2>2 DEF Answer, Save, LookupAnswers, LoadToStore, Write, Answered
  <2>3. QED
      BY <2>1, <2>2 DEF CacheStep
<1>6. QED
    BY <1>3, <1>4, <1>5

LEMMA CacheStepRoute ==
    ASSUME RouteInv, RecentInv', NEW p \in Process, CacheStep(p) PROVE RouteInv'
<1>1. UNCHANGED <<chain, pass, todo, since>> /\ given' \in GivenType
    BY CacheStepGiven DEF CacheStep, Quiet, Answer, Save, loop
<1>2. CASE p # Service
  <2>1. now' = now /\ now \in Nat
      BY <1>2, OtherCacheStep, RouteTypes
  <2>2. now <= now'
      BY <2>1
  <2>3. QED
      BY <1>1, <1>2, <2>2, OtherCacheStep, ElsewhereRoute
<1>3. CASE p = Service
  <2>1. ~LoadToPrune(Service) /\ ~LoadToStore(Service)
      BY ServiceIsOne DEF LoadToPrune, LoadToStore
  <2>2. CASE LoadFails(Service) \/ SaveFails(Service) \/ LoadToResolve(Service)
      BY <1>1, <2>2, ErrorRoute, LoadRoute
  <2>3. CASE LookupAnswers(Service) \/ LookupFails(Service)
      BY <1>1, <2>3, LookupRoute
  <2>4. CASE Truncate(Service) \/ Write(Service)
      BY <1>1, <2>4, WriteRoute
  <2>5. QED
      BY <1>3, <2>1, <2>2, <2>3, <2>4 DEF CacheStep, Quiet, Answer, Save
<1>4. QED
    BY <1>2, <1>3

-----------------------------------------------------------------------------
(* The loop of the service.                                                *)

LEMMA BeginPassRoute ==
    ASSUME RouteInv, RecentInv', BeginPass PROVE RouteInv'
<1>1. /\ pass' = "policies" /\ todo' = Enabled /\ since' = now /\ now \in Time /\ now \in Nat
      /\ chain' = [d \in Enabled |-> {}] /\ given' = given /\ UNCHANGED <<now, pc, task>>
    BY RouteTypes DEF BeginPass, vars
<1>2. pc[Service] = "idle"
    BY DEF RouteInv, RoutingTypeOK, BeginPass, Busy
<1>3. RoutingTypeOK'
    BY <1>1 DEF RouteInv, RoutingTypeOK, Time
<1>4. HandOK' /\ Marked' /\ \A d \in todo' : chain'[d] = {}
    BY <1>1, <1>2 DEF HandOK, InHand, Marked
<1>5. since' <= now'
    BY <1>1
<1>6. QED
    BY <1>3, <1>4, <1>5 DEF RouteInv

LEMMA ResolvePolicyRecent == RouteInv /\ ResolvePolicy => RecentInv'
<1>1. SUFFICES ASSUME RouteInv, ResolvePolicy PROVE RecentInv'
    OBVIOUS
<1>2. /\ TypeOK /\ RecentInv /\ Service \in Process /\ Service \notin Proxies
      /\ UNCHANGED <<disk, entries, now, events, answers, kept>> /\ Goto(Service, "load")
      /\ Enabled \subseteq Domain /\ todo \subseteq Enabled
    BY <1>1, RouteTypes, ServiceIsOne, DomainAssumption
    DEF ResolvePolicy, RouteInv, file, history
<1>3. PICK d \in todo : task' = [task EXCEPT ![Service].todo = {d}]
    BY <1>1 DEF ResolvePolicy
<1>4. /\ pc' \in [Process -> Place] /\ pc'[Service] = "load"
      /\ \A q \in Process : q # Service => pc'[q] = pc[q] /\ task'[q] = task[q]
    BY <1>2, <1>3, GotoType DEF TypeOK, Place
<1>5. /\ task' \in [Process -> Task] /\ task'[Service].mem = task[Service].mem
      /\ task'[Service].at = task[Service].at
    BY <1>2, <1>3 DEF TypeOK, Task
<1>6. TypeOK'
    BY <1>2, <1>4, <1>5 DEF TypeOK, Place
<1>7. ProcessInv(Service)'
    BY <1>2, <1>4, <1>5 DEF RecentInv, ProcessInv, Ended
<1>8. QED
    BY <1>2, <1>4, <1>6, <1>7, EntriesKept, OthersKnow

LEMMA ResolvePolicyRoute ==
    ASSUME RouteInv, RecentInv', ResolvePolicy PROVE RouteInv'
<1>1. /\ TypeOK /\ Service \in Process /\ task[Service] \in Task /\ task \in [Process -> Task]
      /\ pass = "policies" /\ pc[Service] = "idle" /\ Goto(Service, "load")
      /\ UNCHANGED <<now, answers, chain, pass, since, given>> /\ todo \subseteq Enabled
    BY RouteTypes DEF ResolvePolicy, Busy, history
<1>2. PICK d \in todo : todo' = todo \ {d} /\ task' = [task EXCEPT ![Service].todo = {d}]
    BY DEF ResolvePolicy
<1>3. pc'[Service] = "load" /\ task'[Service].todo = {d}
    BY <1>1, <1>2, GotoType DEF Place, Task
<1>4. RoutingTypeOK'
    BY <1>1, <1>2 DEF RouteInv, RoutingTypeOK
<1>5. HandOK'
    BY <1>1, <1>2, <1>3 DEF RouteInv, HandOK, InHand
<1>6. Marked'
    BY <1>1 DEF RouteInv, Marked, MarkedBy, Usable
<1>7. QED
    BY <1>1, <1>2, <1>4, <1>5, <1>6 DEF RouteInv

(* The addresses of the resolution in hand are those of a usable answer.   *)
LEMMA HandIsUsable ==
    ASSUME RouteInv, pc[Service] = "done", Ips # {}
    PROVE  \E a \in answers : a.dom = Dom /\ a.ips = Ips /\ Usable(a)
<1>1. GoodAnswer(task[Service], answers) /\ task[Service].at >= since
      /\ task[Service].at \in Nat /\ since \in Nat
      /\ answers \subseteq [dom : Domain, ips : SUBSET Ip, time : Time]
    BY ServiceIsOne, RouteTypes
    DEF RouteInv, RecentInv, ProcessInv, Ended, HandOK, InHand, TypeOK, Task, Time
<1>2. PICK a \in answers :
          /\ a.dom = Dom /\ a.ips = Ips
          /\ \/ task[Service].source = "live"  /\ a.time >= task[Service].at
             \/ task[Service].source = "fresh" /\ a.time + Ttl > task[Service].at
             \/ /\ task[Service].source = "stale" /\ StaleAllowed
                /\ a.time + Ttl + Grace >= task[Service].at
    BY <1>1 DEF GoodAnswer, Dom, Ips
<1>3. a.time \in Nat
    BY <1>1, <1>2 DEF Time
<1>4. Usable(a)
    BY <1>1, <1>2, <1>3, SettingAssumption DEF Usable
<1>5. QED
    BY <1>2, <1>4

LEMMA AddRuleRoute ==
    ASSUME RouteInv, RecentInv', AddRule PROVE RouteInv'
<1>1. PICK ip \in Ips : chain' = [chain EXCEPT ![Dom] = @ \cup {ip}]
    BY DEF AddRule
<1>2. /\ pc[Service] = "done" /\ Ips # {} /\ UNCHANGED <<now, pc, task, answers>>
      /\ UNCHANGED <<pass, todo, since, given>>
      /\ chain \in [Enabled -> SUBSET Ip] /\ Ips \subseteq Ip
    BY <1>1, RouteTypes DEF AddRule, vars, history, loop, Ips, Task
<1>3. Dom \in Enabled \ todo /\ chain[Dom] \subseteq Ips
    BY <1>2 DEF RouteInv, HandOK, InHand
<1>4. /\ chain' \in [Enabled -> SUBSET Ip]
      /\ \A d \in Enabled : d # Dom => chain'[d] = chain[d]
      /\ chain'[Dom] \subseteq Ips
    BY <1>1, <1>2, <1>3
<1>5. RoutingTypeOK' /\ since' <= now'
    BY <1>2, <1>4 DEF RouteInv, RoutingTypeOK, Busy
<1>6. HandOK' /\ \A d \in todo' : chain'[d] = {}
  <2>1. Dom' = Dom /\ Ips' = Ips
      BY <1>2 DEF Dom, Ips
  <2>2. todo \subseteq Enabled
      BY DEF RouteInv, RoutingTypeOK
  <2>3. QED
      BY <1>2, <1>3, <1>4, <2>1, <2>2 DEF RouteInv, HandOK, InHand
<1>7. Marked'
  <2>1. SUFFICES ASSUME NEW d \in Enabled, chain'[d] # {}
                 PROVE  \E a \in answers' : MarkedBy(d, a)'
      BY DEF Marked
  <2>2. CASE d = Dom
    <3>1. PICK a \in answers : a.dom = Dom /\ a.ips = Ips /\ Usable(a)
        BY <1>2, HandIsUsable
    <3>2. MarkedBy(d, a)'
        BY <1>2, <1>4, <2>2, <3>1 DEF MarkedBy, Usable, Dom, Ips
    <3>3. QED
        BY <1>2, <3>1, <3>2
  <2>3. CASE d # Dom
      BY <1>2, <1>4, <2>1, <2>3 DEF RouteInv, Marked, MarkedBy, Usable, Dom, Ips
  <2>4. QED
      BY <2>2, <2>3
<1>8. QED
    BY <1>5, <1>6, <1>7 DEF RouteInv

(* The policy in hand is done with: it has all rules or none.              *)
LEMMA EndPolicyRoute ==
    ASSUME RouteInv, RecentInv', EndPolicy PROVE RouteInv'
<1>1. /\ pc[Service] = "done" /\ Goto(Service, "idle")
      /\ UNCHANGED <<now, answers, chain, pass, todo, since, given>>
      /\ Ips # {} => Ips \subseteq chain[Dom]
    BY DEF EndPolicy, End, history, loop
<1>2. pc'[Service] = "idle"
    BY <1>1, RouteTypes, GotoType DEF Place
<1>3. RoutingTypeOK'
    BY <1>1, <1>2 DEF RouteInv, RoutingTypeOK, Busy
<1>4. HandOK'
    BY <1>2 DEF HandOK, InHand
<1>5. Marked'
  <2>1. SUFFICES ASSUME NEW d \in Enabled, chain[d] # {}, NEW a \in answers, MarkedBy(d, a)
                 PROVE  MarkedBy(d, a)'
      BY <1>1 DEF RouteInv, Marked
  <2>2. chain[d] = a.ips \/ pass = "none"
      BY <1>1, <2>1 DEF MarkedBy
  <2>3. QED
      BY <1>1, <2>1, <2>2 DEF MarkedBy, Usable
<1>6. QED
    BY <1>1, <1>3, <1>4, <1>5 DEF RouteInv

LEMMA EndPassRoute ==
    ASSUME RouteInv, RecentInv', EndPass PROVE RouteInv'
<1>1. /\ pass = "policies" /\ pass' = "done" /\ pc[Service] = "idle" /\ todo = {}
      /\ UNCHANGED <<now, answers, pc, task, chain, todo, since, given>>
    BY DEF EndPass, vars, history, Busy
<1>2. RoutingTypeOK'
    BY <1>1 DEF RouteInv, RoutingTypeOK, Busy
<1>3. HandOK'
    BY <1>1 DEF HandOK, InHand
<1>4. Marked'
    BY <1>1 DEF RouteInv, Marked, MarkedBy, Usable, Dom, Ips
<1>5. QED
    BY <1>1, <1>2, <1>3, <1>4 DEF RouteInv

LEMMA AbortPassRecent == RouteInv /\ AbortPass => RecentInv'
<1>1. SUFFICES ASSUME RouteInv, AbortPass PROVE RecentInv'
    OBVIOUS
<1>2. RecentInv /\ Service \in Process
    BY <1>1, ServiceIsOne DEF RouteInv
<1>3. CASE Crash(Service)
    BY <1>2, <1>3, NextRecent DEF Next
<1>4. CASE Event /\ UNCHANGED <<file, now, pc, task, history>>
  <2>1. TypeOK /\ events' \in 0..MaxEvents
      BY <1>2, <1>4, EventType DEF RecentInv
  <2>2. TypeOK'
      BY <1>4, <2>1 DEF TypeOK, file, history
  <2>3. QED
      BY <1>2, <1>4, <2>2 DEF RecentInv, ProcessInv, file, history
<1>5. QED
    BY <1>1, <1>3, <1>4 DEF AbortPass

LEMMA AbortPassRoute ==
    ASSUME RouteInv, RecentInv', AbortPass PROVE RouteInv'
<1>1. /\ pass' = "none" /\ todo' = {} /\ UNCHANGED <<now, answers, chain, since, given>>
    BY DEF AbortPass, Crash, history
<1>2. pc'[Service] = "idle"
  <2>1. CASE Crash(Service)
      BY <2>1, RouteTypes, GotoType DEF Crash, Place
  <2>2. CASE ~Busy /\ UNCHANGED pc
      BY <2>2 DEF Busy
  <2>3. QED
      BY <2>1, <2>2 DEF AbortPass
<1>3. RoutingTypeOK'
    BY <1>1, <1>2 DEF RouteInv, RoutingTypeOK, Busy
<1>4. HandOK'
    BY <1>2 DEF HandOK, InHand
<1>5. Marked'
    BY <1>1 DEF RouteInv, Marked, MarkedBy, Usable
<1>6. QED
    BY <1>1, <1>3, <1>4, <1>5 DEF RouteInv

-----------------------------------------------------------------------------
(* The others come and go, and time passes.                                *)
LEMMA OthersRoute ==
    ASSUME RouteInv, RecentInv', NEW p \in Process, Others(p) PROVE RouteInv'
<1>1. /\ UNCHANGED <<chain, pass, todo, since, given>> /\ p # Service /\ TypeOK
      /\ Service \in Process /\ now \in Nat /\ given \in GivenType
    BY RouteTypes DEF Others, loop
<1>2. \E l : Goto(p, l)
    BY DEF Others, Start, End, Crash
<1>3. pc'[Service] = pc[Service]
    BY <1>1, <1>2 DEF Goto, TypeOK
<1>4. task'[Service] = task[Service] /\ UNCHANGED <<now, answers>>
  <2>1. CASE Start(p)
      BY <1>1, <2>1 DEF Start, history, TypeOK
  <2>2. CASE End(p) \/ Crash(p)
      BY <1>1, <2>2 DEF End, Crash, history, TypeOK
  <2>3. QED
      BY <2>1, <2>2 DEF Others
<1>5. QED
    BY <1>1, <1>3, <1>4, ElsewhereRoute

LEMMA TickRoute ==
    ASSUME RouteInv, RecentInv', Tick, UNCHANGED <<chain, loop, given>> PROVE RouteInv'
<1>1. /\ UNCHANGED <<chain, pass, todo, since, pc, task, answers>> /\ given' \in GivenType
      /\ now' = now + 1 /\ now \in Nat
    BY RouteTypes DEF Tick, loop, history
<1>2. now <= now'
    BY <1>1
<1>3. QED
    BY <1>1, <1>2, ElsewhereRoute

LEMMA NextRouteRecent == RouteInv /\ [RoutingNext]_routingVars => RecentInv'
<1>1. SUFFICES ASSUME RouteInv, [RoutingNext]_routingVars PROVE RecentInv'
    OBVIOUS
<1>2. RecentInv /\ Service \in Process
    BY <1>1, ServiceIsOne DEF RouteInv
<1>3. CASE UNCHANGED vars
    BY <1>2, <1>3, NextRecent
<1>4. CASE Tick \/ EndPolicy
    BY <1>2, <1>4, NextRecent DEF Next, EndPolicy
<1>5. ASSUME NEW p \in Process, CacheStep(p) \/ Others(p) PROVE RecentInv'
    BY <1>2, <1>5, NextRecent DEF Next, CacheStep, Quiet, Answer, Save, Others
<1>6. QED
    BY <1>1, <1>3, <1>4, <1>5, ResolvePolicyRecent, AbortPassRecent
    DEF RoutingNext, ServiceStep, routingVars, BeginPass, AddRule, EndPass

LEMMA NextRoute == RouteInv /\ [RoutingNext]_routingVars => RouteInv'
<1>1. SUFFICES ASSUME RouteInv, [RoutingNext]_routingVars PROVE RouteInv'
    OBVIOUS
<1>2. RecentInv'
    BY <1>1, NextRouteRecent
<1>3. CASE UNCHANGED routingVars
  <2>1. UNCHANGED <<chain, pass, todo, since, given, pc, task, answers, now>>
      BY <1>3 DEF routingVars, vars, loop, history
  <2>2. QED
      BY <1>1, <1>2, <2>1
      DEF RouteInv, RoutingTypeOK, HandOK, InHand, Marked, MarkedBy, Usable, Busy, Dom, Ips
<1>4. CASE ServiceStep \/ AbortPass
    BY <1>1, <1>2, <1>4, BeginPassRoute, ResolvePolicyRoute, AddRuleRoute, EndPolicyRoute,
       EndPassRoute, AbortPassRoute
    DEF ServiceStep
<1>5. CASE \E p \in Process : CacheStep(p) \/ Others(p)
    BY <1>1, <1>2, <1>5, CacheStepRoute, OthersRoute
<1>6. CASE Tick /\ UNCHANGED <<chain, loop, given>>
    BY <1>1, <1>2, <1>6, TickRoute
<1>7. QED
    BY <1>1, <1>3, <1>4, <1>5, <1>6 DEF RoutingNext

LEMMA InitRoute == RoutingInit => RouteInv
<1>1. SUFFICES ASSUME RoutingInit PROVE RouteInv
    OBVIOUS
<1>2. RecentInv /\ now = Begin /\ pc[Service] = "idle"
    BY <1>1, InitRecent, ServiceIsOne DEF RoutingInit, Init
<1>3. /\ chain = [d \in Enabled |-> {}] /\ pass = "none" /\ todo = {} /\ since = Begin
      /\ given = [d \in Enabled |-> NoEntry]
    BY <1>1 DEF RoutingInit
<1>4. RoutingTypeOK
    BY <1>2, <1>3, SettingAssumption DEF RoutingTypeOK, Busy
<1>5. since \in Nat /\ since <= now
    BY <1>2, <1>3, SettingAssumption DEF Time
<1>6. HandOK /\ Marked
    BY <1>2, <1>3 DEF HandOK, InHand, Marked
<1>7. QED
    BY <1>2, <1>3, <1>4, <1>5, <1>6 DEF RouteInv

(* runtime.rs:75-121.  Rules are for enabled policies, and a pass of the   *)
(* service that has ended has left none of them out.                       *)
THEOREM RoutingTypes == RoutingSpec => []RoutingTypeOK
<1>1. RouteInv => RoutingTypeOK
    BY DEF RouteInv
<1>2. QED
    BY <1>1, InitRoute, NextRoute, PTL DEF RoutingSpec

(* runtime.rs:73-104 with dns_cache.rs:46-171.  What the chain marks for a *)
(* domain is one answer that was usable when the pass began, and all of it *)
(* once the pass has ended: for any number of programs that write the      *)
(* cache file at the same time, are killed or fail while they do.          *)
THEOREM MarksAreOneAnswer == RoutingSpec => []MarkedAreRecent
<1>1. RouteInv => MarkedAreRecent
  <2>1. SUFFICES ASSUME RouteInv, NEW d \in Enabled, chain[d] # {}
                 PROVE  \E a \in answers :
                           /\ a.dom = d /\ chain[d] \subseteq a.ips
                           /\ pass = "done" => chain[d] = a.ips
                           /\ a.time + Ttl + (IF StaleAllowed THEN Grace ELSE 0) >= since
      BY DEF MarkedAreRecent
  <2>2. PICK a \in answers : MarkedBy(d, a)
      BY <2>1 DEF RouteInv, Marked
  <2>3. pass = "done" => pc[Service] = "idle"
      BY <2>1 DEF RouteInv, RoutingTypeOK, Busy
  <2>4. QED
      BY <2>2, <2>3 DEF MarkedBy, Usable
<1>2. QED
    BY <1>1, InitRoute, NextRoute, PTL DEF RoutingSpec

-----------------------------------------------------------------------------
(* What the proxy gave stays in the file.                                  *)

(* The cache c has the replies g.                                          *)
HasGiven(c, g) ==
    \A d \in Enabled : g[d] # NoEntry =>
        c[d] # NoEntry /\ c[d].ips = g[d].ips /\ c[d].expires = g[d].expires

Fewer(g, h) == \A d \in Enabled : h[d] \in {g[d], NoEntry}

(* A program that has read the file will write the replies back; the proxy *)
(* looks nothing up, and has addresses to save.                            *)
CopyOK(p) ==
    /\ HoldsCopy(p) => HasGiven(task[p].mem, given)
    /\ p \in Proxies => /\ pc[p] # "lookup"
                        /\ pc[p] \in {"truncate", "write"} =>
                              /\ task[p].mem[task[p].dom] # NoEntry
                              /\ task[p].mem[task[p].dom].ips # {}

GivenInv ==
    /\ RouteInv
    /\ disk = "absent" => \A d \in Enabled : given[d] = NoEntry
    /\ disk = "readable" => HasGiven(entries, given)
    /\ \A d \in Enabled : given[d] # NoEntry => given[d].ips # {}
    /\ \A p \in Process : CopyOK(p)

LEMMA HasFewer == ASSUME NEW c, NEW g, NEW h, HasGiven(c, g), Fewer(g, h) PROVE HasGiven(c, h)
BY DEF HasGiven, Fewer

LEMMA LoadedHas == GivenInv /\ Readable => HasGiven(Loaded, given)
BY DEF GivenInv, Readable, Loaded, HasGiven

(* A step of p that gives nothing and leaves the file, or none that is     *)
(* readable.                                                               *)
LEMMA GivesNothing ==
    ASSUME GivenInv, RouteInv', NEW p \in Process, Fewer(given, given'),
           \A q \in Process : q # p => pc'[q] = pc[q] /\ task'[q] = task[q],
           UNCHANGED file \/ disk' \notin {"absent", "readable"}, CopyOK(p)'
    PROVE  GivenInv'
<1>1. ASSUME NEW q \in Process, q # p PROVE CopyOK(q)'
    BY <1>1, HasFewer DEF GivenInv, CopyOK, HoldsCopy
<1>2. disk' = "absent" => \A d \in Enabled : given'[d] = NoEntry
    BY DEF GivenInv, file, Fewer
<1>3. disk' = "readable" => HasGiven(entries', given')
    BY HasFewer DEF GivenInv, file
<1>4. \A d \in Enabled : given'[d] # NoEntry => given'[d].ips # {}
    BY DEF GivenInv, Fewer
<1>5. QED
    BY <1>1, <1>2, <1>3, <1>4 DEF GivenInv

(* A step that leaves the programs at the cache alone.                     *)
LEMMA GivenElsewhere ==
    ASSUME GivenInv, RouteInv', UNCHANGED <<file, pc, task, given>> PROVE GivenInv'
BY DEF GivenInv, CopyOK, HoldsCopy, HasGiven, file

LEMMA GivenTypes == GivenInv => TypeOK /\ given \in GivenType
BY RouteTypes DEF GivenInv

LEMMA StepsAlone ==
    ASSUME TypeOK, NEW p \in Process,
           \/ Start(p) \/ LoadFails(p) \/ LoadToResolve(p) \/ LoadToStore(p) \/ LoadToPrune(p)
           \/ LookupAnswers(p) \/ LookupFails(p)
           \/ Truncate(p) \/ Write(p) \/ SaveFails(p) \/ End(p) \/ Crash(p)
    PROVE  \A q \in Process : q # p => pc'[q] = pc[q] /\ task'[q] = task[q]
<1>1. SUFFICES ASSUME NEW q \in Process, q # p PROVE pc'[q] = pc[q] /\ task'[q] = task[q]
    OBVIOUS
<1>2. \E l : Goto(p, l)
    BY DEF LoadFails, LoadToResolve, LoadToPrune, LookupFails, Truncate, SaveFails, LookupAnswers,
       LoadToStore, Write, NextDomain, Return, Start, End, Crash
<1>3. pc'[q] = pc[q]
    BY <1>1, <1>2 DEF Goto, TypeOK
<1>4. task'[q] = task[q]
  <2>1. CASE LoadFails(p) \/ LoadToResolve(p) \/ LoadToPrune(p) \/ LookupFails(p) \/ Truncate(p)
      BY <1>1, <2>1, Zenon DEF LoadFails, LoadToResolve, LoadToPrune, LookupFails, Truncate,
         Return, TypeOK
  <2>2. CASE LookupAnswers(p) \/ LoadToStore(p) \/ Write(p) \/ SaveFails(p)
      BY <1>1, <2>2, Zenon DEF LookupAnswers, LoadToStore, Write, SaveFails, Return, TypeOK
  <2>3. CASE Start(p) \/ End(p) \/ Crash(p)
      BY <1>1, <2>3, Zenon DEF Start, End, Crash, TypeOK
  <2>4. QED
      BY <2>1, <2>2, <2>3
<1>5. QED
    BY <1>3, <1>4

(* The end of an operation, or its beginning: p holds no copy.             *)
LEMMA HoldsNone ==
    ASSUME NEW p \in Process, pc'[p] \in {"idle", "load", "done"} PROVE CopyOK(p)'
BY DEF CopyOK, HoldsCopy

LEMMA StopGiven ==
    ASSUME GivenInv, RouteInv', UNCHANGED given, NEW p \in Process,
           Start(p) \/ End(p) \/ Crash(p) \/ LoadFails(p) \/ SaveFails(p)
    PROVE  GivenInv'
<1>1. TypeOK /\ Fewer(given, given')
    BY GivenTypes DEF Fewer
<1>2. UNCHANGED file \/ disk' = "corrupt"
    BY DEF Start, End, Crash, LoadFails, SaveFails, Torn
<1>3. /\ pc'[p] \in {"idle", "load", "done"}
      /\ \A q \in Process : q # p => pc'[q] = pc[q] /\ task'[q] = task[q]
  <2>1. CASE LoadFails(p) \/ SaveFails(p)
    <3>1. Return(p, "error", {}) /\ "error" \in Source /\ {} \in SUBSET Ip
        BY <2>1 DEF LoadFails, SaveFails, Source
    <3>2. QED
        BY <1>1, <3>1, ReturnType
  <2>2. CASE Start(p) \/ End(p) \/ Crash(p)
    <3>1. Goto(p, "idle") \/ Goto(p, "load")
        BY <2>2 DEF Start, End, Crash
    <3>2. pc'[p] \in {"idle", "load"}
        BY <1>1, <3>1, GotoType DEF Place
    <3>3. QED
        BY <1>1, <2>2, <3>2, StepsAlone
  <2>3. QED
      BY <2>1, <2>2
<1>4. QED
    BY <1>1, <1>2, <1>3, HoldsNone, GivesNothing

LEMMA LoadToResolveGiven ==
    ASSUME GivenInv, RouteInv', UNCHANGED given, NEW p \in Process, LoadToResolve(p)
    PROVE  GivenInv'
<1>1. /\ TypeOK /\ Fewer(given, given') /\ p \notin Proxies /\ UNCHANGED file
      /\ HasGiven(Loaded, given) /\ task[p] \in Task /\ task \in [Process -> Task]
    BY GivenTypes, LoadedHas, ProcessAssumption DEF Fewer, LoadToResolve, TypeOK
<1>2. \A q \in Process : q # p => pc'[q] = pc[q] /\ task'[q] = task[q]
    BY <1>1, StepsAlone
<1>3. task'[p].mem = Loaded
  <2>1. PICK d \in task[p].todo :
            LET t == [task[p] EXCEPT !.dom = d, !.todo = @ \ {d}, !.mem = Loaded, !.at = now]
            IN \/ task' = [task EXCEPT ![p] = [t EXCEPT !.source = "fresh", !.ips = Loaded[d].ips]]
               \/ task' = [task EXCEPT ![p] = t]
      BY DEF LoadToResolve
  <2>2. QED
      BY <1>1, <2>1 DEF Task
<1>4. CopyOK(p)'
    BY <1>1, <1>3 DEF CopyOK
<1>5. QED
    BY <1>1, <1>2, <1>4, GivesNothing

LEMMA LoadToPruneGiven ==
    ASSUME GivenInv, RouteInv', UNCHANGED given, NEW p \in Process, LoadToPrune(p)
    PROVE  GivenInv'
<1>1. /\ TypeOK /\ Fewer(given, given') /\ p \notin Proxies /\ UNCHANGED file
      /\ HasGiven(Loaded, given) /\ task[p] \in Task /\ task \in [Process -> Task]
    BY GivenTypes, LoadedHas, ProcessAssumption DEF Fewer, LoadToPrune, TypeOK
<1>2. \A q \in Process : q # p => pc'[q] = pc[q] /\ task'[q] = task[q]
    BY <1>1, StepsAlone
<1>3. task'[p].mem = Pruned(Loaded)
    BY <1>1 DEF LoadToPrune, Task
<1>4. HasGiven(Pruned(Loaded), given)
    BY <1>1, DomainAssumption DEF HasGiven, Pruned
<1>5. CopyOK(p)'
    BY <1>1, <1>3, <1>4 DEF CopyOK
<1>6. QED
    BY <1>1, <1>2, <1>5, GivesNothing

(* A failed lookup changes neither the addresses nor the window.           *)
LEMMA LookupFailsGiven ==
    ASSUME GivenInv, RouteInv', UNCHANGED given, NEW p \in Process, LookupFails(p)
    PROVE  GivenInv'
<1>1. /\ TypeOK /\ Fewer(given, given') /\ pc[p] = "lookup" /\ UNCHANGED file
      /\ task[p] \in Task /\ task[p].mem \in Cache /\ task \in [Process -> Task]
    BY GivenTypes DEF Fewer, LookupFails, TypeOK, Task
<1>2. \A q \in Process : q # p => pc'[q] = pc[q] /\ task'[q] = task[q]
    BY <1>1, StepsAlone
<1>3. p \notin Proxies /\ HasGiven(task[p].mem, given)
    BY <1>1 DEF GivenInv, CopyOK, HoldsCopy
<1> DEFINE d == task[p].dom
           e == task[p].mem[d]
           usable == StaleAllowed /\ e.expires + Grace >= task[p].at /\ e.ips # {}
           n == [e EXCEPT !.error = TRUE]
           s == IF usable THEN "stale" ELSE "empty"
           i == IF usable THEN e.ips ELSE {}
<1>4. d \in Domain
    BY <1>1 DEF GivenInv, RouteInv, RecentInv, ProcessInv
<1>5. HasGiven(task'[p].mem, given)
  <2>1. CASE e # NoEntry
    <3>1. task' = [task EXCEPT ![p].mem[d] = n, ![p].source = s, ![p].ips = i]
        BY <2>1, Zenon DEF LookupFails
    <3>2. e \in Entry
        BY <1>1, <1>4, <2>1 DEF Cache
    <3>3. n \in Entry /\ n # NoEntry /\ n.ips = e.ips /\ n.expires = e.expires
        BY <3>2, DomainAssumption DEF Entry
    <3> HIDE DEF n, s, i, d
    <3>4. task'[p].mem = [task[p].mem EXCEPT ![d] = n]
        BY <1>1, <3>1 DEF Task
    <3>5. QED
        BY <1>1, <1>3, <3>3, <3>4 DEF HasGiven, Cache
  <2>2. CASE e = NoEntry
    <3>1. task' = [task EXCEPT ![p].source = "empty", ![p].ips = {}]
        BY <2>2, Zenon DEF LookupFails
    <3>2. QED
        BY <1>1, <1>3, <3>1 DEF Task
  <2>3. QED
      BY <2>1, <2>2
<1>6. CopyOK(p)'
    BY <1>3, <1>5 DEF CopyOK
<1>7. QED
    BY <1>1, <1>2, <1>6, GivesNothing

LEMMA TruncateGiven ==
    ASSUME GivenInv, RouteInv', UNCHANGED given, NEW p \in Process, Truncate(p)
    PROVE  GivenInv'
<1>1. /\ TypeOK /\ Fewer(given, given') /\ pc[p] = "truncate" /\ disk' = "truncated"
      /\ UNCHANGED task /\ pc'[p] = "write"
    BY GivenTypes, GotoType DEF Fewer, Truncate, Place
<1>2. \A q \in Process : q # p => pc'[q] = pc[q] /\ task'[q] = task[q]
    BY <1>1, StepsAlone
<1>3. CopyOK(p)'
    BY <1>1 DEF GivenInv, CopyOK, HoldsCopy
<1>4. QED
    BY <1>1, <1>2, <1>3, GivesNothing

(* A new answer for a domain takes the place of the one given for it; the  *)
(* copy has the others still.                                              *)
LEMMA AnswerGiven ==
    ASSUME GivenInv, RouteInv', NEW p \in Process, Answer(p) PROVE GivenInv'
<1>1. /\ TypeOK /\ RecentInv /\ UNCHANGED file /\ task[p] \in Task
      /\ task[p].mem \in Cache /\ Loaded \in Cache /\ task \in [Process -> Task]
      /\ task[p].at \in Time /\ now \in Time /\ given \in GivenType
    BY GivenTypes, LoadedType
    DEF GivenInv, RouteInv, Answer, LookupAnswers, LoadToStore, TypeOK, Task
<1>2. \A q \in Process : q # p => pc'[q] = pc[q] /\ task'[q] = task[q]
    BY <1>1, StepsAlone DEF Answer
<1> DEFINE d == task[p].dom
<1>3. PICK c \in Cache, ips \in Replies \ {{}}, t \in Time :
          /\ HasGiven(c, given) /\ d \in Domain
          /\ task'[p].mem = [c EXCEPT ![d] = LiveEntry(ips, t)] /\ task'[p].dom = d
          /\ pc[p] = "lookup" \/ p \in Proxies
  <2>1. CASE LookupAnswers(p)
    <3>1. PICK ips \in Replies \ {{}} :
              task' = [task EXCEPT ![p].mem[task[p].dom] = LiveEntry(ips, task[p].at),
                                   ![p].ips = ips, ![p].source = "live"]
        BY <2>1, Zenon DEF LookupAnswers
    <3> DEFINE e == LiveEntry(ips, task[p].at)
    <3>2. task' = [task EXCEPT ![p].mem[d] = e, ![p].ips = ips, ![p].source = "live"]
        BY <3>1
    <3> HIDE DEF e
    <3>3. task'[p].mem = [task[p].mem EXCEPT ![d] = e] /\ task'[p].dom = d
        BY <1>1, <3>2 DEF Task
    <3>4. pc[p] = "lookup" /\ d \in Domain /\ HasGiven(task[p].mem, given)
        BY <1>1, <2>1 DEF LookupAnswers, GivenInv, CopyOK, HoldsCopy, RecentInv, ProcessInv
    <3>5. QED
        BY <1>1, <3>3, <3>4 DEF e
  <2>2. CASE LoadToStore(p)
    <3>1. PICK ips \in Replies \ {{}} :
              task' = [task EXCEPT
                 ![p].mem = [Loaded EXCEPT ![task[p].dom] = LiveEntry(ips, now)],
                 ![p].at = now, ![p].ips = ips, ![p].source = "live"]
        BY <2>2 DEF LoadToStore
    <3> DEFINE m == [Loaded EXCEPT ![d] = LiveEntry(ips, now)]
    <3>2. task' = [task EXCEPT ![p].mem = m, ![p].at = now, ![p].ips = ips, ![p].source = "live"]
        BY <3>1
    <3> HIDE DEF m
    <3>3. task'[p].mem = m /\ task'[p].dom = d
        BY <1>1, <3>2 DEF Task
    <3>4. p \in Proxies /\ pc[p] = "load" /\ Readable
        BY <2>2 DEF LoadToStore
    <3>5. d \in Domain /\ HasGiven(Loaded, given)
        BY <1>1, <3>4, LoadedHas DEF RecentInv, ProcessInv
    <3>6. QED
        BY <1>1, <3>3, <3>4, <3>5 DEF m
  <2>3. QED
      BY <2>1, <2>2 DEF Answer
<1>4. given' = [given EXCEPT ![d] = NoEntry]
    BY <1>3 DEF Answer
<1>5. Fewer(given, given')
    BY <1>1, <1>4 DEF Fewer, GivenType
<1>6. HasGiven(task'[p].mem, given')
    BY <1>1, <1>3, <1>4 DEF HasGiven, Cache, GivenType
<1>7. task'[p].mem[d] # NoEntry /\ task'[p].mem[d].ips # {}
  <2>1. LiveEntry(ips, t) # NoEntry /\ LiveEntry(ips, t).ips = ips /\ ips # {}
      BY <1>3, LiveType, DomainAssumption DEF LiveEntry
  <2>2. QED
      BY <1>3, <2>1 DEF Cache
<1>8. pc'[p] = "truncate"
    BY <1>1, GotoType DEF Answer, LookupAnswers, LoadToStore, Place
<1>9. CopyOK(p)'
    BY <1>3, <1>6, <1>7, <1>8 DEF CopyOK
<1>10. QED
    BY <1>1, <1>2, <1>5, <1>9, GivesNothing

(* What is written has all that was given, and what is given now: nobody   *)
(* else holds a copy then.                                                 *)
LEMMA SaveGiven ==
    ASSUME GivenInv, RouteInv', NEW p \in Process, Save(p) PROVE GivenInv'
<1>1. /\ TypeOK /\ Write(p) /\ pc[p] = "write" /\ UNCHANGED task /\ given \in GivenType
    BY GivenTypes DEF Save, Write
<1>2. \A q \in Process : q # p => pc'[q] = pc[q] /\ task'[q] = task[q]
    BY <1>1, StepsAlone
<1>3. pc'[p] \in {"load", "done"}
    BY <1>1, GotoType DEF Write, NextDomain, Place
<1>4. CopyOK(p)'
    BY <1>3, HoldsNone
<1>5. disk' = "corrupt" \/ (disk' = "readable" /\ entries' = task[p].mem)
    BY <1>1 DEF Write
<1>6. HasGiven(task[p].mem, given)
    BY <1>1 DEF GivenInv, CopyOK, HoldsCopy
<1>7. CASE UNCHANGED given
  <2>1. \A q \in Process : CopyOK(q)'
      BY <1>2, <1>4, <1>7 DEF GivenInv, CopyOK, HoldsCopy
  <2>2. QED
      BY <1>5, <1>6, <1>7, <2>1 DEF GivenInv
<1>8. CASE /\ p \in Proxies /\ disk' = "readable"
           /\ \A q \in Process \ {p} : ~HoldsCopy(q)
           /\ given' = [given EXCEPT ![task[p].dom] = entries'[task[p].dom]]
  <2> DEFINE d == task[p].dom
  <2>1. entries' = task[p].mem /\ entries'[d] # NoEntry /\ entries'[d].ips # {}
      BY <1>1, <1>5, <1>8 DEF GivenInv, CopyOK
  <2>2. HasGiven(entries', given')
      BY <1>1, <1>6, <1>8, <2>1 DEF HasGiven, GivenType
  <2>3. \A q \in Process : CopyOK(q)'
      BY <1>2, <1>4, <1>8 DEF GivenInv, CopyOK, HoldsCopy
  <2>4. \A x \in Enabled : given'[x] # NoEntry => given'[x].ips # {}
      BY <1>1, <1>8, <2>1 DEF GivenInv, GivenType
  <2>5. QED
      BY <1>8, <2>2, <2>3, <2>4 DEF GivenInv
<1>9. QED
    BY <1>7, <1>8, Zenon DEF Save

LEMMA NextGiven == GivenInv /\ [RoutingNext]_routingVars => GivenInv'
<1>1. SUFFICES ASSUME GivenInv, [RoutingNext]_routingVars PROVE GivenInv'
    OBVIOUS
<1>2. RouteInv'
    BY <1>1, NextRoute DEF GivenInv
<1>3. CASE UNCHANGED routingVars \/ (Tick /\ UNCHANGED given)
    BY <1>1, <1>2, <1>3, GivenElsewhere DEF routingVars, vars, Tick
<1>4. CASE BeginPass \/ AddRule \/ EndPass
    BY <1>1, <1>2, <1>4, GivenElsewhere DEF BeginPass, AddRule, EndPass, vars
<1>5. CASE ResolvePolicy
  <2>1. /\ TypeOK /\ Service \in Process /\ Goto(Service, "load") /\ UNCHANGED <<file, given>>
        /\ Fewer(given, given')
      BY <1>1, <1>5, GivenTypes, ServiceIsOne DEF ResolvePolicy, Fewer
  <2>2. \A q \in Process : q # Service => pc'[q] = pc[q] /\ task'[q] = task[q]
      BY <1>5, <2>1, GotoType DEF ResolvePolicy, TypeOK, Place
  <2>3. CopyOK(Service)'
      BY <2>1, GotoType, HoldsNone DEF Place
  <2>4. QED
      BY <1>1, <1>2, <2>1, <2>2, <2>3, GivesNothing
<1>6. CASE EndPolicy \/ AbortPass
  <2>1. UNCHANGED given /\ Service \in Process
      BY <1>6, ServiceIsOne DEF EndPolicy, AbortPass
  <2>2. CASE End(Service) \/ Crash(Service)
      BY <1>1, <1>2, <2>1, <2>2, StopGiven
  <2>3. CASE UNCHANGED <<file, pc, task>>
      BY <1>1, <1>2, <2>1, <2>3, GivenElsewhere
  <2>4. QED
      BY <1>6, <2>2, <2>3 DEF EndPolicy, AbortPass
<1>7. ASSUME NEW p \in Process, CacheStep(p) PROVE GivenInv'
  <2>1. CASE Quiet(p)
    <3>1. UNCHANGED given
        BY <2>1 DEF Quiet
    <3>2. QED
        BY <1>1, <1>2, <2>1, <3>1, StopGiven, LoadToResolveGiven, LoadToPruneGiven,
           LookupFailsGiven, TruncateGiven
        DEF Quiet
  <2>2. QED
      BY <1>1, <1>2, <1>7, <2>1, AnswerGiven, SaveGiven DEF CacheStep
<1>8. ASSUME NEW p \in Process, Others(p) PROVE GivenInv'
    BY <1>1, <1>2, <1>8, StopGiven DEF Others
<1>9. QED
    BY <1>1, <1>3, <1>4, <1>5, <1>6, <1>7, <1>8 DEF RoutingNext, ServiceStep

LEMMA InitGiven == RoutingInit => GivenInv
<1>1. SUFFICES ASSUME RoutingInit PROVE GivenInv
    OBVIOUS
<1>2. given = [d \in Enabled |-> NoEntry] /\ \A p \in Process : pc[p] = "idle"
    BY <1>1 DEF RoutingInit, Init
<1>3. QED
    BY <1>1, <1>2, InitRoute DEF GivenInv, HasGiven, CopyOK, HoldsCopy

(* dns_cache.rs:46-171.  What the proxy has given to a client stays in the *)
(* file, as long as that can be read, until an answer takes its place: for *)
(* any number of programs, any lookups, kills and failing saves.           *)
THEOREM GivenRepliesStay == RoutingSpec => []GivenStays
<1>1. GivenInv => GivenStays
    BY DEF GivenInv, HasGiven, GivenStays
<1>2. QED
    BY <1>1, InitGiven, NextGiven, PTL DEF RoutingSpec

(* dns_cache.rs:61-72 with dns_proxy.rs:164-173.  A policy that is         *)
(* resolved before such a reply expires gets the addresses of the reply.   *)
THEOREM PoliciesUseGiven == RoutingSpec => ReconcileUsesGiven
<1> DEFINE Uses == \A d \in Enabled : Resolves(d) /\ given[d] # NoEntry /\ given[d].expires > now =>
                      pc'[Service] = "done" /\ Dom' = d /\ Ips' = given[d].ips
<1>1. GivenInv /\ [RoutingNext]_routingVars => [Uses]_routingVars
  <2>1. SUFFICES ASSUME GivenInv, RoutingNext, NEW d \in Enabled, Resolves(d),
                        given[d] # NoEntry, given[d].expires > now
                 PROVE  pc'[Service] = "done" /\ Dom' = d /\ Ips' = given[d].ips
      OBVIOUS
  <2>2. /\ TypeOK /\ Service \in Process /\ Service \in Runtimes /\ Service \notin Proxies
        /\ Service \notin Pruners
      BY <2>1, GivenTypes, ServiceIsOne, RoutingAssumption
  <2>3. LoadToResolve(Service)
    <3>1. ASSUME NEW p \in Process, CacheStep(p) \/ Others(p) PROVE p = Service
      <4>1. SUFFICES ASSUME p # Service PROVE pc'[Service] = pc[Service]
          BY <2>1 DEF Resolves
      <4>2. QED
          BY <2>2, <3>1, <4>1, StepsAlone DEF CacheStep, Quiet, Answer, Save, Others
    <3>2. pc[Service] = "load" /\ pc'[Service] \in {"lookup", "done"} /\ Readable
        BY <2>1 DEF Resolves
    <3>3. ~BeginPass /\ ~AddRule /\ ~EndPass /\ ~Tick
        BY <3>2 DEF BeginPass, AddRule, EndPass, Tick, vars
    <3>4. ~ResolvePolicy /\ ~EndPolicy
        BY <3>2 DEF ResolvePolicy, Busy, EndPolicy, End
    <3>5. ~AbortPass
        BY <2>2, <3>2, GotoType DEF AbortPass, Crash, Place, Busy
    <3>6. CacheStep(Service)
        BY <2>1, <3>1, <3>3, <3>4, <3>5 DEF RoutingNext, ServiceStep, Others
    <3>7. QED
        BY <2>2, <3>2, <3>6
        DEF CacheStep, Quiet, Answer, Save, LoadFails, LoadToPrune, LookupFails, Truncate,
            SaveFails, LookupAnswers, LoadToStore, Write
  <2>4. /\ task[Service].todo = {d} /\ HasGiven(Loaded, given) /\ given[d].ips # {}
        /\ task[Service] \in Task /\ task \in [Process -> Task]
      BY <2>1, <2>2, LoadedHas DEF Resolves, GivenInv, TypeOK
  <2>5. IsFresh(Loaded[d]) /\ Loaded[d].ips = given[d].ips
      BY <2>1, <2>4 DEF HasGiven, IsFresh
  <2>6. LET t == [task[Service] EXCEPT !.dom = d, !.todo = @ \ {d}, !.mem = Loaded, !.at = now]
        IN /\ task' = [task EXCEPT ![Service] =
                           [t EXCEPT !.source = "fresh", !.ips = Loaded[d].ips]]
           /\ Goto(Service, "done")
      BY <2>2, <2>3, <2>4, <2>5 DEF LoadToResolve
  <2>7. pc'[Service] = "done"
      BY <2>2, <2>6, GotoType DEF Place
  <2>8. Dom' = d /\ Ips' = Loaded[d].ips
      BY <2>2, <2>4, <2>6 DEF Dom, Ips, Task
  <2>9. QED
      BY <2>5, <2>7, <2>8
<1>2. RoutingSpec => [][Uses]_routingVars
    BY <1>1, InitGiven, NextGiven, PTL DEF RoutingSpec
<1>3. QED
    BY <1>2 DEF ReconcileUsesGiven
=============================================================================
