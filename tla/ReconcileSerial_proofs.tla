---------------------- MODULE ReconcileSerial_proofs ----------------------
(***************************************************************************)
(* Proofs about Reconcile where the operator starts a process only when no *)
(* other one runs, as scripts/reload-policy.sh does: routes and rules are  *)
(* in place before anything is marked, the chain keeps its order (the      *)
(* refinement of PolicyChain) and is what the configuration calls for, and *)
(* a cleanup leaves nothing.                                               *)
(***************************************************************************)
EXTENDS Reconcile_proofs, SequenceTheorems

(* No two processes run at the same time.                                  *)
OneBusy == \A p, q \in Process : pc[p] # "off" /\ pc[q] # "off" => p = q

(* Only p takes a step, and it was running or nothing was.                 *)
Turn(p) ==
    /\ \A q \in Process : q # p => pc'[q] = pc[q] /\ work'[q] = work[q] /\ conf'[q] = conf[q]
    /\ pc[p] # "off" \/ \A q \in Process : pc[q] = "off"

(* e's table holds the route that p chose, or the kernel has removed it.   *)
RouteKept(p, e) == routes[e] \in {work[p].addr[e], Dropped}

(* What a reconcile has installed so far.                                  *)
InstalledOK(p) ==
    /\ pc[p] \in {"route", "listRules", "addRule"} =>
          \A e \in Healthy(p) \ work[p].todo : e \in ipRules /\ RouteKept(p, e)
    /\ pc[p] \in {"listRules", "addRule"} => RouteKept(p, work[p].cur)
    /\ pc[p] \in {"flush", "policy", "add"} =>
          \A e \in Healthy(p) : e \in ipRules /\ RouteKept(p, e)

(* What a cleanup without a failure of its own has deleted so far.         *)
CleanOK(p) == p \in Cleaners =>
    /\ pc[p] \in {"off", "dropTable", "dropList"} => work[p].idx = 1
    /\ ~work[p].lost =>
          /\ pc[p] \in {"dropList", "dropRules", "dropRoutes", "cleaned"} =>
                nft = "absent" /\ chain = <<>>
          /\ pc[p] = "dropRules" =>
                \A i \in DOMAIN Egresses(p) : Egresses(p)[i] \in ipRules =>
                    i >= work[p].idx /\ Egresses(p)[i] \in work[p].todo
          /\ pc[p] \in {"dropRoutes", "cleaned"} =>
                \A i \in DOMAIN Egresses(p) : Egresses(p)[i] \notin ipRules
          /\ pc[p] = "dropRoutes" =>
                \A i \in DOMAIN Egresses(p) : i < work[p].idx => routes[Egresses(p)[i]] = NoAddr
          /\ pc[p] = "cleaned" =>
                \A i \in DOMAIN Egresses(p) : routes[Egresses(p)[i]] = NoAddr

(* While a reconcile fills the chain, all rules are of policies up to its  *)
(* own position in its configuration.                                      *)
ChainOK(p) ==
    Building(p) =>
        \A i \in DOMAIN chain : \E k \in DOMAIN Policies[conf[p]] :
            k <= work[p].idx /\ Policies[conf[p]][k] = chain[i].policy

SerialInv ==
    /\ LocalInv /\ OneBusy
    /\ \A p \in Process : InstalledOK(p) /\ CleanOK(p) /\ ChainOK(p)

(* The places where one of the three says something.                       *)
Held == {"route", "listRules", "addRule", "flush", "policy", "add",
         "off", "dropTable", "dropList", "dropRules", "dropRoutes", "cleaned"}

-----------------------------------------------------------------------------
(* How the invariant is carried through a step.                            *)

(* A process that does not run knows nothing of the kernel.                *)
LEMMA OffOK ==
    ASSUME SerialInv, NEW q \in Process, pc[q] = "off", pc'[q] = "off", work'[q] = work[q]
    PROVE  (InstalledOK(q) /\ CleanOK(q) /\ ChainOK(q))'
BY DEF SerialInv, InstalledOK, CleanOK, ChainOK, Building

(* In a turn of p the others are off, and stay so.                         *)
LEMMA OthersOff ==
    ASSUME SerialInv, NEW p \in Process, Turn(p), NEW q \in Process, q # p
    PROVE  pc[q] = "off" /\ pc'[q] = "off" /\ work'[q] = work[q]
BY DEF SerialInv, OneBusy, Turn

LEMMA TurnKeeps ==
    ASSUME SerialInv, LocalInv', NEW p \in Process, Turn(p),
           (InstalledOK(p) /\ CleanOK(p) /\ ChainOK(p))'
    PROVE  SerialInv'
<1>1. OneBusy'
    BY OthersOff DEF OneBusy
<1>2. ASSUME NEW q \in Process PROVE (InstalledOK(q) /\ CleanOK(q) /\ ChainOK(q))'
  <2>1. CASE q = p
      BY <2>1
  <2>2. CASE q # p
      BY <2>2, OthersOff, OffOK
  <2>3. QED
      BY <2>1, <2>2
<1>3. QED
    BY <1>1, <1>2 DEF SerialInv

(* A reconciler that moves to a place where nothing is held.               *)
LEMMA PlainTurn ==
    ASSUME SerialInv, LocalInv', NEW p \in Process, p \notin Cleaners, Turn(p),
           pc'[p] \notin Held \/ pc'[p] = "off"
    PROVE  SerialInv'
<1>1. (InstalledOK(p) /\ CleanOK(p) /\ ChainOK(p))'
    BY DEF InstalledOK, CleanOK, ChainOK, Building, Held
<1>2. QED
    BY <1>1, TurnKeeps

LEMMA FailTurn ==
    ASSUME SerialInv, LocalInv', NEW p \in Process, p \notin Cleaners, pc[p] # "off",
           Fail(p) \/ Finish(p), UNCHANGED conf
    PROVE  SerialInv'
<1>1. Turn(p) /\ pc'[p] \in {"off", "failed", "sleep"}
    BY FailType, FinishType DEF SerialInv, LocalInv, Turn
<1>2. QED
    BY <1>1, PlainTurn DEF Held

-----------------------------------------------------------------------------
(* Each action of a reconcile preserves the invariant.                     *)

LEMMA PrepareSerial ==
    ASSUME SerialInv, LocalInv', NEW p \in Process,
           \/ Wake(p) \/ CheckTable(p) \/ AddTable(p) \/ CheckChain(p) \/ AddChain(p)
           \/ CheckHealth(p) \/ InspectRoute(p) \/ InspectAddr(p)
    PROVE  SerialInv'
<1>1. /\ TypeOK /\ pc[p] \in ReconcileLabels \cup {"sleep"} /\ pc[p] # "off"
      /\ pc[p] \notin Held /\ UNCHANGED conf
    BY DEF SerialInv, LocalInv, Wake, CheckTable, AddTable, CheckChain, AddChain, CheckHealth,
           InspectRoute, InspectAddr, ReconcileLabels, Held
<1>2. p \notin Cleaners
    BY <1>1, ReconcilerLabels
<1>3. CASE Fail(p)
    BY <1>1, <1>2, <1>3, FailTurn
<1>4. CASE ~Fail(p)
  <2>1. pc \in [Process -> Label] /\ work \in [Process -> Work]
      BY <1>1 DEF TypeOK, ProcessOK
  <2>2. /\ \/ UNCHANGED pc
           \/ \E l \in {"table", "addTable", "chain", "addChain", "health", "inspect",
                        "inspectAddr"} : Goto(p, l)
        /\ \/ UNCHANGED work
           \/ \E a : work' = [work EXCEPT ![p].seen = a]
           \/ \E a : Checked(p, a)
      BY <1>4 DEF Wake, CheckTable, AddTable, CheckChain, AddChain, CheckHealth, InspectRoute,
                  InspectAddr
  <2>3. Turn(p) /\ pc'[p] \notin Held
      BY <1>1, <2>1, <2>2 DEF Turn, Goto, Checked, Held
  <2>4. QED
      BY <1>2, <2>3, PlainTurn
<1>5. QED
    BY <1>3, <1>4

LEMMA HealthKnownSerial ==
    ASSUME SerialInv, LocalInv', NEW p \in Process, HealthKnown(p) PROVE SerialInv'
<1>1. /\ TypeOK /\ pc[p] = "health" /\ UNCHANGED conf
      /\ work' = [work EXCEPT ![p].todo = Healthy(p)]
      /\ pc \in [Process -> Label] /\ work \in [Process -> Work]
    BY DEF SerialInv, LocalInv, HealthKnown, TypeOK, ProcessOK
<1>2. p \notin Cleaners
    BY <1>1, ReconcilerLabels DEF ReconcileLabels
<1>3. PICK l \in {"route", "flushAll", "flush"} :
          Goto(p, l) /\ (l # "route" => Healthy(p) = {})
    BY DEF HealthKnown
<1>4. pc'[p] = l /\ Turn(p)
    BY <1>1, <1>3 DEF Goto, Turn
<1>5. work'[p].todo = Healthy(p) /\ Healthy(p)' = Healthy(p)
    BY <1>1 DEF Healthy, Work
<1>6. (InstalledOK(p) /\ CleanOK(p) /\ ChainOK(p))'
    BY <1>2, <1>3, <1>4, <1>5 DEF InstalledOK, CleanOK, ChainOK, Building
<1>7. QED
    BY <1>4, <1>6, TurnKeeps

LEMMA ReplaceRouteSerial ==
    ASSUME SerialInv, LocalInv', NEW p \in Process, ReplaceRoute(p) PROVE SerialInv'
<1>1. /\ TypeOK /\ pc[p] = "route" /\ UNCHANGED <<conf, ipRules>>
      /\ pc \in [Process -> Label] /\ work \in [Process -> Work]
      /\ routes \in [Egress -> Addr \cup {NoAddr, Dropped}]
    BY DEF SerialInv, LocalInv, ReplaceRoute, TypeOK, ProcessOK, KernelOK
<1>2. p \notin Cleaners
    BY <1>1, ReconcilerLabels DEF ReconcileLabels
<1>3. CASE Fail(p)
    BY <1>1, <1>2, <1>3, FailTurn
<1>4. ASSUME NEW e \in work[p].todo, routes' = [routes EXCEPT ![e] = work[p].addr[e]],
             work' = [work EXCEPT ![p].cur = e], Goto(p, "listRules")
      PROVE  SerialInv'
  <2>1. pc'[p] = "listRules" /\ Turn(p)
      BY <1>1, <1>4 DEF Goto, Turn
  <2>2. /\ work'[p].todo = work[p].todo /\ work'[p].addr = work[p].addr /\ work'[p].cur = e
        /\ Healthy(p)' = Healthy(p) /\ e \in Egress
      BY <1>1, <1>4 DEF Healthy, Work
  <2>3. ASSUME NEW f \in Healthy(p) \ work[p].todo PROVE f \in ipRules' /\ RouteKept(p, f)'
    <3>1. f \in ipRules /\ RouteKept(p, f)
        BY <1>1, <2>3 DEF SerialInv, InstalledOK
    <3>2. f # e /\ f \in Egress
        BY <2>3 DEF Healthy
    <3>3. QED
        BY <1>1, <1>4, <2>2, <3>1, <3>2 DEF RouteKept
  <2>4. RouteKept(p, work[p].cur)'
      BY <1>1, <1>4, <2>2 DEF RouteKept
  <2>5. (InstalledOK(p) /\ CleanOK(p) /\ ChainOK(p))'
      BY <1>2, <2>1, <2>2, <2>3, <2>4 DEF InstalledOK, CleanOK, ChainOK, Building
  <2>6. QED
      BY <2>1, <2>5, TurnKeeps
<1>5. QED
    BY <1>3, <1>4 DEF ReplaceRoute

(* The egress in hand has its rule: one less to install.                   *)
LEMMA InstalledSerial ==
    ASSUME SerialInv, LocalInv', NEW p \in Process, p \notin Cleaners,
           pc[p] \in {"listRules", "addRule"}, Installed(p),
           ipRules' = ipRules \cup {work[p].cur}, UNCHANGED <<routes, conf>>
    PROVE  SerialInv'
<1> DEFINE rest == work[p].todo \ {work[p].cur}
<1>1. pc \in [Process -> Label] /\ work \in [Process -> Work]
    BY DEF SerialInv, LocalInv, TypeOK, ProcessOK
<1>2. /\ pc'[p] \in {"flush", "route"} /\ (pc'[p] = "flush" => rest = {})
      /\ work' = [work EXCEPT ![p].todo = rest] /\ Turn(p)
    BY <1>1 DEF Installed, Goto, Turn
<1>3. work'[p].todo = rest /\ work'[p].addr = work[p].addr /\ Healthy(p)' = Healthy(p)
    BY <1>1, <1>2 DEF Healthy, Work
<1>4. \A e \in Healthy(p) \ rest : e \in ipRules' /\ RouteKept(p, e)'
    BY <1>3 DEF SerialInv, InstalledOK, RouteKept
<1>5. (InstalledOK(p) /\ CleanOK(p) /\ ChainOK(p))'
    BY <1>2, <1>3, <1>4 DEF InstalledOK, CleanOK, ChainOK, Building
<1>6. QED
    BY <1>2, <1>5, TurnKeeps

LEMMA ListRulesSerial ==
    ASSUME ExactListing, SerialInv, LocalInv', NEW p \in Process, ListRules(p)
    PROVE  SerialInv'
<1>1. /\ TypeOK /\ pc[p] = "listRules" /\ UNCHANGED <<ipRules, routes, conf>>
      /\ pc \in [Process -> Label] /\ work[p] \in Work /\ work[p].cur \in work[p].todo
    BY DEF SerialInv, LocalInv, LocalOK, ListRules, kernel, TypeOK, ProcessOK
<1>2. p \notin Cleaners
    BY <1>1, ReconcilerLabels DEF ReconcileLabels
<1>3. CASE LooksPresent(work[p].cur) /\ Installed(p)
  <2>1. work[p].cur \in Egress /\ ipRules \subseteq Egress
      BY <1>1 DEF Work, TypeOK, KernelOK
  <2>2. work[p].cur \in ipRules
      BY <1>3, <2>1 DEF ExactListing, LooksPresent
  <2>3. ipRules' = ipRules \cup {work[p].cur}
      BY <1>1, <2>2
  <2>4. QED
      BY <1>1, <1>2, <1>3, <2>3, InstalledSerial
<1>4. CASE Goto(p, "addRule") /\ UNCHANGED work
  <2>1. pc'[p] = "addRule" /\ Turn(p)
      BY <1>1, <1>4 DEF Goto, Turn
  <2>2. (InstalledOK(p) /\ CleanOK(p) /\ ChainOK(p))'
      BY <1>1, <1>2, <1>4, <2>1
      DEF SerialInv, InstalledOK, RouteKept, Healthy, CleanOK, ChainOK, Building
  <2>3. QED
      BY <2>1, <2>2, TurnKeeps
<1>5. QED
    BY <1>3, <1>4 DEF ListRules

LEMMA AddRuleSerial ==
    ASSUME SerialInv, LocalInv', NEW p \in Process, AddRule(p) PROVE SerialInv'
<1>1. TypeOK /\ pc[p] = "addRule" /\ UNCHANGED <<routes, conf>>
    BY DEF SerialInv, LocalInv, AddRule
<1>2. p \notin Cleaners
    BY <1>1, ReconcilerLabels DEF ReconcileLabels
<1>3. CASE Fail(p)
    BY <1>1, <1>2, <1>3, FailTurn
<1>4. CASE Installed(p) /\ ipRules' = ipRules \cup {work[p].cur}
    BY <1>1, <1>2, <1>4, InstalledSerial
<1>5. QED
    BY <1>3, <1>4 DEF AddRule

LEMMA FinishSerial ==
    ASSUME SerialInv, LocalInv', NEW p \in Process, FlushAll(p) \/ EndPolicies(p)
    PROVE  SerialInv'
<1>1. /\ TypeOK /\ pc[p] \in {"flushAll", "policy"} /\ UNCHANGED conf
      /\ Finish(p) \/ Fail(p)
    BY DEF SerialInv, LocalInv, FlushAll, EndPolicies
<1>2. p \notin Cleaners
    BY <1>1, ReconcilerLabels DEF ReconcileLabels
<1>3. QED
    BY <1>1, <1>2, FailTurn

LEMMA FlushSerial ==
    ASSUME SerialInv, LocalInv', NEW p \in Process, Flush(p) PROVE SerialInv'
<1>1. /\ TypeOK /\ pc[p] = "flush" /\ UNCHANGED <<ipRules, routes, conf>>
      /\ pc \in [Process -> Label] /\ work \in [Process -> Work]
    BY DEF SerialInv, LocalInv, Flush, TypeOK, ProcessOK
<1>2. p \notin Cleaners
    BY <1>1, ReconcilerLabels DEF ReconcileLabels
<1>3. CASE Fail(p)
    BY <1>1, <1>2, <1>3, FailTurn
<1>4. CASE chain' = <<>> /\ work' = [work EXCEPT ![p].idx = 1] /\ Goto(p, "policy")
  <2>1. pc'[p] = "policy" /\ Turn(p)
      BY <1>1, <1>4 DEF Goto, Turn
  <2>2. work'[p].addr = work[p].addr /\ Healthy(p)' = Healthy(p)
      BY <1>1, <1>4 DEF Healthy, Work
  <2>3. InstalledOK(p)'
      BY <1>1, <2>1, <2>2 DEF SerialInv, InstalledOK, RouteKept
  <2>4. CleanOK(p)' /\ ChainOK(p)'
      BY <1>2, <1>4 DEF CleanOK, ChainOK
  <2>5. QED
      BY <2>1, <2>3, <2>4, TurnKeeps
<1>5. QED
    BY <1>3, <1>4 DEF Flush

LEMMA ChooseSerial ==
    ASSUME SerialInv, LocalInv', NEW p \in Process, SkipPolicy(p) \/ Resolve(p)
    PROVE  SerialInv'
<1>1. /\ TypeOK /\ pc[p] = "policy" /\ UNCHANGED <<chain, ipRules, routes, conf>>
      /\ pc \in [Process -> Label] /\ work \in [Process -> Work]
    BY DEF SerialInv, LocalInv, SkipPolicy, Resolve, kernel, TypeOK, ProcessOK
<1>2. p \notin Cleaners
    BY <1>1, ReconcilerLabels DEF ReconcileLabels
<1>3. /\ \/ work' = [work EXCEPT ![p].idx = work[p].idx + 1]
         \/ \E ds : work' = [work EXCEPT ![p].pend = ds]
      /\ UNCHANGED pc \/ Goto(p, "add")
    BY DEF SkipPolicy, Resolve
<1>4. Turn(p) /\ pc'[p] \in {"policy", "add"}
    BY <1>1, <1>3 DEF Goto, Turn
<1>5. /\ work'[p].addr = work[p].addr /\ work[p].idx \in Nat
      /\ work'[p].idx \in {work[p].idx, work[p].idx + 1}
    BY <1>1, <1>3 DEF Work
<1>6. InstalledOK(p)'
    BY <1>1, <1>4, <1>5 DEF SerialInv, InstalledOK, RouteKept, Healthy
<1>7. CleanOK(p)'
    BY <1>2 DEF CleanOK
<1>8. ChainOK(p)'
  <2>1. ChainOK(p) /\ Building(p)
      BY <1>1 DEF SerialInv, Building
  <2>2. Policies[conf[p]] \in Seq(Policy)
      BY <1>1, ConfigAssumption DEF TypeOK, ProcessOK
  <2>3. ASSUME NEW k \in DOMAIN Policies[conf[p]], k <= work[p].idx PROVE k <= work'[p].idx
    <3>1. k \in Nat
        BY <2>2
    <3>2. QED
        BY <1>5, <2>3, <3>1
  <2>4. QED
      BY <1>1, <2>1, <2>3 DEF ChainOK
<1>9. QED
    BY <1>4, <1>6, <1>7, <1>8, TurnKeeps

(* The rule appended is of the policy p is at.                             *)
LEMMA AppendedPolicy ==
    ASSUME TypeOK, NEW r, chain' = Append(chain, r), NEW i \in DOMAIN chain'
    PROVE  chain'[i] = r \/ (i \in DOMAIN chain /\ chain'[i] = chain[i])
BY DEF TypeOK, KernelOK

LEMMA AddPolicyRuleSerial ==
    ASSUME SerialInv, LocalInv', NEW p \in Process, AddPolicyRule(p) PROVE SerialInv'
<1>1. /\ TypeOK /\ pc[p] = "add" /\ UNCHANGED <<ipRules, routes, conf>>
      /\ pc \in [Process -> Label] /\ work \in [Process -> Work]
    BY DEF SerialInv, LocalInv, AddPolicyRule, TypeOK, ProcessOK
<1>2. p \notin Cleaners
    BY <1>1, ReconcilerLabels DEF ReconcileLabels
<1>3. CASE Fail(p)
    BY <1>1, <1>2, <1>3, FailTurn
<1> DEFINE r == RuleFor(PolicyAt(p), Head(work[p].pend))
<1>4. CASE /\ chain' = Append(chain, r)
           /\ \/ work' = [work EXCEPT ![p].pend = Tail(work[p].pend)] /\ UNCHANGED pc
              \/ /\ work' = [work EXCEPT ![p].pend = Tail(work[p].pend), ![p].idx = @ + 1]
                 /\ Goto(p, "policy")
  <2>1. Turn(p) /\ pc'[p] \in {"policy", "add"}
      BY <1>1, <1>4 DEF Goto, Turn
  <2>2. /\ work'[p].addr = work[p].addr /\ work[p].idx \in Nat \ {0}
        /\ work'[p].idx \in {work[p].idx, work[p].idx + 1}
      BY <1>1, <1>4 DEF Work
  <2>3. InstalledOK(p)'
      BY <1>1, <2>1, <2>2 DEF SerialInv, InstalledOK, RouteKept, Healthy
  <2>4. CleanOK(p)'
      BY <1>2 DEF CleanOK
  <2>5. ChainOK(p)'
    <3>1. ChainOK(p) /\ Building(p) /\ work[p].idx <= Len(Policies[conf[p]])
        BY <1>1 DEF SerialInv, LocalInv, LocalOK, Building
    <3>2. Policies[conf[p]] \in Seq(Policy) /\ work[p].idx \in DOMAIN Policies[conf[p]]
        BY <1>1, <2>2, <3>1, ConfigAssumption DEF TypeOK, ProcessOK
    <3>3. ASSUME NEW i \in DOMAIN chain'
          PROVE  \E k \in DOMAIN Policies[conf[p]] :
                    k <= work'[p].idx /\ Policies[conf[p]][k] = chain'[i].policy
      <4>1. CASE chain'[i] = r
        <5>1. r.policy = Policies[conf[p]][work[p].idx]
            BY DEF RuleFor, PolicyAt
        <5>2. work[p].idx <= work'[p].idx
            BY <2>2
        <5>3. QED
            BY <3>2, <4>1, <5>1, <5>2
      <4>2. CASE i \in DOMAIN chain /\ chain'[i] = chain[i]
        <5>1. PICK k \in DOMAIN Policies[conf[p]] :
                  k <= work[p].idx /\ Policies[conf[p]][k] = chain[i].policy
            BY <3>1, <4>2 DEF ChainOK
        <5>2. k \in Nat
            BY <3>2
        <5>3. k <= work'[p].idx
            BY <2>2, <5>1, <5>2
        <5>4. QED
            BY <4>2, <5>1, <5>3
      <4>3. QED
          BY <1>1, <1>4, <4>1, <4>2, AppendedPolicy
    <3>4. QED
        BY <1>1, <3>3 DEF ChainOK
  <2>6. QED
      BY <2>1, <2>3, <2>4, <2>5, TurnKeeps
<1>5. QED
    BY <1>3, <1>4 DEF AddPolicyRule

-----------------------------------------------------------------------------
(* The steps of a cleanup.                                                 *)

LEMMA DropTableSerial ==
    ASSUME SerialInv, LocalInv', NEW p \in Process, DropTable(p) PROVE SerialInv'
<1>1. /\ TypeOK /\ pc[p] = "dropTable" /\ nft' = "absent" /\ chain' = <<>>
      /\ UNCHANGED <<ipRules, routes, conf, work>> /\ Goto(p, "dropList")
      /\ pc \in [Process -> Label]
    BY DEF SerialInv, LocalInv, DropTable, TypeOK, ProcessOK
<1>2. p \in Cleaners
    BY <1>1, CleanerLabels DEF CleanupLabels
<1>3. Turn(p) /\ pc'[p] = "dropList"
    BY <1>1 DEF Turn, Goto
<1>4. (InstalledOK(p) /\ CleanOK(p) /\ ChainOK(p))'
    BY <1>1, <1>2, <1>3 DEF SerialInv, InstalledOK, CleanOK, ChainOK, Building
<1>5. QED
    BY <1>3, <1>4, TurnKeeps

LEMMA ListForDropSerial ==
    ASSUME ExactListing, SerialInv, LocalInv', NEW p \in Process, ListForDrop(p)
    PROVE  SerialInv'
<1> DEFINE listed == {e \in RangeOf(Egresses(p)) : LooksPresent(e)}
<1>1. /\ TypeOK /\ pc[p] = "dropList" /\ UNCHANGED <<nft, chain, ipRules, routes, conf>>
      /\ work' = [work EXCEPT ![p].todo = listed] /\ Goto(p, "dropRules")
      /\ pc \in [Process -> Label] /\ work \in [Process -> Work]
    BY DEF SerialInv, LocalInv, ListForDrop, kernel, TypeOK, ProcessOK
<1>2. p \in Cleaners
    BY <1>1, CleanerLabels DEF CleanupLabels
<1>3. Turn(p) /\ pc'[p] = "dropRules"
    BY <1>1 DEF Turn, Goto
<1>4. /\ work'[p].todo = listed /\ work'[p].idx = 1 /\ work'[p].lost = work[p].lost
      /\ Egresses(p)' = Egresses(p)
    BY <1>1, <1>2 DEF SerialInv, CleanOK, Work, Egresses
<1>5. ASSUME NEW i \in DOMAIN Egresses(p), Egresses(p)[i] \in ipRules
      PROVE  i >= 1 /\ Egresses(p)[i] \in listed
  <2>1. Egresses(p) \in Seq(Egress)
      BY <1>1, ConfigAssumption DEF TypeOK, ProcessOK, Egresses
  <2>2. Egresses(p)[i] \in Egress /\ i >= 1
      BY <1>5, <2>1
  <2>3. LooksPresent(Egresses(p)[i])
      BY <1>5, <2>2 DEF LooksPresent, ExactListing
  <2>4. QED
      BY <2>2, <2>3 DEF RangeOf
<1>6. (InstalledOK(p) /\ CleanOK(p) /\ ChainOK(p))'
    BY <1>1, <1>2, <1>3, <1>4, <1>5
    DEF SerialInv, InstalledOK, CleanOK, ChainOK, Building
<1>7. QED
    BY <1>3, <1>6, TurnKeeps

(* The loops over the egresses of the file have positions within it.       *)
LEMMA Positions ==
    ASSUME TypeOK, NEW p \in Process
    PROVE  /\ DOMAIN Egresses(p) = 1..Len(Egresses(p)) /\ Len(Egresses(p)) \in Nat
           /\ \A i \in DOMAIN Egresses(p) : Egresses(p)[i] \in Egress
           /\ work[p].idx \in Nat \ {0}
<1>1. Egresses(p) \in Seq(Egress)
    BY ConfigAssumption DEF TypeOK, ProcessOK, Egresses
<1>2. QED
    BY <1>1 DEF TypeOK, ProcessOK, Work

LEMMA DropRuleSerial ==
    ASSUME SerialInv, LocalInv', NEW p \in Process, DropRule(p) PROVE SerialInv'
<1>1. /\ TypeOK /\ pc[p] = "dropRules" /\ UNCHANGED <<nft, chain, routes, conf>>
      /\ pc \in [Process -> Label] /\ work \in [Process -> Work]
    BY DEF SerialInv, LocalInv, DropRule, TypeOK, ProcessOK
<1>2. p \in Cleaners /\ Egresses(p)' = Egresses(p)
    BY <1>1, CleanerLabels DEF CleanupLabels, Egresses
<1> DEFINE Eg == Egresses(p)
<1>3. CASE /\ work[p].idx <= Len(Egresses(p))
           /\ ipRules' = ipRules \ ({EgressAt(p)} \cap work[p].todo)
           /\ work' = [work EXCEPT ![p].idx = @ + 1] /\ UNCHANGED pc
  <2>1. Turn(p) /\ pc'[p] = "dropRules"
      BY <1>1, <1>3 DEF Turn
  <2>2. /\ work'[p].idx = work[p].idx + 1 /\ work'[p].todo = work[p].todo
        /\ work'[p].lost = work[p].lost
      BY <1>1, <1>3 DEF Work
  <2>3. ASSUME ~work[p].lost, NEW i \in DOMAIN Eg, Eg[i] \in ipRules'
        PROVE  i >= work[p].idx + 1 /\ Eg[i] \in work[p].todo
    <3>1. Eg[i] \in ipRules /\ i >= work[p].idx /\ Eg[i] \in work[p].todo
        BY <1>1, <1>2, <1>3, <2>3 DEF SerialInv, CleanOK
    <3>2. i # work[p].idx
        BY <1>3, <2>3, <3>1 DEF EgressAt
    <3>3. QED
        BY <1>1, <3>1, <3>2, Positions
  <2>4. (InstalledOK(p) /\ CleanOK(p) /\ ChainOK(p))'
      BY <1>1, <1>2, <2>1, <2>2, <2>3
      DEF SerialInv, InstalledOK, CleanOK, ChainOK, Building
  <2>5. QED
      BY <2>1, <2>4, TurnKeeps
<1>4. CASE /\ work[p].idx > Len(Egresses(p))
           /\ work' = [work EXCEPT ![p].idx = 1]
           /\ Goto(p, "dropRoutes") /\ UNCHANGED ipRules
  <2>1. Turn(p) /\ pc'[p] = "dropRoutes"
      BY <1>1, <1>4 DEF Turn, Goto
  <2>2. work'[p].idx = 1 /\ work'[p].lost = work[p].lost
      BY <1>1, <1>4 DEF Work
  <2>3. ASSUME ~work[p].lost, NEW i \in DOMAIN Eg PROVE Eg[i] \notin ipRules
      BY <1>1, <1>2, <1>4, <2>3, Positions DEF SerialInv, CleanOK
  <2>4. \A i \in DOMAIN Eg : ~(i < 1)
      BY <1>1, Positions
  <2>5. (InstalledOK(p) /\ CleanOK(p) /\ ChainOK(p))'
      BY <1>1, <1>2, <1>4, <2>1, <2>2, <2>3, <2>4
      DEF SerialInv, InstalledOK, CleanOK, ChainOK, Building
  <2>6. QED
      BY <2>1, <2>5, TurnKeeps
<1>5. QED
    BY <1>3, <1>4 DEF DropRule

LEMMA DropRouteSerial ==
    ASSUME SerialInv, LocalInv', NEW p \in Process, DropRoute(p) PROVE SerialInv'
<1>1. /\ TypeOK /\ pc[p] = "dropRoutes" /\ UNCHANGED <<nft, chain, ipRules, conf>>
      /\ pc \in [Process -> Label] /\ work \in [Process -> Work]
      /\ routes \in [Egress -> Addr \cup {NoAddr, Dropped}]
    BY DEF SerialInv, LocalInv, DropRoute, TypeOK, ProcessOK, KernelOK
<1>2. p \in Cleaners /\ Egresses(p)' = Egresses(p)
    BY <1>1, CleanerLabels DEF CleanupLabels, Egresses
<1> DEFINE Eg == Egresses(p)
<1>3. CASE /\ work[p].idx <= Len(Egresses(p))
           /\ routes' = [routes EXCEPT ![EgressAt(p)] = NoAddr]
           /\ work' = [work EXCEPT ![p].idx = @ + 1] /\ UNCHANGED pc
  <2>1. Turn(p) /\ pc'[p] = "dropRoutes"
      BY <1>1, <1>3 DEF Turn
  <2>2. work'[p].idx = work[p].idx + 1 /\ work'[p].lost = work[p].lost
      BY <1>1, <1>3 DEF Work
  <2>3. ASSUME ~work[p].lost, NEW i \in DOMAIN Eg, i < work[p].idx + 1
        PROVE  routes'[Eg[i]] = NoAddr
    <3>1. Eg[i] \in Egress
        BY <1>1, Positions
    <3>2. CASE i = work[p].idx
        BY <1>1, <1>3, <3>1, <3>2 DEF EgressAt
    <3>3. CASE i < work[p].idx
      <4>1. routes[Eg[i]] = NoAddr
          BY <1>1, <1>2, <2>3, <3>3 DEF SerialInv, CleanOK
      <4>2. QED
          BY <1>1, <1>3, <3>1, <4>1
    <3>4. QED
        BY <1>1, <2>3, <3>2, <3>3, Positions
  <2>4. (InstalledOK(p) /\ CleanOK(p) /\ ChainOK(p))'
      BY <1>1, <1>2, <2>1, <2>2, <2>3
      DEF SerialInv, InstalledOK, CleanOK, ChainOK, Building
  <2>5. QED
      BY <2>1, <2>4, TurnKeeps
<1>4. CASE /\ work[p].idx > Len(Egresses(p))
           /\ Goto(p, "cleaned") /\ UNCHANGED <<routes, work>>
  <2>1. Turn(p) /\ pc'[p] = "cleaned"
      BY <1>1, <1>4 DEF Turn, Goto
  <2>2. ASSUME ~work[p].lost, NEW i \in DOMAIN Eg PROVE routes[Eg[i]] = NoAddr
    <3>1. i < work[p].idx
        BY <1>1, <1>4, Positions
    <3>2. QED
        BY <1>1, <1>2, <2>2, <3>1 DEF SerialInv, CleanOK
  <2>3. (InstalledOK(p) /\ CleanOK(p) /\ ChainOK(p))'
      BY <1>1, <1>2, <1>4, <2>1, <2>2
      DEF SerialInv, InstalledOK, CleanOK, ChainOK, Building
  <2>4. QED
      BY <2>1, <2>3, TurnKeeps
<1>5. QED
    BY <1>3, <1>4 DEF DropRoute

-----------------------------------------------------------------------------
(* Starting, ending, and what happens around the processes.                *)

LEMMA LeaveSerial ==
    ASSUME SerialInv, LocalInv', NEW p \in Process, NEW l \in {"off", "failed", "sleep"},
           l \in Labels(p), pc[p] # "off", Leave(p, l), UNCHANGED conf
    PROVE  SerialInv'
<1>1. Turn(p) /\ pc'[p] = l /\ work'[p] = Fresh
    BY LeaveType DEF SerialInv, LocalInv, Turn
<1>2. p \in Cleaners => l = "off"
    BY DEF Labels, CleanupLabels
<1>3. (InstalledOK(p) /\ CleanOK(p) /\ ChainOK(p))'
    BY <1>1, <1>2 DEF InstalledOK, CleanOK, ChainOK, Building, Fresh
<1>4. QED
    BY <1>1, <1>3, TurnKeeps

LEMMA StartSerial ==
    ASSUME Serialized, SerialInv, LocalInv', NEW p \in Process,
           StartService(p) \/ StartCommand(p) \/ StartCleanup(p) \/ Restart(p)
    PROVE  SerialInv'
<1>1. /\ MayStart(p) \/ (pc[p] = "failed" /\ p \notin Cleaners)
      /\ \/ Load(p, "table") /\ p \notin Cleaners
         \/ Load(p, "dropTable") /\ MayStart(p)
    BY ProcessAssumption DEF StartService, StartCommand, StartCleanup, Restart, SerialInv,
       LocalInv, TypeOK, ProcessOK, Labels, CleanupLabels
<1>2. pc \in [Process -> Label] /\ conf \in [Process -> Config]
    BY DEF SerialInv, LocalInv, TypeOK, ProcessOK
<1>3. Turn(p)
    BY <1>1, <1>2 DEF Turn, Load, Goto, MayStart
<1>4. CASE Load(p, "table") /\ p \notin Cleaners
  <2>1. pc'[p] = "table"
      BY <1>2, <1>4 DEF Load, Goto
  <2>2. QED
      BY <1>3, <1>4, <2>1, PlainTurn DEF Held
<1>5. CASE Load(p, "dropTable") /\ MayStart(p)
  <2>1. pc'[p] = "dropTable" /\ pc[p] = "off" /\ work' = work
      BY <1>2, <1>5 DEF Load, Goto, MayStart
  <2>2. (InstalledOK(p) /\ CleanOK(p) /\ ChainOK(p))'
      BY <2>1 DEF SerialInv, InstalledOK, CleanOK, ChainOK, Building
  <2>3. QED
      BY <1>3, <2>2, TurnKeeps
<1>6. QED
    BY <1>1, <1>4, <1>5

(* The world moves; a route may go with its link or address.               *)
LEMMA WorldSerial ==
    ASSUME SerialInv, LocalInv', UNCHANGED <<nft, chain, ipRules, pc, conf, work>>,
           \A e \in Egress : routes'[e] \in Survives(e)
    PROVE  SerialInv'
<1>1. OneBusy'
    BY DEF SerialInv, OneBusy
<1>2. ASSUME NEW p \in Process PROVE (InstalledOK(p) /\ CleanOK(p) /\ ChainOK(p))'
  <2>1. InstalledOK(p) /\ CleanOK(p) /\ ChainOK(p) /\ LocalOK(p) /\ TypeOK
      BY DEF SerialInv, LocalInv
  <2>2. \A e \in Egress : RouteKept(p, e) => RouteKept(p, e)'
      BY DEF RouteKept, Survives
  <2>3. InstalledOK(p)'
    <3>1. Healthy(p)' = Healthy(p) /\ Healthy(p) \subseteq Egress
        BY DEF Healthy
    <3>2. pc[p] \in {"listRules", "addRule"} => work[p].cur \in Egress
        BY <2>1 DEF LocalOK, TypeOK, ProcessOK, Work
    <3>3. QED
        BY <2>1, <2>2, <3>1, <3>2 DEF InstalledOK
  <2>4. \A i \in DOMAIN Egresses(p) :
            routes[Egresses(p)[i]] = NoAddr => routes'[Egresses(p)[i]] = NoAddr
      BY <2>1, Positions DEF Survives
  <2>5. CleanOK(p)' /\ ChainOK(p)'
      BY <2>1, <2>4 DEF CleanOK, ChainOK, Building, Egresses
  <2>6. QED
      BY <2>3, <2>5
<1>3. QED
    BY <1>1, <1>2 DEF SerialInv

(* A failed command of a cleanup: what it leaves is no longer claimed.     *)
LEMMA DeletionSerial ==
    ASSUME SerialInv, LocalInv', DeletionFails PROVE SerialInv'
<1>1. TypeOK /\ UNCHANGED conf
    BY DEF SerialInv, LocalInv, DeletionFails
<1>2. PICK p \in Cleaners :
          \/ /\ pc[p] \in {"dropTable", "dropList"}
             /\ work' = [work EXCEPT ![p].lost = TRUE]
             /\ Goto(p, IF pc[p] = "dropTable" THEN "dropList" ELSE "dropRules")
          \/ /\ pc[p] \in {"dropRules", "dropRoutes"}
             /\ work' = [work EXCEPT ![p].lost = TRUE, ![p].idx = @ + 1]
             /\ UNCHANGED pc
    BY DEF DeletionFails
<1>3. /\ p \in Process /\ pc \in [Process -> Label] /\ work \in [Process -> Work]
      /\ pc[p] # "off"
    BY <1>1, <1>2 DEF TypeOK, ProcessOK, Process
<1>4. Turn(p) /\ work'[p].lost = TRUE
    BY <1>1, <1>2, <1>3 DEF Turn, Goto, Work
<1>5. \/ pc'[p] = "dropList" /\ pc[p] = "dropTable" /\ work'[p].idx = work[p].idx
      \/ pc'[p] \in {"dropRules", "dropRoutes"}
    BY <1>2, <1>3 DEF Goto, Work
<1>6. (InstalledOK(p) /\ CleanOK(p) /\ ChainOK(p))'
    BY <1>3, <1>4, <1>5 DEF SerialInv, InstalledOK, CleanOK, ChainOK, Building
<1>7. QED
    BY <1>3, <1>4, <1>6, TurnKeeps

LEMMA EnvironmentSerial == ASSUME SerialInv, LocalInv', Environment PROVE SerialInv'
<1>1. TypeOK
    BY DEF SerialInv, LocalInv
<1>2. CASE LinkDown \/ Dhcp
  <2>1. UNCHANGED <<nft, chain, ipRules, pc, conf, work>>
      BY <1>2 DEF LinkDown, Dhcp, process
  <2>2. PICK f \in Egress : \E r \in Survives(f) : routes' = [routes EXCEPT ![f] = r]
      BY <1>2, EgressAssumption DEF LinkDown, Dhcp, Survives
  <2>3. \A e \in Egress : routes'[e] \in Survives(e)
      BY <1>1, <2>2 DEF TypeOK, KernelOK, Survives
  <2>4. QED
      BY <2>1, <2>3, WorldSerial
<1>3. CASE LinkUp \/ EditConfig
  <2>1. UNCHANGED <<nft, chain, ipRules, routes, pc, conf, work>>
      BY <1>3 DEF LinkUp, EditConfig, kernel, process
  <2>2. QED
      BY <2>1, WorldSerial DEF Survives
<1>4. CASE CommandFails
  <2>1. PICK p \in Process : pc[p] \in Fallible /\ Fail(p) /\ UNCHANGED conf
      BY <1>4 DEF CommandFails
  <2>2. pc[p] # "off" /\ p \notin Cleaners
      BY <1>1, <2>1, ReconcilerLabels DEF Fallible, ReconcileLabels
  <2>3. QED
      BY <2>1, <2>2, FailTurn
<1>5. CASE Crash
  <2>1. PICK p \in Process : /\ pc[p] # "off" /\ UNCHANGED conf
                             /\ Leave(p, IF p = Service THEN "failed" ELSE "off")
      BY <1>5 DEF Crash
  <2> DEFINE l == IF p = Service THEN "failed" ELSE "off"
  <2>2. l \in {"off", "failed", "sleep"} /\ l \in Labels(p)
      BY ProcessAssumption DEF Labels, CleanupLabels, ReconcileLabels
  <2>3. Leave(p, l)
      BY <2>1
  <2> HIDE DEF l
  <2>4. QED
      BY <2>1, <2>2, <2>3, LeaveSerial
<1>6. CASE Stop
  <2>1. /\ Service \in Process /\ pc[Service] # "off" /\ Leave(Service, "off")
        /\ UNCHANGED conf
      BY <1>6 DEF Stop, Process, Reconcilers
  <2>2. "off" \in Labels(Service)
      BY DEF Labels, CleanupLabels, ReconcileLabels
  <2>3. QED
      BY <2>1, <2>2, LeaveSerial
<1>7. QED
    BY <1>2, <1>3, <1>4, <1>5, <1>6, DeletionSerial DEF Environment

LEMMA RunSerial ==
    ASSUME ExactListing, Serialized, SerialInv, LocalInv', NEW p \in Process, Run(p)
    PROVE  SerialInv'
<1>1. CASE ReconcileStep(p)
    BY <1>1, PrepareSerial, HealthKnownSerial, ReplaceRouteSerial, ListRulesSerial,
       AddRuleSerial, FinishSerial, FlushSerial, ChooseSerial, AddPolicyRuleSerial
    DEF ReconcileStep
<1>2. CASE EndCleanup(p)
  <2>1. /\ "off" \in Labels(p) /\ pc[p] # "off" /\ Leave(p, "off") /\ UNCHANGED conf
      BY <1>2 DEF Labels, CleanupLabels, ReconcileLabels, EndCleanup
  <2>2. QED
      BY <2>1, LeaveSerial
<1>3. CASE CleanupStep(p)
    BY <1>2, <1>3, DropTableSerial, ListForDropSerial, DropRuleSerial, DropRouteSerial
    DEF CleanupStep
<1>4. QED
    BY <1>1, <1>3, PrepareSerial, StartSerial DEF Run

LEMMA InitSerial == Init => SerialInv
<1>1. SUFFICES ASSUME Init PROVE SerialInv
    OBVIOUS
<1>2. LocalInv /\ \A p \in Process : pc[p] = "off" /\ work[p] = Fresh
    BY <1>1, InitLocal DEF Init
<1>3. OneBusy /\ \A p \in Process : InstalledOK(p) /\ CleanOK(p) /\ ChainOK(p)
    BY <1>2 DEF OneBusy, InstalledOK, CleanOK, ChainOK, Building, Fresh
<1>4. QED
    BY <1>2, <1>3 DEF SerialInv

LEMMA NextSerial ==
    ASSUME ExactListing, Serialized PROVE SerialInv /\ [Next]_vars => SerialInv'
<1>1. SUFFICES ASSUME SerialInv, [Next]_vars PROVE SerialInv'
    OBVIOUS
<1>2. LocalInv'
    BY <1>1, NextLocal DEF SerialInv
<1>3. CASE UNCHANGED vars
  <2>1. UNCHANGED <<nft, chain, ipRules, routes, pc, conf, work>>
      BY <1>3 DEF vars, kernel, process
  <2>2. QED
      BY <1>1, <1>2, <2>1, WorldSerial DEF Survives
<1>4. CASE Next
    BY <1>1, <1>2, <1>4, RunSerial, StartSerial, EnvironmentSerial DEF Next
<1>5. QED
    BY <1>1, <1>3, <1>4

-----------------------------------------------------------------------------
(* The invariants.                                                         *)

(* runtime.rs:68-73 installs the route and the ip rule of every healthy    *)
(* egress before the policies mark anything, and nothing but the kernel's  *)
(* removal of a route with its link or address takes them away while the   *)
(* policies are applied, if no other process runs and the listing test is  *)
(* exact.                                                                  *)
THEOREM InstalledFirst ==
    ASSUME ExactListing, Serialized PROVE Spec => []InstalledBeforeMarked
<1>1. SerialInv => InstalledBeforeMarked
    BY DEF SerialInv, InstalledOK, InstalledBeforeMarked, Building, RouteKept, Process
<1>2. SerialInv /\ [Next]_vars => SerialInv'
    BY NextSerial
<1>3. QED
    BY <1>1, <1>2, InitSerial, PTL DEF Spec

(* cleanup.rs:6-71 leaves no table, no chain, and no rule or route of an   *)
(* egress of its configuration, whatever was there and even if commands of *)
(* an earlier cleanup failed, unless one of its own commands did.          *)
THEOREM CleanupLeavesNothing ==
    ASSUME ExactListing, Serialized PROVE Spec => []CleanupComplete
<1>1. SerialInv => CleanupComplete
  <2>1. SUFFICES ASSUME SerialInv, NEW p \in Cleaners, pc[p] = "cleaned", ~work[p].lost
                 PROVE  /\ nft = "absent" /\ chain = <<>>
                        /\ \A e \in RangeOf(Egresses(p)) : e \notin ipRules /\ routes[e] = NoAddr
      BY DEF CleanupComplete, Egresses, NoRoute
  <2>2. CleanOK(p)
      BY <2>1 DEF SerialInv, Process
  <2>3. QED
      BY <2>1, <2>2 DEF CleanOK, RangeOf
<1>2. SerialInv /\ [Next]_vars => SerialInv'
    BY NextSerial
<1>3. QED
    BY <1>1, <1>2, InitSerial, PTL DEF Spec

-----------------------------------------------------------------------------
(* The refinement of PolicyChain.                                          *)

LEMMA BuilderIs ==
    ASSUME OneBusy, NEW p \in Process, Building(p) PROVE Builder = conf[p]
<1>1. \A q \in Process : Building(q) => q = p
    BY DEF OneBusy, Building
<1>2. (CHOOSE q \in Process : Building(q)) = p
    BY <1>1
<1>3. QED
    BY <1>2 DEF Builder

LEMMA NoBuilder ==
    ASSUME \A p \in Process : ~Building(p) PROVE Builder = NoConfig
BY DEF Builder

(* Who builds at the end of a turn.                                        *)
LEMMA BuilderAfter ==
    ASSUME SerialInv, SerialInv', NEW p \in Process, Turn(p)
    PROVE  Builder' = IF Building(p)' THEN conf'[p] ELSE NoConfig
<1>1. CASE Building(p)'
  <2>1. \A q \in Process : Building(q)' => q = p
      BY OthersOff DEF Building
  <2>2. (CHOOSE q \in Process : Building(q))' = p
      BY <1>1, <2>1
  <2>3. QED
      BY <1>1, <2>2 DEF Builder
<1>2. CASE ~Building(p)'
  <2>1. \A q \in Process : ~Building(q)'
      BY <1>2, OthersOff DEF Building
  <2>2. QED
      BY <1>2, <2>1 DEF Builder
<1>3. QED
    BY <1>1, <1>2

(* What the steps are to the chain and to its builder: LetGo or nothing,   *)
LEMMA ChainSame ==
    ASSUME SerialInv, SerialInv', NEW p \in Process, Turn(p), UNCHANGED <<chain, conf>>,
           Building(p)' => Building(p)
    PROVE  Abstract!LetGo \/ UNCHANGED <<chain, Builder>>
<1>1. CASE Building(p)'
  <2>1. Builder = conf[p] /\ Builder' = conf'[p]
      BY <1>1, BuilderIs, BuilderAfter DEF SerialInv
  <2>2. QED
      BY <2>1
<1>2. CASE ~Building(p)'
  <2>1. Builder' = NoConfig
      BY <1>2, BuilderAfter
  <2>2. QED
      BY <2>1 DEF Abstract!LetGo
<1>3. QED
    BY <1>1, <1>2

(* Clear,                                                                  *)
LEMMA ChainCleared ==
    ASSUME SerialInv, SerialInv', NEW p \in Process, Turn(p), chain' = <<>>, UNCHANGED conf
    PROVE  Abstract!Next
<1>1. Builder' \in Config \cup {NoConfig}
    BY BuilderAfter DEF SerialInv, LocalInv, TypeOK, ProcessOK
<1>2. Abstract!Clear(Builder')
    BY DEF Abstract!Clear
<1>3. QED
    BY <1>1, <1>2 DEF Abstract!Next

(* and AddInOrder.                                                         *)
LEMMA ChainGrows ==
    ASSUME SerialInv, SerialInv', NEW p \in Process, Turn(p), Building(p), Building(p)',
           work[p].idx \in DOMAIN Policies[conf[p]], UNCHANGED conf, NEW d,
           chain' = Append(chain, RuleFor(PolicyAt(p), d))
    PROVE  Abstract!Next
<1> DEFINE r == RuleFor(PolicyAt(p), d)
           c == conf[p]
           n == work[p].idx
<1>1. /\ Builder = c /\ Builder' = c /\ c # NoConfig
      /\ Policies[c] \in Seq(Policy) /\ chain \in Seq(Rule)
    BY BuilderIs, BuilderAfter, ConfigAssumption
    DEF SerialInv, LocalInv, TypeOK, ProcessOK, KernelOK
<1>2. /\ chain' = Append(chain, r) /\ Len(chain') = Len(chain) + 1 /\ Len(chain') > 0
      /\ chain'[Len(chain')] = r
    BY <1>1
<1>3. r.policy = Policies[c][n] /\ r.mark = EgressOf[r.policy]
    BY DEF RuleFor, PolicyAt
<1>4. Abstract!InOrder(c, r.policy, r.policy)
  <2>1. n \in DOMAIN Policies[c] /\ n \in Nat
      BY <1>1
  <2>2. n <= n
      BY <2>1
  <2>3. QED
      BY <1>3, <2>1, <2>2 DEF Abstract!InOrder
<1>5. ASSUME NEW i \in DOMAIN chain PROVE Abstract!InOrder(c, chain[i].policy, r.policy)
  <2>1. PICK k \in DOMAIN Policies[c] : k <= n /\ Policies[c][k] = chain[i].policy
      BY DEF SerialInv, ChainOK
  <2>2. QED
      BY <1>3, <2>1 DEF Abstract!InOrder
<1> HIDE DEF r
<1>6. Abstract!AddInOrder(r)
    BY <1>1, <1>2, <1>3, <1>4, <1>5 DEF Abstract!AddInOrder
<1>7. QED
    BY <1>2, <1>6 DEF Abstract!Next

(* Each step of the runtime is one of these.                               *)
ChainStep == Abstract!Next \/ UNCHANGED <<chain, Builder>>

LEMMA LeaveChain ==
    ASSUME SerialInv, SerialInv', NEW p \in Process, p \notin Cleaners, pc[p] # "off",
           Fail(p) \/ Finish(p), UNCHANGED conf, chain' = chain \/ chain' = <<>>
    PROVE  ChainStep
<1>1. Turn(p) /\ pc'[p] \in {"off", "failed", "sleep"}
    BY FailType, FinishType DEF SerialInv, LocalInv, Turn
<1>2. ~Building(p)'
    BY <1>1 DEF Building
<1>3. QED
    BY <1>1, <1>2, ChainSame, ChainCleared DEF ChainStep, Abstract!Next

(* The steps of a reconcile outside the chain, and those of a cleanup.     *)
LEMMA OtherChain ==
    ASSUME SerialInv, SerialInv', NEW p \in Process,
           \/ Wake(p) \/ CheckTable(p) \/ AddTable(p) \/ CheckChain(p) \/ AddChain(p)
           \/ CheckHealth(p) \/ InspectRoute(p) \/ InspectAddr(p) \/ HealthKnown(p)
           \/ ReplaceRoute(p) \/ ListRules(p) \/ AddRule(p)
           \/ SkipPolicy(p) \/ Resolve(p)
           \/ DropTable(p) \/ ListForDrop(p) \/ DropRule(p) \/ DropRoute(p)
    PROVE  ChainStep
<1>1. /\ TypeOK /\ pc[p] # "off" /\ UNCHANGED conf
      /\ pc \in [Process -> Label] /\ work \in [Process -> Work]
    BY DEF SerialInv, LocalInv, TypeOK, ProcessOK, Wake, CheckTable, AddTable, CheckChain,
       AddChain, CheckHealth, InspectRoute, InspectAddr, HealthKnown, ReplaceRoute, ListRules,
       AddRule, SkipPolicy, Resolve, DropTable, ListForDrop, DropRule, DropRoute
<1>2. chain' = chain \/ chain' = <<>>
    BY DEF Wake, CheckTable, AddTable, CheckChain, kernel,
       AddChain, CheckHealth, InspectRoute, InspectAddr, HealthKnown, ReplaceRoute, ListRules,
       AddRule, SkipPolicy, Resolve, DropTable, ListForDrop, DropRule, DropRoute
<1>3. CASE /\ Fail(p)
           /\ AddChain(p) \/ InspectAddr(p) \/ ReplaceRoute(p) \/ AddRule(p)
  <2>1. p \notin Cleaners
      BY <1>1, <1>3, ReconcilerLabels
      DEF AddChain, InspectAddr, ReplaceRoute, AddRule, ReconcileLabels
  <2>2. QED
      BY <1>1, <1>2, <1>3, <2>1, LeaveChain
<1>4. CASE ~(/\ Fail(p)
             /\ AddChain(p) \/ InspectAddr(p) \/ ReplaceRoute(p) \/ AddRule(p))
  <2>1. /\ \/ UNCHANGED work
           \/ \E a : work' = [work EXCEPT ![p].seen = a]
           \/ \E a : Checked(p, a)
           \/ \E t : work' = [work EXCEPT ![p].todo = t]
           \/ \E e : work' = [work EXCEPT ![p].cur = e]
           \/ \E n : work' = [work EXCEPT ![p].idx = n]
           \/ \E ds : work' = [work EXCEPT ![p].pend = ds]
        /\ \/ UNCHANGED pc
           \/ \E l : Goto(p, l) /\ (l \in {"policy", "add"} => pc[p] = "policy")
      BY <1>4
      DEF Wake, CheckTable, AddTable, CheckChain, AddChain, CheckHealth, InspectRoute, InspectAddr,
          HealthKnown, ReplaceRoute, ListRules, AddRule, Installed, SkipPolicy, Resolve,
          DropTable, ListForDrop, DropRule, DropRoute
  <2>2. Turn(p) /\ (Building(p)' => Building(p))
      BY <1>1, <2>1 DEF Turn, Goto, Checked, Building
  <2>3. QED
      BY <1>1, <1>2, <2>2, ChainSame, ChainCleared DEF ChainStep, Abstract!Next
<1>5. QED
    BY <1>3, <1>4

LEMMA FlushChain ==
    ASSUME SerialInv, SerialInv', NEW p \in Process,
           Flush(p) \/ FlushAll(p) \/ EndPolicies(p)
    PROVE  ChainStep
<1>1. /\ TypeOK /\ pc[p] \in {"flush", "flushAll", "policy"} /\ UNCHANGED conf
      /\ pc \in [Process -> Label] /\ work \in [Process -> Work]
      /\ chain' = chain \/ chain' = <<>>
    BY DEF SerialInv, LocalInv, TypeOK, ProcessOK, Flush, FlushAll, EndPolicies, kernel
<1>2. p \notin Cleaners
    BY <1>1, ReconcilerLabels DEF ReconcileLabels
<1>3. CASE Fail(p) \/ Finish(p)
    BY <1>1, <1>2, <1>3, LeaveChain
<1>4. CASE chain' = <<>> /\ work' = [work EXCEPT ![p].idx = 1] /\ Goto(p, "policy")
  <2>1. Turn(p)
      BY <1>1, <1>4 DEF Turn, Goto
  <2>2. QED
      BY <1>1, <1>4, <2>1, ChainCleared DEF ChainStep
<1>5. QED
    BY <1>3, <1>4 DEF Flush, FlushAll, EndPolicies

LEMMA AddPolicyRuleChain ==
    ASSUME SerialInv, SerialInv', NEW p \in Process, AddPolicyRule(p) PROVE ChainStep
<1>1. /\ TypeOK /\ LocalOK(p) /\ pc[p] = "add" /\ UNCHANGED conf
      /\ pc \in [Process -> Label] /\ work \in [Process -> Work] /\ conf[p] \in Config
    BY DEF SerialInv, LocalInv, TypeOK, ProcessOK, AddPolicyRule
<1>2. p \notin Cleaners
    BY <1>1, ReconcilerLabels DEF ReconcileLabels
<1>3. CASE Fail(p) /\ UNCHANGED chain
    BY <1>1, <1>2, <1>3, LeaveChain
<1>4. CASE /\ chain' = Append(chain, RuleFor(PolicyAt(p), Head(work[p].pend)))
           /\ \/ work' = [work EXCEPT ![p].pend = Tail(work[p].pend)] /\ UNCHANGED pc
              \/ /\ work' = [work EXCEPT ![p].pend = Tail(work[p].pend), ![p].idx = @ + 1]
                 /\ Goto(p, "policy")
  <2>1. Turn(p) /\ Building(p) /\ Building(p)'
      BY <1>1, <1>4 DEF Turn, Goto, Building
  <2>2. work[p].idx \in DOMAIN Policies[conf[p]]
    <3>1. work[p].idx \in Nat \ {0} /\ Policies[conf[p]] \in Seq(Policy)
        BY <1>1, ConfigAssumption DEF Work
    <3>2. QED
        BY <1>1, <3>1 DEF LocalOK
  <2>3. QED
      BY <1>1, <1>4, <2>1, <2>2, ChainGrows DEF ChainStep
<1>5. QED
    BY <1>3, <1>4 DEF AddPolicyRule

(* A process starts, or ends where it stands.                              *)
LEMMA LoadChain ==
    ASSUME Serialized, SerialInv, SerialInv', NEW p \in Process,
           StartService(p) \/ StartCommand(p) \/ StartCleanup(p) \/ Restart(p)
    PROVE  ChainStep
<1>1. /\ MayStart(p) \/ pc[p] = "failed"
      /\ Load(p, "table") \/ Load(p, "dropTable")
      /\ UNCHANGED chain
    BY DEF StartService, StartCommand, StartCleanup, Restart, kernel
<1>2. pc \in [Process -> Label] /\ conf \in [Process -> Config]
    BY DEF SerialInv, LocalInv, TypeOK, ProcessOK
<1>3. Turn(p) /\ ~Building(p)'
    BY <1>1, <1>2 DEF Turn, Load, Goto, MayStart, Building
<1>4. Builder' = NoConfig
    BY <1>3, BuilderAfter
<1>5. QED
    BY <1>1, <1>4 DEF ChainStep, Abstract!Next, Abstract!LetGo

LEMMA EndChain ==
    ASSUME SerialInv, SerialInv', NEW p \in Process, NEW l \in {"off", "failed"},
           l \in Labels(p), pc[p] # "off", Leave(p, l), UNCHANGED <<chain, conf>>
    PROVE  ChainStep
<1>1. Turn(p) /\ ~Building(p)'
    BY LeaveType DEF SerialInv, LocalInv, Turn, Building
<1>2. QED
    BY <1>1, ChainSame DEF ChainStep, Abstract!Next

LEMMA EnvironmentChain ==
    ASSUME SerialInv, SerialInv', Environment PROVE ChainStep
<1>1. TypeOK /\ UNCHANGED <<chain, conf>>
    BY DEF SerialInv, LocalInv, Environment, LinkDown, LinkUp, Dhcp, EditConfig, CommandFails,
           DeletionFails, Crash, Stop, kernel, process
<1>2. CASE LinkDown \/ LinkUp \/ Dhcp \/ EditConfig
    BY <1>1, <1>2 DEF LinkDown, LinkUp, Dhcp, EditConfig, process, ChainStep, Builder, Building
<1>3. CASE CommandFails
  <2>1. PICK p \in Process : pc[p] \in Fallible /\ Fail(p)
      BY <1>3 DEF CommandFails
  <2>2. pc[p] # "off" /\ p \notin Cleaners
      BY <1>1, <2>1, ReconcilerLabels DEF Fallible, ReconcileLabels
  <2>3. QED
      BY <1>1, <2>1, <2>2, LeaveChain
<1>4. CASE DeletionFails
  <2>1. PICK p \in Cleaners, n \in Nat \ {0}, l \in CleanupLabels \ {"off"} :
            /\ work' = [work EXCEPT ![p].lost = TRUE, ![p].idx = n] /\ Goto(p, l)
            /\ pc[p] \in CleanupLabels \ {"off"}
      BY <1>1, <1>4, DeletionShape
  <2>2. p \in Process /\ Turn(p) /\ ~Building(p)'
      BY <1>1, <2>1 DEF Turn, Goto, Building, Process, TypeOK, ProcessOK, CleanupLabels
  <2>3. QED
      BY <1>1, <2>2, ChainSame DEF ChainStep, Abstract!Next
<1>5. CASE Crash
  <2>1. PICK p \in Process : /\ pc[p] # "off"
                             /\ Leave(p, IF p = Service THEN "failed" ELSE "off")
      BY <1>5 DEF Crash
  <2> DEFINE l == IF p = Service THEN "failed" ELSE "off"
  <2>2. l \in {"off", "failed"} /\ l \in Labels(p)
      BY ProcessAssumption DEF Labels, CleanupLabels, ReconcileLabels
  <2>3. Leave(p, l)
      BY <2>1
  <2> HIDE DEF l
  <2>4. QED
      BY <1>1, <2>1, <2>2, <2>3, EndChain
<1>6. CASE Stop
  <2>1. Service \in Process /\ pc[Service] # "off" /\ Leave(Service, "off")
      BY <1>6 DEF Stop, Process, Reconcilers
  <2>2. "off" \in Labels(Service)
      BY DEF Labels, CleanupLabels, ReconcileLabels
  <2>3. QED
      BY <1>1, <2>1, <2>2, EndChain
<1>7. QED
    BY <1>2, <1>3, <1>4, <1>5, <1>6 DEF Environment

LEMMA NextChain ==
    ASSUME Serialized, SerialInv, SerialInv', [Next]_vars PROVE ChainStep
<1>1. CASE UNCHANGED vars
    BY <1>1 DEF vars, kernel, process, ChainStep, Builder, Building
<1>2. ASSUME NEW p \in Process, EndCleanup(p) PROVE ChainStep
  <2>1. /\ "off" \in Labels(p) /\ pc[p] # "off" /\ Leave(p, "off")
        /\ UNCHANGED <<chain, conf>>
      BY <1>2 DEF Labels, CleanupLabels, ReconcileLabels, EndCleanup, kernel
  <2>2. QED
      BY <2>1, EndChain
<1>3. ASSUME NEW p \in Process, Run(p) PROVE ChainStep
    BY <1>2, <1>3, OtherChain, FlushChain, AddPolicyRuleChain, LoadChain
    DEF Run, ReconcileStep, CleanupStep
<1>4. QED
    BY <1>1, <1>3, LoadChain, EnvironmentChain DEF Next

(* runtime.rs:73-124 is the only place where the chain is filled: in the   *)
(* order of one configuration, by one process that has just emptied it,    *)
(* whatever fails, crashes or is edited.  Reconcile implements PolicyChain *)
(* if no two processes run at once.                                        *)
THEOREM RefinesChain ==
    ASSUME ExactListing, Serialized PROVE Spec => KeepsChainOrder
<1>1. Init => Abstract!Init
  <2>1. SUFFICES ASSUME Init PROVE Abstract!Init
      OBVIOUS
  <2>2. \A p \in Process : ~Building(p)
      BY <2>1 DEF Init, Building
  <2>3. Builder = NoConfig
      BY <2>2, NoBuilder
  <2>4. QED
      BY <2>1, <2>3 DEF Init, Abstract!Init
<1>2. SerialInv /\ [Next]_vars => SerialInv'
    BY NextSerial
<1>3. SerialInv /\ SerialInv' /\ [Next]_vars => [Abstract!Next]_<<chain, Builder>>
    BY NextChain DEF ChainStep
<1>4. QED
    BY <1>1, <1>2, <1>3, InitSerial, PTL DEF Spec, KeepsChainOrder, Abstract!Spec

-----------------------------------------------------------------------------
(* The chain follows the configuration.                                    *)

(* Destinations are pending while rules are added, and only then.          *)
PendOK(p)  == pc[p] # "add" => work[p].pend = <<>>
BuiltOK(p) == Building(p) => Built(conf[p], Healthy(p), work[p].idx, work[p].pend)

FollowInv == SerialInv /\ \A p \in Process : PendOK(p) /\ BuiltOK(p)

LEMMA TurnFollows ==
    ASSUME FollowInv, SerialInv', NEW p \in Process, Turn(p), (PendOK(p) /\ BuiltOK(p))'
    PROVE  FollowInv'
<1>1. ASSUME NEW q \in Process, q # p PROVE (PendOK(q) /\ BuiltOK(q))'
  <2>1. pc[q] = "off" /\ pc'[q] = "off" /\ work'[q] = work[q]
      BY <1>1, OthersOff DEF FollowInv
  <2>2. QED
      BY <2>1 DEF FollowInv, PendOK, BuiltOK, Building
<1>2. QED
    BY <1>1 DEF FollowInv

(* Where p does not fill the chain afterwards.                             *)
LEMMA AwayFollows ==
    ASSUME FollowInv, SerialInv', NEW p \in Process, Turn(p), ~Building(p)',
           work'[p].pend = <<>> \/ (pc[p] # "add" /\ work'[p].pend = work[p].pend)
    PROVE  FollowInv'
<1>1. (PendOK(p) /\ BuiltOK(p))'
    BY DEF FollowInv, PendOK, BuiltOK
<1>2. QED
    BY <1>1, TurnFollows

LEMMA EndFollows ==
    ASSUME FollowInv, SerialInv', NEW p \in Process, NEW l \in {"off", "failed", "sleep"},
           l \in Labels(p), pc[p] # "off", Leave(p, l), UNCHANGED conf
    PROVE  FollowInv'
<1>1. Turn(p) /\ ~Building(p)' /\ work'[p] = Fresh
    BY LeaveType DEF FollowInv, SerialInv, LocalInv, Turn, Building
<1>2. QED
    BY <1>1, AwayFollows DEF Fresh

LEMMA FinishFollows ==
    ASSUME FollowInv, SerialInv', NEW p \in Process, p \notin Cleaners, pc[p] # "off",
           Fail(p) \/ Finish(p), UNCHANGED conf
    PROVE  FollowInv'
<1>1. Turn(p) /\ pc'[p] \in {"off", "failed", "sleep"} /\ work'[p] = Fresh
    BY FailType, FinishType DEF FollowInv, SerialInv, LocalInv, Turn
<1>2. QED
    BY <1>1, AwayFollows DEF Fresh, Building

(* The steps of a reconcile outside the chain, and those of a cleanup.     *)
LEMMA OtherFollows ==
    ASSUME FollowInv, SerialInv', NEW p \in Process,
           \/ Wake(p) \/ CheckTable(p) \/ AddTable(p) \/ CheckChain(p) \/ AddChain(p)
           \/ CheckHealth(p) \/ InspectRoute(p) \/ InspectAddr(p) \/ HealthKnown(p)
           \/ ReplaceRoute(p) \/ ListRules(p) \/ AddRule(p)
           \/ DropTable(p) \/ ListForDrop(p) \/ DropRule(p) \/ DropRoute(p)
    PROVE  FollowInv'
<1>1. /\ TypeOK /\ pc[p] \notin {"off", "policy", "add"} /\ UNCHANGED conf
      /\ pc \in [Process -> Label] /\ work \in [Process -> Work]
    BY DEF FollowInv, SerialInv, LocalInv, TypeOK, ProcessOK, Wake, CheckTable, AddTable,
       CheckChain, AddChain, CheckHealth, InspectRoute, InspectAddr, HealthKnown, ReplaceRoute,
       ListRules, AddRule, DropTable, ListForDrop, DropRule, DropRoute
<1>2. CASE /\ Fail(p)
           /\ AddChain(p) \/ InspectAddr(p) \/ ReplaceRoute(p) \/ AddRule(p)
  <2>1. p \notin Cleaners
      BY <1>1, <1>2, ReconcilerLabels
      DEF AddChain, InspectAddr, ReplaceRoute, AddRule, ReconcileLabels
  <2>2. QED
      BY <1>1, <1>2, <2>1, FinishFollows
<1>3. CASE ~(/\ Fail(p)
             /\ AddChain(p) \/ InspectAddr(p) \/ ReplaceRoute(p) \/ AddRule(p))
  <2>1. /\ \/ UNCHANGED work
           \/ \E a : work' = [work EXCEPT ![p].seen = a]
           \/ \E a : Checked(p, a)
           \/ \E t : work' = [work EXCEPT ![p].todo = t]
           \/ \E e : work' = [work EXCEPT ![p].cur = e]
           \/ \E n : work' = [work EXCEPT ![p].idx = n]
        /\ UNCHANGED pc \/ \E l \in Label \ {"policy", "add"} : Goto(p, l)
      BY <1>3
      DEF Wake, CheckTable, AddTable, CheckChain, AddChain, CheckHealth, InspectRoute, InspectAddr,
          HealthKnown, ReplaceRoute, ListRules, AddRule, Installed,
          DropTable, ListForDrop, DropRule, DropRoute, Label, ReconcileLabels, CleanupLabels
  <2>2. Turn(p) /\ ~Building(p)'
      BY <1>1, <2>1 DEF Turn, Goto, Checked, Building
  <2>3. work'[p].pend = work[p].pend
    <3>1. CASE \E a : Checked(p, a)
        BY <1>1, <3>1 DEF Checked, Work
    <3>2. CASE ~\E a : Checked(p, a)
        BY <1>1, <2>1, <3>2 DEF Work
    <3>3. QED
        BY <3>1, <3>2
  <2>4. QED
      BY <1>1, <2>2, <2>3, AwayFollows
<1>4. QED
    BY <1>2, <1>3

LEMMA FlushFollows ==
    ASSUME FollowInv, SerialInv', NEW p \in Process, Flush(p) PROVE FollowInv'
<1>1. /\ TypeOK /\ pc[p] = "flush" /\ UNCHANGED conf /\ work[p].pend = <<>>
      /\ pc \in [Process -> Label] /\ work \in [Process -> Work] /\ conf[p] \in Config
    BY DEF FollowInv, SerialInv, LocalInv, TypeOK, ProcessOK, Flush, PendOK
<1>2. p \notin Cleaners
    BY <1>1, ReconcilerLabels DEF ReconcileLabels
<1>3. CASE Fail(p)
    BY <1>1, <1>2, <1>3, FinishFollows
<1>4. CASE chain' = <<>> /\ work' = [work EXCEPT ![p].idx = 1] /\ Goto(p, "policy")
  <2>1. Turn(p) /\ pc'[p] = "policy" /\ work'[p].pend = <<>> /\ work'[p].idx = 1
      BY <1>1, <1>4 DEF Turn, Goto, Work
  <2>2. Policies[conf[p]] \in Seq(Policy)
      BY <1>1, ConfigAssumption
  <2>3. Built(conf[p], Healthy(p), 1, <<>>)'
      BY <1>1, <1>4, <2>2 DEF Built, MarkedFor, InFileOrder
  <2>4. (PendOK(p) /\ BuiltOK(p))'
      BY <2>1, <2>3 DEF PendOK, BuiltOK
  <2>5. QED
      BY <2>1, <2>4, TurnFollows
<1>5. QED
    BY <1>3, <1>4 DEF Flush

(* The policy in hand: its rules are the last ones of the chain.           *)
LEMMA Hand ==
    ASSUME FollowInv, NEW p \in Process, Building(p), work[p].idx \in DOMAIN Policies[conf[p]]
    PROVE  /\ conf[p] \in Config /\ Policies[conf[p]] \in Seq(Policy) /\ chain \in Seq(Rule)
           /\ Yields[PolicyAt(p)] \subseteq Seq(Dest) /\ PolicyAt(p) \in Policy
           /\ Built(conf[p], Healthy(p), work[p].idx, work[p].pend)
           /\ pc \in [Process -> Label] /\ work \in [Process -> Work]
           /\ pc[p] # "off" /\ p \notin Cleaners
<1>1. /\ conf[p] \in Config /\ chain \in Seq(Rule) /\ TypeOK
      /\ pc \in [Process -> Label] /\ work \in [Process -> Work]
    BY DEF FollowInv, SerialInv, LocalInv, TypeOK, ProcessOK, KernelOK
<1>2. Policies[conf[p]] \in Seq(Policy)
    BY <1>1, ConfigAssumption
<1>3. PolicyAt(p) \in Policy
    BY <1>2 DEF PolicyAt
<1>4. Yields[PolicyAt(p)] \subseteq Seq(Dest)
    BY <1>3, ConfigAssumption
<1>5. pc[p] # "off" /\ p \notin Cleaners
    BY <1>1, ReconcilerLabels DEF Building, ReconcileLabels
<1>6. QED
    BY <1>1, <1>2, <1>3, <1>4, <1>5 DEF FollowInv, BuiltOK

LEMMA NoneHeld ==
    ASSUME NEW q, NEW ds, chain \in Seq(Rule), \A i \in DOMAIN chain : chain[i].policy # q
    PROVE  Holds(q, ds, 0)
<1>1. 0 \in 0..(Len(chain) - 0)
    OBVIOUS
<1>2. \A i \in DOMAIN chain : chain[i].policy = q <=> i \in (0 + 1)..(0 + 0)
    OBVIOUS
<1>3. \A k \in 1..0 : chain[0 + k].dest = ds[k]
    OBVIOUS
<1>4. QED
    BY <1>1, <1>2, <1>3 DEF Holds

LEMMA ChooseFollows ==
    ASSUME FollowInv, SerialInv', NEW p \in Process, SkipPolicy(p) \/ Resolve(p)
    PROVE  FollowInv'
<1> DEFINE c == conf[p]
           n == work[p].idx
           q == PolicyAt(p)
<1>1. /\ pc[p] = "policy" /\ UNCHANGED <<chain, conf>> /\ n <= Len(Policies[c])
      /\ work[p].pend = <<>> /\ Building(p)
      /\ n \in Nat \ {0} /\ Policies[c] \in Seq(Policy)
  <2>1. c \in Config /\ work[p] \in Work
      BY DEF FollowInv, SerialInv, LocalInv, TypeOK, ProcessOK
  <2>2. n \in Nat \ {0} /\ Policies[c] \in Seq(Policy)
      BY <2>1, ConfigAssumption DEF Work
  <2>3. QED
      BY <2>2 DEF SkipPolicy, Resolve, kernel, AllPoliciesDone, FollowInv, PendOK, Building
<1>2. n \in DOMAIN Policies[c]
    BY <1>1
<1>3. /\ c \in Config /\ chain \in Seq(Rule) /\ q = Policies[c][n]
      /\ Yields[q] \subseteq Seq(Dest)
      /\ Built(c, Healthy(p), n, <<>>)
      /\ pc \in [Process -> Label] /\ work \in [Process -> Work]
      /\ pc[p] # "off"
    BY <1>1, <1>2, Hand DEF PolicyAt
<1>4. \A i \in DOMAIN chain : chain[i].policy # q
    BY <1>1, <1>2, <1>3 DEF Built
<1>5. CASE SkipPolicy(p)
  <2>1. /\ work' = [work EXCEPT ![p].idx = n + 1] /\ UNCHANGED pc
        /\ EgressOf[q] \notin Healthy(p) \/ <<>> \in Yields[q]
      BY <1>5 DEF SkipPolicy
  <2>2. /\ Turn(p) /\ pc'[p] = "policy" /\ work'[p].idx = n + 1 /\ work'[p].pend = <<>>
        /\ Healthy(p)' = Healthy(p)
    <3>1. Turn(p) /\ pc'[p] = "policy"
        BY <1>1, <1>3, <2>1 DEF Turn
    <3>2. work'[p].idx = n + 1 /\ work'[p].pend = <<>> /\ work'[p].addr = work[p].addr
        BY <1>1, <1>3, <2>1 DEF Work
    <3>3. QED
        BY <3>1, <3>2 DEF Healthy
  <2>3. EgressOf[q] \in Healthy(p) => \E ds \in Yields[q] : Holds(q, ds, Len(ds))
    <3>1. SUFFICES ASSUME <<>> \in Yields[q] PROVE Holds(q, <<>>, Len(<<>>))
        BY <2>1
    <3>2. QED
        BY <1>3, <1>4, NoneHeld
  <2>4. Built(c, Healthy(p), n + 1, <<>>)
    <3>1. ASSUME NEW k \in DOMAIN Policies[c], k < n + 1, EgressOf[Policies[c][k]] \in Healthy(p)
          PROVE  \E ds \in Yields[Policies[c][k]] : Holds(Policies[c][k], ds, Len(ds))
      <4>1. CASE k < n
          BY <1>3, <3>1, <4>1 DEF Built
      <4>2. CASE k = n
          BY <1>3, <2>3, <3>1, <4>2
      <4>3. QED
          BY <1>1, <3>1, <4>1, <4>2
    <3>2. ASSUME NEW k \in DOMAIN Policies[c], k > n + 1 \/ k = n + 1
          PROVE  \A i \in DOMAIN chain : chain[i].policy # Policies[c][k]
      <4>1. k > n
          BY <1>1, <3>2
      <4>2. QED
          BY <1>3, <4>1 DEF Built
    <3>3. MarkedFor(c, Healthy(p)) /\ InFileOrder(c)
        BY <1>3 DEF Built
    <3>4. QED
        BY <3>1, <3>2, <3>3 DEF Built
  <2>5. (PendOK(p) /\ BuiltOK(p))'
      BY <1>1, <2>2, <2>4 DEF PendOK, BuiltOK, Built, MarkedFor, InFileOrder, Holds
  <2>6. QED
      BY <2>2, <2>5, TurnFollows
<1>6. CASE Resolve(p)
  <2>1. PICK ds \in Yields[q] \ {<<>>} : work' = [work EXCEPT ![p].pend = ds]
      BY <1>6 DEF Resolve
  <2>2. /\ Turn(p) /\ pc'[p] = "add" /\ work'[p].idx = n /\ work'[p].pend = ds
        /\ Healthy(p)' = Healthy(p)
    <3>1. pc' = [pc EXCEPT ![p] = "add"]
        BY <1>6 DEF Resolve, Goto
    <3>2. Turn(p) /\ pc'[p] = "add"
        BY <1>1, <1>3, <2>1, <3>1 DEF Turn
    <3>3. work'[p].idx = n /\ work'[p].pend = ds /\ work'[p].addr = work[p].addr
        BY <1>3, <2>1 DEF Work
    <3>4. QED
        BY <3>2, <3>3 DEF Healthy
  <2>3. \E m \in 0..Len(ds) : Holds(q, ds, m) /\ ds = SubSeq(ds, m + 1, Len(ds))
    <3>1. ds \in Seq(Dest)
        BY <1>3, <2>1
    <3>2. Holds(q, ds, 0)
        BY <1>3, <1>4, NoneHeld
    <3>3. ds = SubSeq(ds, 0 + 1, Len(ds)) /\ 0 \in 0..Len(ds)
        BY <3>1
    <3>4. QED
        BY <3>2, <3>3
  <2>4. Built(c, Healthy(p), n, ds)
    <3>1. \A k \in DOMAIN Policies[c] : k = n =>
             \E es \in Yields[Policies[c][k]] : \E m \in 0..Len(es) :
                Holds(Policies[c][k], es, m) /\ ds = SubSeq(es, m + 1, Len(es))
        BY <1>3, <2>1, <2>3
    <3>2. QED
        BY <1>3, <2>1, <3>1 DEF Built
  <2>5. (PendOK(p) /\ BuiltOK(p))'
    <3>1. /\ MarkedFor(conf[p], Healthy(p))' /\ InFileOrder(conf[p])'
          /\ conf'[p] = c /\ work'[p].idx = n /\ work'[p].pend = ds
        BY <1>1, <2>2, <2>4 DEF Built, MarkedFor, InFileOrder
    <3>2. ASSUME NEW k \in DOMAIN Policies[c], k < n, EgressOf[Policies[c][k]] \in Healthy(p)
          PROVE  \E es \in Yields[Policies[c][k]] : Holds(Policies[c][k], es, Len(es))'
      <4>1. PICK es \in Yields[Policies[c][k]] : Holds(Policies[c][k], es, Len(es))
          BY <2>4, <3>2 DEF Built
      <4>2. Holds(Policies[c][k], es, Len(es))'
          BY <1>1, <4>1 DEF Holds
      <4>3. QED
          BY <4>2
    <3>3. \E es \in Yields[q] : \E m \in 0..Len(es) :
              Holds(q, es, m)' /\ ds = SubSeq(es, m + 1, Len(es))
      <4>1. PICK m \in 0..Len(ds) : Holds(q, ds, m) /\ ds = SubSeq(ds, m + 1, Len(ds))
          BY <2>3
      <4>2. Holds(q, ds, m)'
          BY <1>1, <2>2, <4>1 DEF Holds, PolicyAt
      <4>3. QED
          BY <2>1, <4>1, <4>2
    <3>4. \A k \in DOMAIN Policies[c] :
              k > n => \A i \in DOMAIN chain' : chain'[i].policy # Policies[c][k]
        BY <1>1, <2>4 DEF Built
    <3>5. ds # <<>>
        BY <2>1
    <3>6. Built(conf[p], Healthy(p), work[p].idx, work[p].pend)'
        BY <1>1, <1>3, <2>2, <3>1, <3>2, <3>3, <3>4, <3>5 DEF Built, PolicyAt
    <3>7. QED
        BY <2>2, <3>6 DEF PendOK, BuiltOK
  <2>6. QED
      BY <2>2, <2>5, TurnFollows
<1>7. QED
    BY <1>5, <1>6

(* What is left of a sequence after its first m elements.                  *)
LEMMA RestOf ==
    ASSUME NEW S, NEW t \in Seq(S), NEW m \in 0..Len(t)
    PROVE  /\ SubSeq(t, m + 1, Len(t)) \in Seq(S)
           /\ Len(SubSeq(t, m + 1, Len(t))) = Len(t) - m
           /\ \A i \in 1..(Len(t) - m) : SubSeq(t, m + 1, Len(t))[i] = t[m + i]
<1>1. SubSeq(t, m + 1, Len(t)) \in Seq(S)
    OBVIOUS
<1>2. Len(SubSeq(t, m + 1, Len(t))) = Len(t) - m
    OBVIOUS
<1>3. \A i \in 1..(Len(t) - m) : SubSeq(t, m + 1, Len(t))[i] = t[m + i]
    OBVIOUS
<1>4. QED
    BY <1>1, <1>2, <1>3

(* No policy after the n-th has a rule yet.                                *)
NoneLater(c, n) ==
    \A k \in DOMAIN Policies[c] : k > n => \A i \in DOMAIN chain : chain[i].policy # Policies[c][k]

(* The rules of the policy in hand are the last ones of the chain.         *)
LEMMA HandIsLast ==
    ASSUME PoliciesDistinct, NEW c \in Config, NEW n \in DOMAIN Policies[c],
           Policies[c] \in Seq(Policy), chain \in Seq(Rule), InFileOrder(c),
           NoneLater(c, n),
           NEW ds, NEW m \in Nat, Holds(Policies[c][n], ds, m)
    PROVE  /\ m <= Len(chain)
           /\ \A i \in DOMAIN chain :
                 chain[i].policy = Policies[c][n] <=> i \in (Len(chain) - m + 1)..Len(chain)
           /\ \A k \in 1..m : chain[Len(chain) - m + k].dest = ds[k]
<1> DEFINE q == Policies[c][n]
<1>1. PICK s \in 0..(Len(chain) - m) :
          /\ \A i \in DOMAIN chain : chain[i].policy = q <=> i \in (s + 1)..(s + m)
          /\ \A k \in 1..m : chain[s + k].dest = ds[k]
    BY DEF Holds
<1>2. s \in Nat /\ s + m <= Len(chain) /\ Len(chain) \in Nat
    BY <1>1
<1>3. CASE m = 0
    BY <1>1, <1>2, <1>3
<1>4. CASE m > 0
  <2>1. s + m \in DOMAIN chain /\ chain[s + m].policy = q
    <3>1. s + m \in 1..Len(chain) /\ s + m \in (s + 1)..(s + m)
        BY <1>2, <1>4
    <3>2. DOMAIN chain = 1..Len(chain)
        OBVIOUS
    <3>3. QED
        BY <1>1, <3>1, <3>2
  <2>2. ASSUME s + m < Len(chain) PROVE FALSE
    <3>1. s + m + 1 \in DOMAIN chain
        BY <1>2, <2>2
    <3>2. PICK k, l \in DOMAIN Policies[c] :
              k <= l /\ Policies[c][k] = q /\ Policies[c][l] = chain[s + m + 1].policy
        BY <1>2, <2>1, <3>1 DEF InFileOrder
    <3>3. k = n
        BY <3>2 DEF PoliciesDistinct
    <3>4. ~(l > n)
        BY <3>1, <3>2 DEF NoneLater
    <3>5. l = n
        BY <3>2, <3>3, <3>4
    <3>6. chain[s + m + 1].policy = q
        BY <3>2, <3>5
    <3>7. s + m + 1 \in (s + 1)..(s + m)
        BY <1>1, <3>1, <3>6
    <3>8. QED
        BY <1>2, <3>7
  <2>3. s = Len(chain) - m
      BY <1>2, <2>2
  <2>4. s + m = Len(chain)
      BY <1>2, <2>3
  <2>5. QED
      BY <1>1, <1>2, <2>3, <2>4
<1>5. QED
    BY <1>3, <1>4

(* One more rule for it; what the chain holds of the others stays.         *)
LEMMA HandGrows ==
    ASSUME PoliciesDistinct, NEW c \in Config, NEW n \in DOMAIN Policies[c],
           Policies[c] \in Seq(Policy), chain \in Seq(Rule), InFileOrder(c),
           NoneLater(c, n),
           NEW ds \in Seq(Dest), NEW m \in 0..Len(ds), m < Len(ds),
           Holds(Policies[c][n], ds, m), NEW r, r.policy = Policies[c][n], r.dest = ds[m + 1],
           chain' = Append(chain, r)
    PROVE  Holds(Policies[c][n], ds, m + 1)'
<1> DEFINE s == Len(chain) - m
           q == Policies[c][n]
<1>1. /\ m \in Nat /\ Len(chain) \in Nat
      /\ m <= Len(chain)
      /\ \A i \in DOMAIN chain : chain[i].policy = q <=> i \in (s + 1)..Len(chain)
      /\ \A k \in 1..m : chain[s + k].dest = ds[k]
  <2>1. m \in Nat /\ Len(chain) \in Nat
      OBVIOUS
  <2>2. /\ m <= Len(chain)
        /\ \A i \in DOMAIN chain :
              chain[i].policy = Policies[c][n] <=> i \in (Len(chain) - m + 1)..Len(chain)
        /\ \A k \in 1..m : chain[Len(chain) - m + k].dest = ds[k]
    <3> HIDE DEF s, q
    <3>1. QED
        BY <2>1, HandIsLast
  <2>3. QED
      BY <2>1, <2>2
<1>2. /\ Len(chain') = Len(chain) + 1 /\ chain'[Len(chain) + 1] = r
      /\ \A i \in 1..Len(chain) : chain'[i] = chain[i]
      /\ DOMAIN chain' = 1..(Len(chain) + 1)
    BY <1>1
<1>3. s \in 0..(Len(chain') - (m + 1)) /\ s + (m + 1) = Len(chain) + 1
    BY <1>1, <1>2
<1>4. ASSUME NEW i \in DOMAIN chain'
      PROVE  chain'[i].policy = q <=> i \in (s + 1)..(s + (m + 1))
  <2>1. CASE i = Len(chain) + 1
      BY <1>1, <1>2, <1>3, <2>1
  <2>2. CASE i # Len(chain) + 1
    <3>1. i \in 1..Len(chain) /\ i \in DOMAIN chain
        BY <1>1, <1>2, <2>2
    <3>2. i \in (s + 1)..Len(chain) <=> i \in (s + 1)..(s + (m + 1))
        BY <1>1, <1>3, <3>1
    <3>3. QED
        BY <1>1, <1>2, <3>1, <3>2
  <2>3. QED
      BY <2>1, <2>2
<1>5. ASSUME NEW k \in 1..(m + 1) PROVE chain'[s + k].dest = ds[k]
  <2>1. CASE k = m + 1
      BY <1>1, <1>2, <1>3, <2>1
  <2>2. CASE k # m + 1
    <3>1. k \in 1..m /\ s + k \in 1..Len(chain)
        BY <1>1, <2>2
    <3>2. QED
        BY <1>1, <1>2, <3>1
  <2>3. QED
      BY <2>1, <2>2
<1> HIDE DEF s
<1>6. QED
    BY <1>3, <1>4, <1>5 DEF Holds

LEMMA OthersHeld ==
    ASSUME chain \in Seq(Rule), NEW q, NEW ds, NEW m \in Nat, Holds(q, ds, m),
           NEW r, r.policy # q, chain' = Append(chain, r)
    PROVE  Holds(q, ds, m)'
<1>1. PICK s \in 0..(Len(chain) - m) :
          /\ \A i \in DOMAIN chain : chain[i].policy = q <=> i \in (s + 1)..(s + m)
          /\ \A k \in 1..m : chain[s + k].dest = ds[k]
    BY DEF Holds
<1>2. /\ Len(chain') = Len(chain) + 1 /\ chain'[Len(chain) + 1] = r
      /\ \A i \in 1..Len(chain) : chain'[i] = chain[i]
      /\ DOMAIN chain' = 1..(Len(chain) + 1) /\ Len(chain) \in Nat
    OBVIOUS
<1>3. s \in Nat /\ s \in 0..(Len(chain') - m) /\ s + m <= Len(chain)
    BY <1>1, <1>2
<1>4. ASSUME NEW i \in DOMAIN chain'
      PROVE  chain'[i].policy = q <=> i \in (s + 1)..(s + m)
  <2>1. CASE i = Len(chain) + 1
      BY <1>2, <1>3, <2>1
  <2>2. CASE i # Len(chain) + 1
      BY <1>1, <1>2, <1>3, <2>2
  <2>3. QED
      BY <2>1, <2>2
<1>5. ASSUME NEW k \in 1..m PROVE chain'[s + k].dest = ds[k]
  <2>1. s + k \in 1..Len(chain)
      BY <1>2, <1>3
  <2>2. QED
      BY <1>1, <1>2, <2>1
<1>6. QED
    BY <1>3, <1>4, <1>5 DEF Holds

(* What the chain is built up to when one more rule is added, for the      *)
(* policy at n: the same policy while destinations are left, or the next.  *)
LEMMA BuiltGrows ==
    ASSUME PoliciesDistinct, NEW c \in Config, NEW n \in DOMAIN Policies[c], NEW h, NEW rest,
           Policies[c] \in Seq(Policy), chain \in Seq(Rule),
           Yields[Policies[c][n]] \subseteq Seq(Dest), Built(c, h, n, rest), rest # <<>>,
           EgressOf[Policies[c][n]] \in h, NEW r, r.policy = Policies[c][n],
           r.mark = EgressOf[r.policy], r.dest = Head(rest), chain' = Append(chain, r)
    PROVE  /\ Tail(rest) # <<>> => Built(c, h, n, Tail(rest))'
           /\ Tail(rest) = <<>> => Built(c, h, n + 1, Tail(rest))'
<1> DEFINE q == Policies[c][n]
<1>1. PICK ds \in Yields[q] : \E m \in 0..Len(ds) :
          Holds(q, ds, m) /\ rest = SubSeq(ds, m + 1, Len(ds))
    BY DEF Built
<1>2. PICK m \in 0..Len(ds) : Holds(q, ds, m) /\ rest = SubSeq(ds, m + 1, Len(ds))
    BY <1>1
<1>3. /\ ds \in Seq(Dest) /\ n \in Nat
      /\ m < Len(ds) /\ Head(rest) = ds[m + 1] /\ m + 1 \in 0..Len(ds)
      /\ Tail(rest) = SubSeq(ds, (m + 1) + 1, Len(ds))
      /\ Tail(rest) = <<>> => m + 1 = Len(ds)
  <2>1. ds \in Seq(Dest) /\ n \in Nat
    <3>1. ds \in Seq(Dest)
        OBVIOUS
    <3>2. n \in Nat
        OBVIOUS
    <3>3. QED
        BY <3>1, <3>2
  <2>2. m \in 0..Len(ds) /\ rest = SubSeq(ds, m + 1, Len(ds)) /\ rest # <<>>
      BY <1>2
  <2>3. m < Len(ds)
      BY <2>1, <2>2
  <2>4. /\ rest \in Seq(Dest) /\ Len(rest) = Len(ds) - m
        /\ \A i \in 1..(Len(ds) - m) : rest[i] = ds[m + i]
      BY <2>1, <2>2, RestOf
  <2>5. Head(rest) = ds[m + 1]
      BY <2>2, <2>3, <2>4
  <2>6. /\ Tail(rest) \in Seq(Dest) /\ Len(Tail(rest)) = Len(ds) - (m + 1)
        /\ \A i \in 1..Len(Tail(rest)) : Tail(rest)[i] = ds[(m + 1) + i]
    <3>1. /\ Tail(rest) \in Seq(Dest) /\ Len(Tail(rest)) = Len(rest) - 1
          /\ \A i \in 1..Len(Tail(rest)) : Tail(rest)[i] = rest[i + 1]
        BY <2>2, <2>4, HeadTailProperties
    <3>2. Len(Tail(rest)) = Len(ds) - (m + 1)
        BY <2>1, <2>2, <2>4, <3>1
    <3>3. ASSUME NEW i \in 1..Len(Tail(rest)) PROVE rest[i + 1] = ds[(m + 1) + i]
      <4>1. i + 1 \in 1..(Len(ds) - m) /\ m + (i + 1) = (m + 1) + i
          BY <2>1, <2>2, <3>2
      <4>2. QED
          BY <2>4, <4>1
    <3>4. QED
        BY <3>1, <3>2, <3>3
  <2>7. Tail(rest) = SubSeq(ds, (m + 1) + 1, Len(ds))
    <3> DEFINE u == Tail(rest)
               v == SubSeq(ds, (m + 1) + 1, Len(ds))
    <3>1. /\ v \in Seq(Dest) /\ Len(v) = Len(ds) - (m + 1)
          /\ \A i \in 1..(Len(ds) - (m + 1)) : v[i] = ds[(m + 1) + i]
      <4>1. m + 1 \in 0..Len(ds)
          BY <2>1, <2>2, <2>3
      <4>2. QED
          BY <2>1, <4>1, RestOf
    <3>2. u \in Seq(Dest) /\ Len(u) = Len(v) /\ \A i \in 1..Len(u) : u[i] = v[i]
        BY <2>6, <3>1
    <3> HIDE DEF u, v
    <3>3. u = v
        BY <3>1, <3>2, SeqEqual
    <3>4. QED
        BY <3>3 DEF u, v
  <2>8. m + 1 \in 0..Len(ds) /\ (Tail(rest) = <<>> => m + 1 = Len(ds))
    <3>1. Len(ds) \in Nat /\ m \in Nat /\ Len(<<>>) = 0
        BY <2>1, <2>2
    <3>2. Tail(rest) = <<>> => Len(ds) - (m + 1) = 0
        BY <2>6, <3>1
    <3>3. QED
        BY <2>3, <3>1, <3>2
  <2>9. QED
      BY <2>1, <2>3, <2>5, <2>7, <2>8
<1>4. MarkedFor(c, h) /\ InFileOrder(c) /\ NoneLater(c, n)
    BY DEF Built, NoneLater
<1>5. Holds(q, ds, m + 1)'
    BY <1>2, <1>3, <1>4, HandGrows
<1>6. /\ DOMAIN chain' = 1..(Len(chain) + 1) /\ Len(chain) \in Nat
      /\ chain'[Len(chain) + 1] = r
      /\ \A i \in 1..Len(chain) : chain'[i] = chain[i]
      /\ DOMAIN chain = 1..Len(chain)
    OBVIOUS
<1>7. ASSUME NEW i \in DOMAIN chain' PROVE i = Len(chain) + 1 \/ i \in DOMAIN chain
    BY <1>6
<1>8. ASSUME NEW k \in DOMAIN Policies[c], k < n, EgressOf[Policies[c][k]] \in h
      PROVE  \E es \in Yields[Policies[c][k]] : Holds(Policies[c][k], es, Len(es))'
  <2>1. PICK es \in Yields[Policies[c][k]] : Holds(Policies[c][k], es, Len(es))
      BY <1>8 DEF Built
  <2>2. Policies[c][k] # q
      BY <1>3, <1>8 DEF PoliciesDistinct
  <2>3. es \in Seq(Dest)
    <3>1. Policies[c][k] \in Policy
        OBVIOUS
    <3>2. QED
        BY <2>1, <3>1, ConfigAssumption
  <2>4. Holds(Policies[c][k], es, Len(es))'
      BY <2>1, <2>2, <2>3, OthersHeld
  <2>5. QED
      BY <2>4
<1>9. ASSUME NEW k \in DOMAIN Policies[c], k > n, NEW i \in DOMAIN chain'
      PROVE  chain'[i].policy # Policies[c][k]
  <2>1. Policies[c][k] # q
      BY <1>3, <1>9 DEF PoliciesDistinct
  <2>2. CASE i = Len(chain) + 1
      BY <1>6, <2>1, <2>2
  <2>3. CASE i \in DOMAIN chain
    <3>1. chain'[i] = chain[i]
        BY <1>6, <2>3
    <3>2. QED
        BY <1>4, <1>9, <2>3, <3>1 DEF NoneLater
  <2>4. QED
      BY <1>7, <2>2, <2>3
<1>10. MarkedFor(c, h)'
  <2>1. ASSUME NEW i \in DOMAIN chain'
        PROVE  /\ chain'[i].policy \in RangeOf(Policies[c])
               /\ chain'[i].mark = EgressOf[chain'[i].policy]
               /\ chain'[i].mark \in h
    <3>1. CASE i = Len(chain) + 1
        BY <1>6, <3>1 DEF RangeOf
    <3>2. CASE i \in DOMAIN chain
        BY <1>4, <1>6, <3>2 DEF MarkedFor
    <3>3. QED
        BY <1>7, <3>1, <3>2
  <2>2. QED
      BY <2>1 DEF MarkedFor
<1>11. InFileOrder(c)'
  <2>1. ASSUME NEW i \in DOMAIN chain', NEW j \in DOMAIN chain', i < j
        PROVE  \E k, l \in DOMAIN Policies[c] :
                   k <= l /\ Policies[c][k] = chain'[i].policy
                          /\ Policies[c][l] = chain'[j].policy
    <3>1. i \in DOMAIN chain /\ chain'[i] = chain[i]
        BY <1>6, <2>1
    <3>2. CASE j \in DOMAIN chain
        BY <1>4, <1>6, <2>1, <3>1, <3>2 DEF InFileOrder
    <3>3. CASE j = Len(chain) + 1
      <4>1. PICK k \in DOMAIN Policies[c] : Policies[c][k] = chain[i].policy
          BY <1>4, <3>1 DEF MarkedFor, RangeOf
      <4>2. ~(k > n) /\ k \in Nat
          BY <1>4, <3>1, <4>1 DEF NoneLater
      <4>3. k <= n
          BY <1>3, <4>2
      <4>4. QED
          BY <1>6, <3>1, <3>3, <4>1, <4>3
    <3>4. QED
        BY <1>7, <3>2, <3>3
  <2>2. QED
      BY <2>1 DEF InFileOrder
<1>12. ASSUME Tail(rest) # <<>> PROVE Built(c, h, n, Tail(rest))'
    BY <1>1, <1>3, <1>5, <1>8, <1>9, <1>10, <1>11, <1>12 DEF Built
<1>13. ASSUME Tail(rest) = <<>> PROVE Built(c, h, n + 1, Tail(rest))'
  <2>1. Holds(q, ds, Len(ds))'
      BY <1>3, <1>5, <1>13
  <2>2. ASSUME NEW k \in DOMAIN Policies[c], k < n + 1, EgressOf[Policies[c][k]] \in h
        PROVE  \E es \in Yields[Policies[c][k]] : Holds(Policies[c][k], es, Len(es))'
    <3>1. k < n \/ k = n
      <4>1. k \in Nat /\ n \in Nat
          BY <1>3
      <4>2. QED
          BY <2>2, <4>1
    <3>2. CASE k = n
        BY <2>1, <3>2
    <3>3. CASE k < n
        BY <1>8, <2>2, <3>3
    <3>4. QED
        BY <3>1, <3>2, <3>3
  <2>3. \A k \in DOMAIN Policies[c] : k > n + 1 \/ k = n + 1 => k > n
      BY <1>3
  <2>4. QED
      BY <1>9, <1>10, <1>11, <1>13, <2>2, <2>3 DEF Built
<1>14. QED
    BY <1>12, <1>13

(* The chain stays, or is told of in other words.                          *)
LEMMA SameBuilt ==
    ASSUME NEW c, NEW h, NEW n, NEW rest, Built(c, h, n, rest), UNCHANGED chain
    PROVE  Built(c, h, n, rest)'
<1>1. MarkedFor(c, h)' /\ InFileOrder(c)'
    BY DEF Built, MarkedFor, InFileOrder
<1>2. ASSUME NEW q, NEW ds, NEW m, Holds(q, ds, m) PROVE Holds(q, ds, m)'
    BY <1>2 DEF Holds
<1>3. \A k \in DOMAIN Policies[c] : k < n /\ EgressOf[Policies[c][k]] \in h =>
          \E ds \in Yields[Policies[c][k]] : Holds(Policies[c][k], ds, Len(ds))'
    BY <1>2 DEF Built
<1>4. \A k \in DOMAIN Policies[c] : k = n /\ rest # <<>> =>
          \E ds \in Yields[Policies[c][k]] : \E m \in 0..Len(ds) :
             Holds(Policies[c][k], ds, m)' /\ rest = SubSeq(ds, m + 1, Len(ds))
  <2>1. SUFFICES ASSUME NEW k \in DOMAIN Policies[c], k = n, rest # <<>>
                 PROVE  \E ds \in Yields[Policies[c][k]] : \E m \in 0..Len(ds) :
                            Holds(Policies[c][k], ds, m)' /\ rest = SubSeq(ds, m + 1, Len(ds))
      OBVIOUS
  <2>2. PICK ds \in Yields[Policies[c][k]] : \E m \in 0..Len(ds) :
            Holds(Policies[c][k], ds, m) /\ rest = SubSeq(ds, m + 1, Len(ds))
      BY <2>1 DEF Built
  <2>3. QED
      BY <1>2, <2>2
<1>5. \A k \in DOMAIN Policies[c] : k > n \/ (k = n /\ rest = <<>>) =>
          \A i \in DOMAIN chain' : chain'[i].policy # Policies[c][k]
    BY DEF Built
<1>6. QED
    BY <1>1, <1>3, <1>4, <1>5 DEF Built

LEMMA BuiltAt ==
    ASSUME NEW p, NEW c, NEW h, NEW n, NEW rest, Built(c, h, n, rest)', conf'[p] = c,
           Healthy(p)' = h, work'[p].idx = n, work'[p].pend = rest
    PROVE  Built(conf[p], Healthy(p), work[p].idx, work[p].pend)'
<1>1. MarkedFor(conf[p], Healthy(p))' /\ InFileOrder(conf[p])'
    BY DEF Built, MarkedFor, InFileOrder
<1>2. \A k \in DOMAIN Policies[c] : k < n /\ EgressOf[Policies[c][k]] \in h =>
          \E ds \in Yields[Policies[c][k]] : Holds(Policies[c][k], ds, Len(ds))'
    BY DEF Built
<1>3. \A k \in DOMAIN Policies[c] : k = n /\ rest # <<>> =>
          \E ds \in Yields[Policies[c][k]] : \E m \in 0..Len(ds) :
             Holds(Policies[c][k], ds, m)' /\ rest = SubSeq(ds, m + 1, Len(ds))
    BY DEF Built
<1>4. \A k \in DOMAIN Policies[c] : k > n \/ (k = n /\ rest = <<>>) =>
          \A i \in DOMAIN chain' : chain'[i].policy # Policies[c][k]
    BY DEF Built
<1>5. QED
    BY <1>1, <1>2, <1>3, <1>4 DEF Built

LEMMA AddFollows ==
    ASSUME PoliciesDistinct, FollowInv, SerialInv', NEW p \in Process, AddPolicyRule(p)
    PROVE  FollowInv'
<1>1. /\ TypeOK /\ LocalOK(p) /\ pc[p] = "add" /\ UNCHANGED conf /\ Building(p)
      /\ work[p] \in Work
    BY DEF FollowInv, SerialInv, LocalInv, TypeOK, ProcessOK, AddPolicyRule, Building
<1>2. work[p].idx \in DOMAIN Policies[conf[p]]
  <2>1. work[p].idx \in Nat \ {0} /\ Policies[conf[p]] \in Seq(Policy)
      BY <1>1, ConfigAssumption DEF TypeOK, ProcessOK, Work
  <2>2. QED
      BY <1>1, <2>1 DEF LocalOK
<1>3. PICK c \in Config, h \in SUBSET Egress, n \in Nat, rest \in Seq(Dest) :
          /\ c = conf[p] /\ h = Healthy(p) /\ n = work[p].idx /\ rest = work[p].pend
          /\ n \in DOMAIN Policies[c]
    BY <1>1, <1>2, Hand DEF Healthy, Work
<1>4. /\ Policies[c] \in Seq(Policy) /\ chain \in Seq(Rule)
      /\ PolicyAt(p) = Policies[c][n] /\ Yields[Policies[c][n]] \subseteq Seq(Dest)
      /\ Built(c, h, n, rest) /\ rest # <<>> /\ EgressOf[Policies[c][n]] \in h
      /\ pc \in [Process -> Label] /\ work \in [Process -> Work]
      /\ pc[p] # "off" /\ p \notin Cleaners
    BY <1>1, <1>2, <1>3, Hand DEF LocalOK, PolicyAt
<1>5. CASE Fail(p)
    BY <1>1, <1>4, <1>5, FinishFollows
<1> DEFINE r == RuleFor(PolicyAt(p), Head(rest))
<1>6. CASE /\ chain' = Append(chain, r)
           /\ \/ /\ Tail(rest) # <<>>
                 /\ work' = [work EXCEPT ![p].pend = Tail(rest)] /\ UNCHANGED pc
              \/ /\ Tail(rest) = <<>>
                 /\ work' = [work EXCEPT ![p].pend = Tail(rest), ![p].idx = n + 1]
                 /\ Goto(p, "policy")
  <2>1. r.policy = Policies[c][n] /\ r.mark = EgressOf[r.policy] /\ r.dest = Head(rest)
      BY <1>4 DEF RuleFor
  <2> HIDE DEF r
  <2>2. /\ Tail(rest) # <<>> => Built(c, h, n, Tail(rest))'
        /\ Tail(rest) = <<>> => Built(c, h, n + 1, Tail(rest))'
      BY <1>3, <1>4, <1>6, <2>1, BuiltGrows
  <2>3. \/ Tail(rest) # <<>> /\ pc'[p] = "add" /\ work'[p].idx = n
        \/ Tail(rest) = <<>> /\ pc'[p] = "policy" /\ work'[p].idx = n + 1
      BY <1>1, <1>3, <1>4, <1>6 DEF Goto, Work
  <2>4. /\ Turn(p) /\ conf'[p] = c /\ work'[p].pend = Tail(rest)
        /\ work'[p].addr = work[p].addr
      BY <1>1, <1>3, <1>4, <1>6 DEF Turn, Goto, Work
  <2>5. Healthy(p)' = h
      BY <1>3, <2>4 DEF Healthy
  <2>6. Built(conf[p], Healthy(p), work[p].idx, work[p].pend)'
      BY <2>2, <2>3, <2>4, <2>5, BuiltAt, Zenon
  <2>7. (PendOK(p) /\ BuiltOK(p))'
      BY <2>3, <2>4, <2>6 DEF PendOK, BuiltOK
  <2>8. QED
      BY <2>4, <2>7, TurnFollows
<1>7. QED
    BY <1>3, <1>5, <1>6 DEF AddPolicyRule

-----------------------------------------------------------------------------
LEMMA RestFollows ==
    ASSUME FollowInv, SerialInv', UNCHANGED <<chain, conf, pc, work>> PROVE FollowInv'
<1>1. ASSUME NEW p \in Process PROVE (PendOK(p) /\ BuiltOK(p))'
  <2>1. PendOK(p) /\ BuiltOK(p)
      BY DEF FollowInv
  <2>2. Healthy(p)' = Healthy(p) /\ Building(p)' = Building(p)
      BY DEF Healthy, Building
  <2>3. ASSUME Building(p)
        PROVE  Built(conf[p], Healthy(p), work[p].idx, work[p].pend)'
    <3>1. PICK c, h, n, rest : /\ c = conf[p] /\ h = Healthy(p)
                               /\ n = work[p].idx /\ rest = work[p].pend
        OBVIOUS
    <3>2. Built(c, h, n, rest)
        BY <2>1, <2>3, <3>1 DEF BuiltOK
    <3>3. Built(c, h, n, rest)'
        BY <3>2, SameBuilt
    <3>4. QED
        BY <2>2, <3>1, <3>3, BuiltAt
  <2>4. QED
      BY <2>1, <2>2, <2>3 DEF PendOK, BuiltOK
<1>2. QED
    BY <1>1 DEF FollowInv

LEMMA EnvironmentFollows ==
    ASSUME FollowInv, SerialInv', Environment PROVE FollowInv'
<1>1. TypeOK /\ UNCHANGED <<chain, conf>>
    BY DEF FollowInv, SerialInv, LocalInv, Environment, LinkDown, LinkUp, Dhcp, EditConfig,
           CommandFails, DeletionFails, Crash, Stop, kernel, process
<1>2. CASE UNCHANGED process
    BY <1>1, <1>2, RestFollows DEF process
<1>3. CASE CommandFails
  <2>1. PICK p \in Process : pc[p] \in Fallible /\ Fail(p)
      BY <1>3 DEF CommandFails
  <2>2. pc[p] # "off" /\ p \notin Cleaners
      BY <1>1, <2>1, ReconcilerLabels DEF Fallible, ReconcileLabels
  <2>3. QED
      BY <1>1, <2>1, <2>2, FinishFollows
<1>4. CASE DeletionFails
  <2>1. PICK p \in Cleaners, n \in Nat \ {0}, l \in CleanupLabels \ {"off"} :
            /\ work' = [work EXCEPT ![p].lost = TRUE, ![p].idx = n] /\ Goto(p, l)
            /\ pc[p] \in CleanupLabels \ {"off"}
      BY <1>1, <1>4, DeletionShape
  <2>2. p \in Process /\ Turn(p) /\ ~Building(p)'
      BY <1>1, <2>1 DEF Turn, Goto, Building, Process, TypeOK, ProcessOK, CleanupLabels
  <2>3. pc[p] # "add" /\ work'[p].pend = work[p].pend
      BY <1>1, <2>1, <2>2 DEF TypeOK, ProcessOK, Work, CleanupLabels
  <2>4. QED
      BY <2>2, <2>3, AwayFollows
<1>5. CASE Crash
  <2>1. PICK p \in Process : /\ pc[p] # "off"
                             /\ Leave(p, IF p = Service THEN "failed" ELSE "off")
      BY <1>5 DEF Crash
  <2> DEFINE l == IF p = Service THEN "failed" ELSE "off"
  <2>2. l \in {"off", "failed", "sleep"} /\ l \in Labels(p)
      BY ProcessAssumption DEF Labels, CleanupLabels, ReconcileLabels
  <2>3. Leave(p, l)
      BY <2>1
  <2> HIDE DEF l
  <2>4. QED
      BY <1>1, <2>1, <2>2, <2>3, EndFollows
<1>6. CASE Stop
  <2>1. Service \in Process /\ pc[Service] # "off" /\ Leave(Service, "off")
      BY <1>6 DEF Stop, Process, Reconcilers
  <2>2. "off" \in Labels(Service)
      BY DEF Labels, CleanupLabels, ReconcileLabels
  <2>3. QED
      BY <1>1, <2>1, <2>2, EndFollows
<1>7. QED
    BY <1>2, <1>3, <1>4, <1>5, <1>6 DEF Environment, LinkDown, LinkUp, Dhcp, EditConfig

LEMMA StartFollows ==
    ASSUME FollowInv, SerialInv', Serialized, NEW p \in Process,
           StartService(p) \/ StartCommand(p) \/ StartCleanup(p) \/ Restart(p)
    PROVE  FollowInv'
<1>1. /\ MayStart(p) \/ pc[p] = "failed"
      /\ Load(p, "table") \/ Load(p, "dropTable")
    BY DEF StartService, StartCommand, StartCleanup, Restart
<1>2. pc \in [Process -> Label] /\ conf \in [Process -> Config]
    BY DEF FollowInv, SerialInv, LocalInv, TypeOK, ProcessOK
<1>3. Turn(p) /\ ~Building(p)' /\ pc[p] # "add" /\ work'[p] = work[p]
    BY <1>1, <1>2 DEF Turn, Load, Goto, MayStart, Building
<1>4. QED
    BY <1>3, AwayFollows

LEMMA NextFollows ==
    ASSUME ExactListing, Serialized, PoliciesDistinct
    PROVE  FollowInv /\ [Next]_vars => FollowInv'
<1>1. SUFFICES ASSUME FollowInv, [Next]_vars PROVE FollowInv'
    OBVIOUS
<1>2. SerialInv'
    BY <1>1, NextSerial DEF FollowInv
<1>3. CASE UNCHANGED vars
    BY <1>1, <1>2, <1>3, RestFollows DEF vars, kernel, process
<1>4. ASSUME NEW p \in Process, Run(p) PROVE FollowInv'
  <2>1. CASE EndCleanup(p)
    <3>1. /\ "off" \in Labels(p) /\ pc[p] # "off" /\ Leave(p, "off") /\ UNCHANGED conf
        BY <2>1 DEF Labels, CleanupLabels, ReconcileLabels, EndCleanup
    <3>2. QED
        BY <1>1, <1>2, <3>1, EndFollows
  <2>2. CASE FlushAll(p) \/ EndPolicies(p)
    <3>1. /\ TypeOK /\ pc[p] \in {"flushAll", "policy"} /\ UNCHANGED conf
          /\ Finish(p) \/ Fail(p)
        BY <1>1, <2>2 DEF FollowInv, SerialInv, LocalInv, FlushAll, EndPolicies
    <3>2. p \notin Cleaners
        BY <3>1, ReconcilerLabels DEF ReconcileLabels
    <3>3. QED
        BY <1>1, <1>2, <3>1, <3>2, FinishFollows
  <2>3. CASE ~(EndCleanup(p) \/ FlushAll(p) \/ EndPolicies(p) \/ Restart(p))
      BY <1>1, <1>2, <1>4, <2>3, OtherFollows, FlushFollows, ChooseFollows, AddFollows
      DEF Run, ReconcileStep, CleanupStep
  <2>4. QED
      BY <1>1, <1>2, <2>1, <2>2, <2>3, StartFollows
<1>5. QED
    BY <1>1, <1>2, <1>3, <1>4, StartFollows, EnvironmentFollows DEF Next

(* runtime.rs:73-124.  While a reconcile applies its policies, and when it *)
(* has applied the last, the chain holds exactly what its configuration    *)
(* and the health it found call for: whatever an earlier reconcile left,   *)
(* failing commands, kills, links and edits, if no two processes run at    *)
(* once, the listing test is exact and no policy is configured twice.      *)
THEOREM ChainIsBuilt ==
    ASSUME ExactListing, Serialized, PoliciesDistinct PROVE Spec => []ChainFollowsConfig
<1>1. Init => FollowInv
  <2>1. SUFFICES ASSUME Init PROVE FollowInv
      OBVIOUS
  <2>2. SerialInv
      BY <2>1, InitSerial
  <2>3. \A p \in Process : pc[p] = "off" /\ work[p].pend = <<>>
      BY <2>1 DEF Init, Fresh
  <2>4. QED
      BY <2>2, <2>3 DEF FollowInv, PendOK, BuiltOK, Building
<1>2. FollowInv => ChainFollowsConfig
    BY DEF FollowInv, BuiltOK, ChainFollowsConfig, Process
<1>3. FollowInv /\ [Next]_vars => FollowInv'
    BY NextFollows
<1>4. QED
    BY <1>1, <1>2, <1>3, PTL DEF Spec

=============================================================================
