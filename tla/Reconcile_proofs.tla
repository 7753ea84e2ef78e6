------------------------- MODULE Reconcile_proofs -------------------------
(***************************************************************************)
(* Proofs about Reconcile: its type invariant, and that no packet is ever  *)
(* marked for an egress without an ip rule.                                *)
(***************************************************************************)
EXTENDS Reconcile, TLAPS

(* What the local variables of a process in a given place satisfy.         *)
LocalOK(p) ==
    /\ pc[p] \in {"inspect", "inspectAddr"} => work[p].idx <= Len(Egresses(p))
    /\ pc[p] \in {"listRules", "addRule"} => work[p].cur \in work[p].todo
    /\ pc[p] = "add" => /\ work[p].idx <= Len(Policies[conf[p]])
                        /\ work[p].pend # <<>>
                        /\ EgressOf[PolicyAt(p)] \in Healthy(p)

LocalInv == TypeOK /\ \A p \in Process : LocalOK(p)

(* Moving one process to one of its labels keeps the labels well typed.    *)
LEMMA GotoType ==
    ASSUME TypeOK, NEW p \in Process, NEW l \in Labels(p), Goto(p, l)
    PROVE  /\ pc' \in [Process -> Label] /\ \A q \in Process : pc'[q] \in Labels(q)
           /\ pc'[p] = l /\ \A q \in Process : q # p => pc'[q] = pc[q]
<1>1. l \in Label
    BY DEF Labels, Label
<1>2. QED
    BY <1>1 DEF TypeOK, ProcessOK, Goto

LEMMA FreshType == Fresh \in Work
BY EgressAssumption DEF Fresh, Work

LEMMA LeaveType ==
    ASSUME TypeOK, NEW p \in Process, NEW l \in Labels(p), Leave(p, l)
    PROVE  /\ pc' \in [Process -> Label] /\ \A q \in Process : pc'[q] \in Labels(q)
           /\ work' \in [Process -> Work]
           /\ pc'[p] = l /\ work'[p] = Fresh
           /\ \A q \in Process : q # p => pc'[q] = pc[q] /\ work'[q] = work[q]
<1>1. Goto(p, l)
    BY DEF Leave
<1>2. work' \in [Process -> Work]
    BY FreshType DEF TypeOK, ProcessOK, Leave
<1>3. work'[p] = Fresh /\ \A q \in Process : q # p => work'[q] = work[q]
    BY DEF TypeOK, ProcessOK, Leave
<1>4. QED
    BY <1>1, <1>2, <1>3, GotoType

(* Failing or finishing moves a reconciler out of its reconcile.           *)
LEMMA FailType ==
    ASSUME TypeOK, NEW p \in Process, p \notin Cleaners, Fail(p)
    PROVE  /\ pc' \in [Process -> Label] /\ \A q \in Process : pc'[q] \in Labels(q)
           /\ work' \in [Process -> Work] /\ first' \in [Process -> BOOLEAN]
           /\ pc'[p] \in {"off", "failed", "sleep"} /\ work'[p] = Fresh
           /\ \A q \in Process : q # p => pc'[q] = pc[q] /\ work'[q] = work[q]
<1> DEFINE l == IF p # Service THEN "off" ELSE IF first[p] THEN "failed" ELSE "sleep"
<1>1. l \in Labels(p) /\ l \in {"off", "failed", "sleep"}
    BY DEF Labels, ReconcileLabels
<1>2. Leave(p, l) /\ first' = first
    BY DEF Fail
<1> HIDE DEF l
<1>3. QED
    BY <1>1, <1>2, LeaveType DEF TypeOK, ProcessOK

LEMMA FinishType ==
    ASSUME TypeOK, NEW p \in Process, p \notin Cleaners, Finish(p)
    PROVE  /\ pc' \in [Process -> Label] /\ \A q \in Process : pc'[q] \in Labels(q)
           /\ work' \in [Process -> Work] /\ first' \in [Process -> BOOLEAN]
           /\ pc'[p] \in {"off", "failed", "sleep"} /\ work'[p] = Fresh
           /\ \A q \in Process : q # p => pc'[q] = pc[q] /\ work'[q] = work[q]
<1> DEFINE l == IF p = Service THEN "sleep" ELSE "off"
<1>1. l \in Labels(p) /\ l \in {"off", "failed", "sleep"}
    BY DEF Labels, ReconcileLabels
<1>2. Leave(p, l) /\ first' \in [Process -> BOOLEAN]
    BY DEF Finish, TypeOK, ProcessOK
<1> HIDE DEF l
<1>3. QED
    BY <1>1, <1>2, LeaveType

(* A step of p that leaves the other processes alone preserves the local   *)
(* invariant if it leaves p in order.                                      *)
LEMMA Others ==
    ASSUME LocalInv, NEW p \in Process, TypeOK', LocalOK(p)',
           \A q \in Process : q # p => /\ pc'[q] = pc[q] /\ work'[q] = work[q]
                                       /\ conf'[q] = conf[q]
    PROVE  LocalInv'
<1>1. SUFFICES ASSUME NEW q \in Process, q # p
               PROVE  LocalOK(q)'
    BY DEF LocalInv
<1>2. LocalOK(q) /\ pc'[q] = pc[q] /\ work'[q] = work[q] /\ conf'[q] = conf[q]
    BY <1>1 DEF LocalInv
<1>3. QED
    BY <1>2 DEF LocalOK, Egresses, PolicyAt, Healthy

(* The places where LocalOK says nothing.                                  *)
Plain == Label \ {"inspect", "inspectAddr", "listRules", "addRule", "add"}

(* Steps that only move a process: to a plain label.                       *)
LEMMA MoveOnly ==
    ASSUME LocalInv, KernelOK', NEW p \in Process, NEW l \in Labels(p) \cap Plain,
           Goto(p, l), UNCHANGED <<world, conf, first, work>>
    PROVE  LocalInv'
<1>1. /\ pc' \in [Process -> Label] /\ \A q \in Process : pc'[q] \in Labels(q)
      /\ pc'[p] = l /\ \A q \in Process : q # p => pc'[q] = pc[q]
    BY GotoType DEF LocalInv
<1>2. TypeOK'
    BY <1>1 DEF LocalInv, TypeOK, WorldOK, ProcessOK, world
<1>3. LocalOK(p)'
    BY <1>1 DEF LocalOK, Plain
<1>4. QED
    BY <1>1, <1>2, <1>3, Others

(* Failing, after whatever the command did to the kernel.                  *)
LEMMA FailStep ==
    ASSUME LocalInv, KernelOK', NEW p \in Process, p \notin Cleaners,
           Fail(p), UNCHANGED <<world, conf>>
    PROVE  LocalInv'
<1>1. /\ pc' \in [Process -> Label] /\ \A q \in Process : pc'[q] \in Labels(q)
      /\ work' \in [Process -> Work] /\ first' \in [Process -> BOOLEAN]
      /\ pc'[p] \in {"off", "failed", "sleep"}
      /\ \A q \in Process : q # p => pc'[q] = pc[q] /\ work'[q] = work[q]
    BY FailType DEF LocalInv
<1>2. TypeOK'
    BY <1>1 DEF LocalInv, TypeOK, WorldOK, ProcessOK, world
<1>3. LocalOK(p)'
    BY <1>1 DEF LocalOK
<1>4. QED
    BY <1>1, <1>2, <1>3, Others

LEMMA FinishStep ==
    ASSUME LocalInv, KernelOK', NEW p \in Process, p \notin Cleaners,
           Finish(p), UNCHANGED <<world, conf>>
    PROVE  LocalInv'
<1>1. /\ pc' \in [Process -> Label] /\ \A q \in Process : pc'[q] \in Labels(q)
      /\ work' \in [Process -> Work] /\ first' \in [Process -> BOOLEAN]
      /\ pc'[p] \in {"off", "failed", "sleep"}
      /\ \A q \in Process : q # p => pc'[q] = pc[q] /\ work'[q] = work[q]
    BY FinishType DEF LocalInv
<1>2. TypeOK'
    BY <1>1 DEF LocalInv, TypeOK, WorldOK, ProcessOK, world
<1>3. LocalOK(p)'
    BY <1>1 DEF LocalOK
<1>4. QED
    BY <1>1, <1>2, <1>3, Others

(* Moving a process that at the same time updates its local variables.     *)
LEMMA MoveAndSet ==
    ASSUME LocalInv, KernelOK', NEW p \in Process, NEW l \in Labels(p), NEW w \in Work,
           Goto(p, l), work' = [work EXCEPT ![p] = w], UNCHANGED <<world, conf, first>>,
           LocalOK(p)'
    PROVE  LocalInv'
<1>1. /\ pc' \in [Process -> Label] /\ \A q \in Process : pc'[q] \in Labels(q)
      /\ \A q \in Process : q # p => pc'[q] = pc[q]
    BY GotoType DEF LocalInv
<1>2. work' \in [Process -> Work] /\ \A q \in Process : q # p => work'[q] = work[q]
    BY DEF LocalInv, TypeOK, ProcessOK
<1>3. TypeOK'
    BY <1>1, <1>2 DEF LocalInv, TypeOK, WorldOK, ProcessOK, world
<1>4. QED
    BY <1>1, <1>2, <1>3, Others

(* A reconciler is a process inside a reconcile label.                     *)
LEMMA ReconcilerLabels ==
    ASSUME TypeOK, NEW p \in Process, pc[p] \in ReconcileLabels \cup {"sleep", "failed"}, pc[p] # "off"
    PROVE  p \notin Cleaners /\ p \in Reconcilers /\ ReconcileLabels \subseteq Labels(p)
BY DEF TypeOK, ProcessOK, Labels, ReconcileLabels, CleanupLabels, Process, Reconcilers

LEMMA CleanerLabels ==
    ASSUME TypeOK, NEW p \in Process, pc[p] \in CleanupLabels, pc[p] # "off"
    PROVE  p \in Cleaners /\ Labels(p) = CleanupLabels
BY DEF TypeOK, ProcessOK, Labels, ReconcileLabels, CleanupLabels, Process, Reconcilers

-----------------------------------------------------------------------------
(* Each action preserves the local invariant.                              *)

LEMMA LoadLocal ==
    ASSUME LocalInv, KernelOK', NEW p \in Process, NEW l \in Labels(p) \cap Plain,
           Load(p, l), UNCHANGED <<up, host, file>>, events' \in 0..MaxEvents
    PROVE  LocalInv'
<1>1. /\ pc' \in [Process -> Label] /\ \A q \in Process : pc'[q] \in Labels(q)
      /\ pc'[p] = l /\ \A q \in Process : q # p => pc'[q] = pc[q]
    BY GotoType DEF LocalInv, Load
<1>2. /\ conf' \in [Process -> Config] /\ first' \in [Process -> BOOLEAN]
      /\ \A q \in Process : q # p => conf'[q] = conf[q]
    BY DEF Load, LocalInv, TypeOK, WorldOK, ProcessOK
<1>3. work' = work
    BY DEF Load
<1>4. TypeOK'
    BY <1>1, <1>2, <1>3 DEF LocalInv, TypeOK, WorldOK, ProcessOK
<1>5. LocalOK(p)'
    BY <1>1 DEF LocalOK, Plain
<1>6. QED
    BY <1>1, <1>2, <1>3, <1>4, <1>5, Others

LEMMA EventType == ASSUME TypeOK, Event PROVE events' \in 0..MaxEvents
BY ProcessAssumption DEF TypeOK, WorldOK, Event

LEMMA KernelSame == ASSUME TypeOK, UNCHANGED kernel PROVE KernelOK'
BY DEF TypeOK, KernelOK, kernel

LEMMA StartLocal ==
    ASSUME LocalInv, NEW p \in Process,
           StartService(p) \/ StartCommand(p) \/ StartCleanup(p) \/ Restart(p)
    PROVE  LocalInv'
<1>0. TypeOK /\ KernelOK'
    BY KernelSame DEF LocalInv, StartService, StartCommand, StartCleanup, Restart
<1>1. CASE StartService(p)
  <2>1. "table" \in Labels(p) \cap Plain
      BY <1>1, ProcessAssumption
      DEF StartService, Labels, Plain, Label, ReconcileLabels
  <2>2. /\ Load(p, "table") /\ UNCHANGED <<up, host, file>> /\ events' \in 0..MaxEvents
      BY <1>0, <1>1 DEF StartService, world, TypeOK, WorldOK
  <2>3. QED
      BY <1>0, <2>1, <2>2, LoadLocal
<1>2. CASE StartCommand(p)
  <2>1. "table" \in Labels(p) \cap Plain
      BY <1>2, ProcessAssumption
      DEF StartCommand, Labels, Plain, Label, ReconcileLabels
  <2>2. /\ Load(p, "table") /\ UNCHANGED <<up, host, file>> /\ events' \in 0..MaxEvents
      BY <1>0, <1>2, EventType DEF StartCommand
  <2>3. QED
      BY <1>0, <2>1, <2>2, LoadLocal
<1>3. CASE StartCleanup(p)
  <2>1. "dropTable" \in Labels(p) \cap Plain
      BY <1>3 DEF StartCleanup, Labels, Plain, Label, CleanupLabels
  <2>2. /\ Load(p, "dropTable") /\ UNCHANGED <<up, host, file>> /\ events' \in 0..MaxEvents
      BY <1>0, <1>3, EventType DEF StartCleanup
  <2>3. QED
      BY <1>0, <2>1, <2>2, LoadLocal
<1>4. CASE Restart(p)
  <2>1. "table" \in Labels(p) \cap Plain
      BY <1>0, <1>4, ReconcilerLabels
      DEF Restart, Labels, Plain, Label, ReconcileLabels
  <2>2. /\ Load(p, "table") /\ UNCHANGED <<up, host, file>> /\ events' \in 0..MaxEvents
      BY <1>0, <1>4 DEF Restart, world, TypeOK, WorldOK
  <2>3. QED
      BY <1>0, <2>1, <2>2, LoadLocal
<1>5. QED
    BY <1>1, <1>2, <1>3, <1>4

LEMMA WakeLocal ==
    ASSUME LocalInv, NEW p \in Process, Wake(p) PROVE LocalInv'
<1>1. TypeOK /\ KernelOK'
    BY KernelSame DEF LocalInv, Wake
<1>2. "table" \in Labels(p) \cap Plain
    BY <1>1, ReconcilerLabels DEF Wake, Plain, Label, ReconcileLabels
<1>3. QED
    BY <1>1, <1>2, MoveOnly DEF Wake

(* ensure_table_and_chain.                                                 *)
LEMMA EnsureLocal ==
    ASSUME LocalInv, NEW p \in Process,
           CheckTable(p) \/ AddTable(p) \/ CheckChain(p) \/ AddChain(p)
    PROVE  LocalInv'
<1>1. TypeOK /\ KernelOK'
  <2>1. TypeOK /\ UNCHANGED <<chain, ipRules, routes>>
      BY DEF LocalInv, CheckTable, AddTable, CheckChain, AddChain, kernel
  <2>2. nft' \in {"absent", "table", "chain"}
      BY <2>1 DEF CheckTable, AddTable, CheckChain, AddChain, kernel, TypeOK, KernelOK
  <2>3. QED
      BY <2>1, <2>2 DEF TypeOK, KernelOK
<1>2. p \notin Cleaners /\ ReconcileLabels \subseteq Labels(p)
    BY <1>1, ReconcilerLabels
    DEF CheckTable, AddTable, CheckChain, AddChain, ReconcileLabels
<1>3. CASE AddChain(p) /\ Fail(p)
    BY <1>1, <1>2, <1>3, FailStep DEF AddChain
<1>4. CASE ~(AddChain(p) /\ Fail(p))
  <2>1. PICK l \in {"addTable", "chain", "addChain", "health"} :
            Goto(p, l) /\ UNCHANGED <<world, conf, first, work>>
      BY <1>4 DEF CheckTable, AddTable, CheckChain, AddChain
  <2>2. l \in Labels(p) \cap Plain
      BY <1>2, <2>1 DEF ReconcileLabels, Plain, Label
  <2>3. QED
      BY <1>1, <2>1, <2>2, MoveOnly
<1>5. QED
    BY <1>3, <1>4

(* Updating only the local variables of p.                                 *)
LEMMA SetOnly ==
    ASSUME LocalInv, KernelOK', NEW p \in Process, NEW w \in Work,
           work' = [work EXCEPT ![p] = w], UNCHANGED <<world, pc, conf, first>>,
           LocalOK(p)'
    PROVE  LocalInv'
<1>1. pc[p] \in Labels(p) /\ Goto(p, pc[p])
    BY DEF LocalInv, TypeOK, ProcessOK, Goto
<1>2. QED
    BY <1>1, MoveAndSet

LEMMA EgressAtType ==
    ASSUME TypeOK, NEW p \in Process, work[p].idx <= Len(Egresses(p))
    PROVE  EgressAt(p) \in Egress /\ EgressAt(p) \in RangeOf(Egresses(p))
<1>1. work[p] \in Work /\ conf[p] \in Config
    BY DEF TypeOK, ProcessOK
<1>2. Egresses(p) \in Seq(Egress) /\ work[p].idx \in Nat \ {0}
    BY <1>1, ConfigAssumption DEF Egresses, Work
<1>3. work[p].idx \in DOMAIN Egresses(p)
    BY <1>2
<1>4. QED
    BY <1>2, <1>3 DEF EgressAt, RangeOf

LEMMA CheckedType ==
    ASSUME TypeOK, NEW p \in Process, NEW a \in Addr \cup {NoAddr},
           work[p].idx <= Len(Egresses(p)), Checked(p, a)
    PROVE  \E w \in Work : work' = [work EXCEPT ![p] = w]
<1> DEFINE w == [work[p] EXCEPT !.addr[EgressAt(p)] = a, !.idx = @ + 1, !.seen = NoAddr]
<1>1. work[p] \in Work /\ work \in [Process -> Work] /\ EgressAt(p) \in Egress
    BY EgressAtType DEF TypeOK, ProcessOK
<1>2. w \in Work
  <2>1. [work[p].addr EXCEPT ![EgressAt(p)] = a] \in [Egress -> Addr \cup {NoAddr}]
      BY <1>1 DEF Work
  <2>2. work[p].idx + 1 \in Nat \ {0}
      BY <1>1 DEF Work
  <2>3. QED
      BY <1>1, <2>1, <2>2 DEF Work
<1>3. work' = [work EXCEPT ![p] = w]
    BY <1>1 DEF Checked, EgressAt, Egresses
<1>4. QED
    BY <1>2, <1>3

LEMMA CheckHealthLocal ==
    ASSUME LocalInv, NEW p \in Process, CheckHealth(p) PROVE LocalInv'
<1>1. TypeOK /\ KernelOK'
    BY KernelSame DEF LocalInv, CheckHealth
<1>2. ReconcileLabels \subseteq Labels(p)
    BY <1>1, ReconcilerLabels DEF CheckHealth, ReconcileLabels
<1>3. work[p].idx <= Len(Egresses(p)) /\ pc[p] = "health" /\ UNCHANGED <<world, conf, first>>
    BY DEF CheckHealth
<1>4. CASE Goto(p, "inspect") /\ UNCHANGED work
  <2>1. work' = [work EXCEPT ![p] = work[p]] /\ work[p] \in Work
      BY <1>1, <1>4 DEF TypeOK, ProcessOK
  <2>2. pc'[p] = "inspect"
      BY <1>1, <1>4 DEF Goto, TypeOK, ProcessOK
  <2>3. LocalOK(p)'
      BY <1>3, <1>4, <2>2 DEF LocalOK, Egresses
  <2>4. "inspect" \in Labels(p)
      BY <1>2 DEF ReconcileLabels
  <2>5. QED
      BY <1>1, <1>3, <1>4, <2>1, <2>3, <2>4, MoveAndSet
<1>5. CASE UNCHANGED pc /\ \E a \in Addr \cup {NoAddr} : Checked(p, a)
  <2>1. PICK w \in Work : work' = [work EXCEPT ![p] = w]
      BY <1>1, <1>3, <1>5, CheckedType
  <2>2. LocalOK(p)'
      BY <1>3, <1>5 DEF LocalOK
  <2>3. QED
      BY <1>1, <1>3, <1>5, <2>1, <2>2, SetOnly
<1>6. Configured[conf[p]][EgressAt(p)] \in Addr
    BY <1>1, <1>3, EgressAtType, ConfigAssumption DEF TypeOK, ProcessOK
<1>7. QED
    BY <1>4, <1>5, <1>6 DEF CheckHealth

LEMMA InspectRouteLocal ==
    ASSUME LocalInv, NEW p \in Process, InspectRoute(p) PROVE LocalInv'
<1>1. TypeOK /\ KernelOK'
    BY KernelSame DEF LocalInv, InspectRoute
<1>2. ReconcileLabels \subseteq Labels(p)
    BY <1>1, ReconcilerLabels DEF InspectRoute, ReconcileLabels
<1>3. work[p].idx <= Len(Egresses(p)) /\ UNCHANGED <<world, conf, first>>
    BY DEF InspectRoute, LocalInv, LocalOK
<1> DEFINE w == [work[p] EXCEPT !.seen = host[EgressAt(p)]]
<1>4. host[EgressAt(p)] \in Addr \cup {NoAddr}
    BY <1>1, <1>3, EgressAtType DEF TypeOK, WorldOK
<1>5. w \in Work /\ work' = [work EXCEPT ![p] = w] /\ work'[p].idx = work[p].idx
    BY <1>1, <1>4 DEF InspectRoute, TypeOK, ProcessOK, Work
<1>6. pc'[p] = "inspectAddr" /\ "inspectAddr" \in Labels(p)
    BY <1>1, <1>2 DEF InspectRoute, Goto, TypeOK, ProcessOK, ReconcileLabels
<1>7. LocalOK(p)'
    BY <1>3, <1>5, <1>6 DEF LocalOK, Egresses
<1>8. QED
    BY <1>1, <1>3, <1>5, <1>6, <1>7, MoveAndSet DEF InspectRoute

(* What an inspection finds is a gateway and an address.                   *)
LEMMA FoundType ==
    ASSUME TypeOK, NEW p \in Process, NEW e \in Egress, Usable(p, e)
    PROVE  Found(p, e) \in Addr
<1>1. work[p].seen \in Ip \X Ip
    BY DEF TypeOK, ProcessOK, Work, Usable, Addr
<1>2. host[e] # NoAddr => host[e] \in Ip \X Ip
    BY DEF TypeOK, WorldOK, Addr
<1>3. QED
    BY <1>1, <1>2 DEF Found, Addr

LEMMA InspectAddrLocal ==
    ASSUME LocalInv, NEW p \in Process, InspectAddr(p) PROVE LocalInv'
<1>1. TypeOK /\ KernelOK'
    BY KernelSame DEF LocalInv, InspectAddr
<1>2. ReconcileLabels \subseteq Labels(p) /\ p \notin Cleaners
    BY <1>1, ReconcilerLabels DEF InspectAddr, ReconcileLabels
<1>3. work[p].idx <= Len(Egresses(p)) /\ UNCHANGED <<world, conf>>
    BY DEF InspectAddr, LocalInv, LocalOK
<1>4. CASE Fail(p)
    BY <1>1, <1>2, <1>3, <1>4, FailStep
<1>5. CASE /\ Usable(p, EgressAt(p)) /\ Checked(p, Found(p, EgressAt(p)))
           /\ Goto(p, "health") /\ UNCHANGED first
  <2>1. Found(p, EgressAt(p)) \in Addr
      BY <1>1, <1>3, <1>5, EgressAtType, FoundType
  <2>2. PICK w \in Work : work' = [work EXCEPT ![p] = w]
      BY <1>1, <1>3, <1>5, <2>1, CheckedType
  <2>3. pc'[p] = "health" /\ "health" \in Labels(p)
      BY <1>1, <1>2, <1>5 DEF Goto, TypeOK, ProcessOK, ReconcileLabels
  <2>4. LocalOK(p)'
      BY <2>3 DEF LocalOK
  <2>5. QED
      BY <1>1, <1>3, <1>5, <2>2, <2>3, <2>4, MoveAndSet
<1>6. QED
    BY <1>4, <1>5 DEF InspectAddr

LEMMA HealthKnownLocal ==
    ASSUME LocalInv, NEW p \in Process, HealthKnown(p) PROVE LocalInv'
<1>1. TypeOK /\ KernelOK'
    BY KernelSame DEF LocalInv, HealthKnown
<1>2. ReconcileLabels \subseteq Labels(p)
    BY <1>1, ReconcilerLabels DEF HealthKnown, ReconcileLabels
<1> DEFINE w == [work[p] EXCEPT !.todo = Healthy(p)]
<1>3. w \in Work /\ work' = [work EXCEPT ![p] = w]
    BY <1>1 DEF HealthKnown, TypeOK, ProcessOK, Work, Healthy
<1>4. PICK l \in {"route", "flushAll", "flush"} : Goto(p, l)
    BY DEF HealthKnown
<1>5. l \in Labels(p) /\ pc'[p] = l
    BY <1>1, <1>2, <1>4 DEF Goto, TypeOK, ProcessOK, ReconcileLabels
<1>6. LocalOK(p)'
    BY <1>5 DEF LocalOK
<1>7. QED
    BY <1>1, <1>3, <1>4, <1>5, <1>6, MoveAndSet DEF HealthKnown

LEMMA ReplaceRouteLocal ==
    ASSUME LocalInv, NEW p \in Process, ReplaceRoute(p) PROVE LocalInv'
<1>1. TypeOK /\ work[p] \in Work /\ UNCHANGED <<nft, chain, ipRules, world, conf>>
    BY DEF LocalInv, TypeOK, ProcessOK, ReplaceRoute
<1>2. ReconcileLabels \subseteq Labels(p) /\ p \notin Cleaners
    BY <1>1, ReconcilerLabels DEF ReplaceRoute, ReconcileLabels
<1>3. PICK e \in work[p].todo :
          \/ /\ routes' = [routes EXCEPT ![e] = work[p].addr[e]]
             /\ work' = [work EXCEPT ![p].cur = e]
             /\ Goto(p, "listRules")
             /\ UNCHANGED first
          \/ Fail(p) /\ UNCHANGED routes
    BY DEF ReplaceRoute
<1>4. e \in Egress /\ work[p].addr[e] \in Addr \cup {NoAddr}
    BY <1>1 DEF Work
<1>5. KernelOK'
    BY <1>1, <1>3, <1>4 DEF TypeOK, KernelOK
<1>6. CASE Fail(p)
    BY <1>1, <1>2, <1>5, <1>6, FailStep
<1>7. CASE ~Fail(p)
  <2> DEFINE w == [work[p] EXCEPT !.cur = e]
  <2>1. w \in Work /\ work' = [work EXCEPT ![p] = w]
      BY <1>1, <1>3, <1>4, <1>7 DEF Work, TypeOK, ProcessOK
  <2>2. pc'[p] = "listRules" /\ "listRules" \in Labels(p)
      BY <1>1, <1>2, <1>3, <1>7 DEF Goto, TypeOK, ProcessOK, ReconcileLabels
  <2>3. work'[p].cur \in work'[p].todo
    <3>1. work \in [Process -> Work] /\ work'[p] = w
        BY <1>1, <2>1 DEF TypeOK, ProcessOK
    <3>2. w.cur = e /\ w.todo = work[p].todo
        BY <1>1 DEF Work
    <3>3. QED
        BY <3>1, <3>2
  <2>4. LocalOK(p)'
      BY <2>2, <2>3 DEF LocalOK
  <2>5. QED
      BY <1>1, <1>3, <1>5, <1>7, <2>1, <2>2, <2>4, MoveAndSet
<1>8. QED
    BY <1>6, <1>7

LEMMA InstalledLocal ==
    ASSUME LocalInv, KernelOK', NEW p \in Process, ReconcileLabels \subseteq Labels(p),
           Installed(p), UNCHANGED <<world, conf, first>>
    PROVE  LocalInv'
<1>1. work[p] \in Work /\ pc \in [Process -> Label]
    BY DEF LocalInv, TypeOK, ProcessOK
<1> DEFINE rest == work[p].todo \ {work[p].cur}
           w == [work[p] EXCEPT !.todo = rest]
<1>2. w \in Work /\ work' = [work EXCEPT ![p] = w]
    BY <1>1 DEF Installed, Work
<1>3. PICK l \in {"flush", "route"} : Goto(p, l)
    BY DEF Installed
<1>4. l \in Labels(p) /\ pc'[p] = l
    BY <1>1, <1>3 DEF Goto, ReconcileLabels
<1>5. LocalOK(p)'
    BY <1>4 DEF LocalOK
<1>6. QED
    BY <1>2, <1>3, <1>4, <1>5, MoveAndSet

LEMMA ListRulesLocal ==
    ASSUME LocalInv, NEW p \in Process, ListRules(p) PROVE LocalInv'
<1>1. TypeOK /\ KernelOK'
    BY KernelSame DEF LocalInv, ListRules
<1>2. ReconcileLabels \subseteq Labels(p)
    BY <1>1, ReconcilerLabels DEF ListRules, ReconcileLabels
<1>3. UNCHANGED <<world, conf, first>> /\ pc[p] = "listRules"
    BY DEF ListRules
<1>4. CASE Installed(p)
    BY <1>1, <1>2, <1>3, <1>4, InstalledLocal
<1>5. CASE Goto(p, "addRule") /\ UNCHANGED work
  <2>1. work' = [work EXCEPT ![p] = work[p]] /\ work[p] \in Work
      BY <1>1, <1>5 DEF TypeOK, ProcessOK
  <2>2. pc'[p] = "addRule" /\ "addRule" \in Labels(p)
      BY <1>1, <1>2, <1>5 DEF Goto, TypeOK, ProcessOK, ReconcileLabels
  <2>3. LocalOK(p)'
      BY <1>3, <1>5, <2>2 DEF LocalOK, LocalInv
  <2>4. QED
      BY <1>1, <1>3, <1>5, <2>1, <2>2, <2>3, MoveAndSet
<1>6. QED
    BY <1>4, <1>5 DEF ListRules

LEMMA AddRuleLocal ==
    ASSUME LocalInv, NEW p \in Process, AddRule(p) PROVE LocalInv'
<1>1. TypeOK /\ UNCHANGED <<nft, chain, routes, world, conf>> /\ pc[p] = "addRule"
    BY DEF LocalInv, AddRule
<1>2. ReconcileLabels \subseteq Labels(p) /\ p \notin Cleaners
    BY <1>1, ReconcilerLabels DEF ReconcileLabels
<1>3. work[p].cur \in Egress
    BY <1>1 DEF LocalInv, LocalOK, TypeOK, ProcessOK, Work
<1>4. KernelOK'
    BY <1>1, <1>3 DEF AddRule, TypeOK, KernelOK
<1>5. CASE Installed(p) /\ UNCHANGED first
    BY <1>1, <1>2, <1>4, <1>5, InstalledLocal
<1>6. CASE Fail(p)
    BY <1>1, <1>2, <1>4, <1>6, FailStep
<1>7. QED
    BY <1>5, <1>6 DEF AddRule

LEMMA EmptyType == ASSUME NEW S PROVE <<>> \in Seq(S)
OBVIOUS

(* Moving to another position in a list.                                   *)
LEMMA SetIdx ==
    ASSUME TypeOK, NEW p \in Process, NEW n \in Nat \ {0},
           work' = [work EXCEPT ![p].idx = n]
    PROVE  \E w \in Work : work' = [work EXCEPT ![p] = w]
<1> DEFINE w == [work[p] EXCEPT !.idx = n]
<1>1. work[p] \in Work /\ work \in [Process -> Work]
    BY DEF TypeOK, ProcessOK
<1>2. w \in Work
    BY <1>1 DEF Work
<1>3. work' = [work EXCEPT ![p] = w]
    BY <1>1
<1>4. QED
    BY <1>2, <1>3

LEMMA NextIdx == ASSUME TypeOK, NEW p \in Process PROVE work[p].idx + 1 \in Nat \ {0}
<1>1. work[p].idx \in Nat \ {0}
    BY DEF TypeOK, ProcessOK, Work
<1>2. QED
    BY <1>1

LEMMA FlushAllLocal ==
    ASSUME LocalInv, NEW p \in Process, FlushAll(p) PROVE LocalInv'
<1>1. TypeOK /\ UNCHANGED <<nft, ipRules, routes, world, conf>> /\ pc[p] = "flushAll"
    BY DEF LocalInv, FlushAll
<1>2. p \notin Cleaners
    BY <1>1, ReconcilerLabels DEF ReconcileLabels
<1>3. KernelOK'
  <2>1. chain' = <<>> \/ chain' = chain
      BY DEF FlushAll
  <2>2. chain' \in Seq(Rule)
      BY <1>1, <2>1, EmptyType DEF TypeOK, KernelOK
  <2>3. QED
      BY <1>1, <2>2 DEF TypeOK, KernelOK
<1>4. QED
    BY <1>1, <1>2, <1>3, FailStep, FinishStep DEF FlushAll

LEMMA FlushLocal ==
    ASSUME LocalInv, NEW p \in Process, Flush(p) PROVE LocalInv'
<1>1. TypeOK /\ UNCHANGED <<nft, ipRules, routes, world, conf>> /\ pc[p] = "flush"
    BY DEF LocalInv, Flush
<1>2. ReconcileLabels \subseteq Labels(p) /\ p \notin Cleaners
    BY <1>1, ReconcilerLabels DEF ReconcileLabels
<1>3. KernelOK'
  <2>1. chain' = <<>> \/ chain' = chain
      BY DEF Flush
  <2>2. chain' \in Seq(Rule)
      BY <1>1, <2>1, EmptyType DEF TypeOK, KernelOK
  <2>3. QED
      BY <1>1, <2>2 DEF TypeOK, KernelOK
<1>4. CASE Fail(p)
    BY <1>1, <1>2, <1>3, <1>4, FailStep
<1>5. CASE work' = [work EXCEPT ![p].idx = 1] /\ Goto(p, "policy") /\ UNCHANGED first
  <2>1. PICK w \in Work : work' = [work EXCEPT ![p] = w]
    <3>1. 1 \in Nat \ {0}
        OBVIOUS
    <3>2. QED
        BY <1>1, <1>5, <3>1, SetIdx
  <2>2. pc'[p] = "policy" /\ "policy" \in Labels(p)
      BY <1>1, <1>2, <1>5 DEF Goto, TypeOK, ProcessOK, ReconcileLabels
  <2>3. LocalOK(p)'
      BY <2>2 DEF LocalOK
  <2>4. QED
      BY <1>1, <1>3, <1>5, <2>1, <2>2, <2>3, MoveAndSet
<1>6. QED
    BY <1>4, <1>5 DEF Flush

LEMMA EndPoliciesLocal ==
    ASSUME LocalInv, NEW p \in Process, EndPolicies(p) PROVE LocalInv'
<1>1. TypeOK /\ KernelOK' /\ UNCHANGED <<world, conf>> /\ Finish(p) /\ pc[p] = "policy"
    BY KernelSame DEF LocalInv, EndPolicies
<1>2. p \notin Cleaners
    BY <1>1, ReconcilerLabels DEF ReconcileLabels
<1>3. QED
    BY <1>1, <1>2, FinishStep

LEMMA SkipPolicyLocal ==
    ASSUME LocalInv, NEW p \in Process, SkipPolicy(p) PROVE LocalInv'
<1>1. TypeOK /\ KernelOK' /\ pc[p] = "policy" /\ UNCHANGED <<world, pc, conf, first>>
    BY KernelSame DEF LocalInv, SkipPolicy
<1>2. work' = [work EXCEPT ![p].idx = work[p].idx + 1]
    BY DEF SkipPolicy
<1>3. PICK w \in Work : work' = [work EXCEPT ![p] = w]
    BY <1>1, <1>2, NextIdx, SetIdx
<1>4. LocalOK(p)'
    BY <1>1 DEF LocalOK
<1>5. QED
    BY <1>1, <1>3, <1>4, SetOnly

LEMMA PolicyAtType ==
    ASSUME TypeOK, NEW p \in Process, work[p].idx <= Len(Policies[conf[p]])
    PROVE  PolicyAt(p) \in Policy /\ work[p].idx \in DOMAIN Policies[conf[p]]
<1>1. work[p] \in Work /\ conf[p] \in Config
    BY DEF TypeOK, ProcessOK
<1>2. Policies[conf[p]] \in Seq(Policy) /\ work[p].idx \in Nat \ {0}
    BY <1>1, ConfigAssumption DEF Work
<1>3. QED
    BY <1>2 DEF PolicyAt

LEMMA ResolveLocal ==
    ASSUME LocalInv, NEW p \in Process, Resolve(p) PROVE LocalInv'
<1>1. /\ TypeOK /\ KernelOK' /\ pc[p] = "policy" /\ Goto(p, "add")
      /\ UNCHANGED <<world, conf, first>> /\ EgressOf[PolicyAt(p)] \in Healthy(p)
    BY KernelSame DEF LocalInv, Resolve
<1>2. ReconcileLabels \subseteq Labels(p)
    BY <1>1, ReconcilerLabels DEF ReconcileLabels
<1>3. work[p] \in Work /\ work \in [Process -> Work] /\ pc \in [Process -> Label]
      /\ conf[p] \in Config
    BY <1>1 DEF TypeOK, ProcessOK
<1>4. work[p].idx <= Len(Policies[conf[p]])
  <2>1. Len(Policies[conf[p]]) \in Nat /\ work[p].idx \in Nat
      BY <1>3, ConfigAssumption DEF Work
  <2>2. QED
      BY <2>1 DEF Resolve, AllPoliciesDone
<1>5. PICK ds \in Yields[PolicyAt(p)] \ {<<>>} : work' = [work EXCEPT ![p].pend = ds]
    BY DEF Resolve
<1>6. ds \in Seq(Dest)
    BY <1>1, <1>4, <1>5, PolicyAtType, ConfigAssumption
<1> DEFINE w == [work[p] EXCEPT !.pend = ds]
<1>7. w \in Work /\ work' = [work EXCEPT ![p] = w]
    BY <1>3, <1>5, <1>6 DEF Work
<1>8. /\ work'[p] = w /\ w.pend = ds /\ w.idx = work[p].idx /\ w.addr = work[p].addr
    BY <1>3, <1>7 DEF Work
<1>9. pc'[p] = "add" /\ "add" \in Labels(p)
    BY <1>1, <1>2, <1>3 DEF Goto, ReconcileLabels
<1>10. LocalOK(p)'
    BY <1>1, <1>4, <1>5, <1>8, <1>9 DEF LocalOK, PolicyAt, Healthy
<1>11. QED
    BY <1>1, <1>7, <1>9, <1>10, MoveAndSet

LEMMA AddPolicyRuleLocal ==
    ASSUME LocalInv, NEW p \in Process, AddPolicyRule(p) PROVE LocalInv'
<1>1. TypeOK /\ UNCHANGED <<nft, ipRules, routes, world, conf>> /\ pc[p] = "add"
    BY DEF LocalInv, AddPolicyRule
<1>2. ReconcileLabels \subseteq Labels(p) /\ p \notin Cleaners
    BY <1>1, ReconcilerLabels DEF ReconcileLabels
<1>3. /\ work[p].idx <= Len(Policies[conf[p]]) /\ work[p].pend # <<>>
      /\ EgressOf[PolicyAt(p)] \in Healthy(p)
    BY <1>1 DEF LocalInv, LocalOK
<1>4. work[p] \in Work /\ work \in [Process -> Work] /\ pc \in [Process -> Label]
    BY <1>1 DEF TypeOK, ProcessOK
<1>5. Head(work[p].pend) \in Dest /\ Tail(work[p].pend) \in Seq(Dest)
    BY <1>3, <1>4 DEF Work
<1>6. RuleFor(PolicyAt(p), Head(work[p].pend)) \in Rule
    BY <1>1, <1>3, <1>5, PolicyAtType, ConfigAssumption DEF RuleFor, Rule
<1>7. KernelOK'
  <2>1. chain' = chain \/ chain' = Append(chain, RuleFor(PolicyAt(p), Head(work[p].pend)))
      BY DEF AddPolicyRule
  <2>2. chain \in Seq(Rule)
      BY <1>1 DEF TypeOK, KernelOK
  <2>3. chain' \in Seq(Rule)
      BY <1>6, <2>1, <2>2
  <2>4. QED
      BY <1>1, <2>3 DEF TypeOK, KernelOK
<1>8. CASE Fail(p)
    BY <1>1, <1>2, <1>7, <1>8, FailStep
<1>9. CASE /\ Tail(work[p].pend) # <<>> /\ work' = [work EXCEPT ![p].pend = Tail(work[p].pend)]
           /\ UNCHANGED <<pc, first>>
  <2> DEFINE w == [work[p] EXCEPT !.pend = Tail(work[p].pend)]
  <2>1. w \in Work /\ work' = [work EXCEPT ![p] = w]
      BY <1>4, <1>5, <1>9 DEF Work
  <2>2. /\ work'[p] = w /\ w.pend = Tail(work[p].pend) /\ w.idx = work[p].idx
        /\ w.addr = work[p].addr
      BY <1>4, <2>1 DEF Work
  <2>3. LocalOK(p)'
      BY <1>1, <1>3, <1>9, <2>2 DEF LocalOK, PolicyAt, Healthy
  <2>4. QED
      BY <1>1, <1>7, <1>9, <2>1, <2>3, SetOnly
<1>10. CASE /\ work' = [work EXCEPT ![p].pend = Tail(work[p].pend), ![p].idx = @ + 1]
            /\ Goto(p, "policy") /\ UNCHANGED first
  <2> DEFINE w == [work[p] EXCEPT !.pend = Tail(work[p].pend), !.idx = @ + 1]
  <2>1. w \in Work /\ work' = [work EXCEPT ![p] = w]
    <3>1. work[p].idx + 1 \in Nat \ {0}
        BY <1>1, NextIdx
    <3>2. w \in Work
        BY <1>4, <1>5, <3>1 DEF Work
    <3>3. work' = [work EXCEPT ![p] = w]
        BY <1>4, <1>10
    <3>4. QED
        BY <3>2, <3>3
  <2>2. pc'[p] = "policy" /\ "policy" \in Labels(p)
      BY <1>2, <1>4, <1>10 DEF Goto, ReconcileLabels
  <2>3. LocalOK(p)'
      BY <2>2 DEF LocalOK
  <2>4. QED
      BY <1>1, <1>7, <1>10, <2>1, <2>2, <2>3, MoveAndSet
<1>11. QED
    BY <1>8, <1>9, <1>10 DEF AddPolicyRule

-----------------------------------------------------------------------------
(* The steps of a cleanup.                                                 *)

LEMMA DropTableLocal ==
    ASSUME LocalInv, NEW p \in Process, DropTable(p) PROVE LocalInv'
<1>1. /\ TypeOK /\ pc[p] = "dropTable" /\ Goto(p, "dropList")
      /\ UNCHANGED <<ipRules, routes, world, conf, first, work>>
      /\ nft' = "absent" /\ chain' = <<>>
    BY DEF LocalInv, DropTable
<1>2. KernelOK'
    BY <1>1, EmptyType DEF TypeOK, KernelOK
<1>3. "dropList" \in Labels(p) \cap Plain
    BY <1>1, CleanerLabels DEF CleanupLabels, Plain, Label
<1>4. QED
    BY <1>1, <1>2, <1>3, MoveOnly

LEMMA ListForDropLocal ==
    ASSUME LocalInv, NEW p \in Process, ListForDrop(p) PROVE LocalInv'
<1>1. /\ TypeOK /\ KernelOK' /\ pc[p] = "dropList" /\ Goto(p, "dropRules")
      /\ UNCHANGED <<world, conf, first>>
    BY KernelSame DEF LocalInv, ListForDrop
<1> DEFINE found == {e \in RangeOf(Egresses(p)) : LooksPresent(e)}
           w == [work[p] EXCEPT !.todo = found]
<1>2. work[p] \in Work /\ conf[p] \in Config /\ pc \in [Process -> Label]
    BY <1>1 DEF TypeOK, ProcessOK
<1>3. found \subseteq Egress
    BY <1>2, ConfigAssumption DEF RangeOf, Egresses
<1>4. w \in Work /\ work' = [work EXCEPT ![p] = w]
    BY <1>2, <1>3 DEF ListForDrop, Work
<1>5. pc'[p] = "dropRules" /\ "dropRules" \in Labels(p)
    BY <1>1, <1>2, CleanerLabels DEF CleanupLabels, Goto
<1>6. LocalOK(p)'
    BY <1>5 DEF LocalOK
<1>7. QED
    BY <1>1, <1>4, <1>5, <1>6, MoveAndSet

LEMMA DropRuleLocal ==
    ASSUME LocalInv, NEW p \in Process, DropRule(p) PROVE LocalInv'
<1>1. /\ TypeOK /\ pc[p] = "dropRules" /\ ipRules' \subseteq ipRules
      /\ UNCHANGED <<nft, chain, routes, world, conf, first>>
    BY DEF LocalInv, DropRule
<1>2. KernelOK'
    BY <1>1 DEF TypeOK, KernelOK
<1>3. PICK n \in Nat \ {0} : work' = [work EXCEPT ![p].idx = n]
  <2>1. 1 \in Nat \ {0}
      OBVIOUS
  <2>2. QED
      BY <1>1, <2>1, NextIdx DEF DropRule
<1>4. PICK w \in Work : work' = [work EXCEPT ![p] = w]
    BY <1>1, <1>3, SetIdx
<1>5. CASE UNCHANGED pc
  <2>1. LocalOK(p)'
      BY <1>1, <1>5 DEF LocalOK
  <2>2. QED
      BY <1>1, <1>2, <1>4, <1>5, <2>1, SetOnly
<1>6. CASE Goto(p, "dropRoutes")
  <2>1. pc'[p] = "dropRoutes" /\ "dropRoutes" \in Labels(p)
      BY <1>1, <1>6, CleanerLabels DEF CleanupLabels, Goto, TypeOK, ProcessOK
  <2>2. LocalOK(p)'
      BY <2>1 DEF LocalOK
  <2>3. QED
      BY <1>1, <1>2, <1>4, <1>6, <2>1, <2>2, MoveAndSet
<1>7. QED
    BY <1>5, <1>6 DEF DropRule

LEMMA DropRouteLocal ==
    ASSUME LocalInv, NEW p \in Process, DropRoute(p) PROVE LocalInv'
<1>1. /\ TypeOK /\ pc[p] = "dropRoutes"
      /\ UNCHANGED <<nft, chain, ipRules, world, conf, first>>
    BY DEF LocalInv, DropRoute
<1>2. KernelOK'
  <2>1. routes' \in [Egress -> Addr \cup {NoAddr, Dropped}]
      BY <1>1 DEF DropRoute, TypeOK, KernelOK
  <2>2. QED
      BY <1>1, <2>1 DEF TypeOK, KernelOK
<1>3. CASE UNCHANGED pc /\ work' = [work EXCEPT ![p].idx = work[p].idx + 1]
  <2>1. PICK w \in Work : work' = [work EXCEPT ![p] = w]
      BY <1>1, <1>3, NextIdx, SetIdx
  <2>2. LocalOK(p)'
      BY <1>1, <1>3 DEF LocalOK
  <2>3. QED
      BY <1>1, <1>2, <1>3, <2>1, <2>2, SetOnly
<1>4. CASE Goto(p, "cleaned") /\ UNCHANGED work
  <2>1. "cleaned" \in Labels(p) \cap Plain
      BY <1>1, CleanerLabels DEF CleanupLabels, Plain, Label
  <2>2. QED
      BY <1>1, <1>2, <1>4, <2>1, MoveOnly
<1>5. QED
    BY <1>3, <1>4 DEF DropRoute

(* Leaving a reconcile or a cleanup for label l.                           *)
LEMMA LeaveLocal ==
    ASSUME LocalInv, KernelOK', NEW p \in Process, NEW l \in Labels(p) \cap Plain,
           Leave(p, l), UNCHANGED <<up, host, file, conf, first>>, events' \in 0..MaxEvents
    PROVE  LocalInv'
<1>1. /\ pc' \in [Process -> Label] /\ \A q \in Process : pc'[q] \in Labels(q)
      /\ work' \in [Process -> Work] /\ pc'[p] = l
      /\ \A q \in Process : q # p => pc'[q] = pc[q] /\ work'[q] = work[q]
    BY LeaveType DEF LocalInv
<1>2. TypeOK'
    BY <1>1 DEF LocalInv, TypeOK, WorldOK, ProcessOK
<1>3. LocalOK(p)'
    BY <1>1 DEF LocalOK, Plain
<1>4. QED
    BY <1>1, <1>2, <1>3, Others

LEMMA EndCleanupLocal ==
    ASSUME LocalInv, NEW p \in Process, EndCleanup(p) PROVE LocalInv'
<1>1. TypeOK /\ KernelOK' /\ Leave(p, "off") /\ UNCHANGED <<world, conf, first>>
    BY KernelSame DEF LocalInv, EndCleanup
<1>2. "off" \in Labels(p) \cap Plain
    BY DEF Labels, CleanupLabels, ReconcileLabels, Plain, Label
<1>3. UNCHANGED <<up, host, file>> /\ events' \in 0..MaxEvents
    BY <1>1 DEF world, TypeOK, WorldOK
<1>4. QED
    BY <1>1, <1>2, <1>3, LeaveLocal

-----------------------------------------------------------------------------
(* What happens around the processes.                                      *)

(* Nothing a process holds changes.                                        *)
LEMMA ProcessSame ==
    ASSUME LocalInv, KernelOK', WorldOK', UNCHANGED process
    PROVE  LocalInv'
<1>1. TypeOK'
    BY DEF LocalInv, TypeOK, ProcessOK, process
<1>2. ASSUME NEW p \in Process PROVE LocalOK(p)'
    BY DEF LocalInv, LocalOK, Egresses, PolicyAt, Healthy, process
<1>3. QED
    BY <1>1, <1>2 DEF LocalInv

(* A failing command of a cleanup moves it on like a successful one.       *)
LEMMA DeletionShape ==
    ASSUME TypeOK, DeletionFails
    PROVE  \E p \in Cleaners, n \in Nat \ {0}, l \in CleanupLabels \ {"off"} :
              /\ work' = [work EXCEPT ![p].lost = TRUE, ![p].idx = n] /\ Goto(p, l)
              /\ pc[p] \in CleanupLabels \ {"off"}
<1>1. PICK p \in Cleaners :
          \/ /\ pc[p] \in {"dropTable", "dropList"}
             /\ work' = [work EXCEPT ![p].lost = TRUE]
             /\ Goto(p, IF pc[p] = "dropTable" THEN "dropList" ELSE "dropRules")
          \/ /\ pc[p] \in {"dropRules", "dropRoutes"}
             /\ work' = [work EXCEPT ![p].lost = TRUE, ![p].idx = @ + 1]
             /\ UNCHANGED pc
    BY DEF DeletionFails
<1>2. p \in Process /\ work[p] \in Work /\ work \in [Process -> Work] /\ pc \in [Process -> Label]
    BY DEF TypeOK, ProcessOK, Process
<1>3. work[p].idx \in Nat \ {0} /\ work[p].idx + 1 \in Nat \ {0}
    BY <1>2, NextIdx DEF Work
<1>4. CASE /\ pc[p] \in {"dropTable", "dropList"}
           /\ work' = [work EXCEPT ![p].lost = TRUE]
           /\ Goto(p, IF pc[p] = "dropTable" THEN "dropList" ELSE "dropRules")
  <2> DEFINE l == IF pc[p] = "dropTable" THEN "dropList" ELSE "dropRules"
  <2>1. l \in CleanupLabels \ {"off"} /\ Goto(p, l) /\ pc[p] \in CleanupLabels \ {"off"}
      BY <1>4 DEF CleanupLabels
  <2>2. [work[p] EXCEPT !.lost = TRUE] = [work[p] EXCEPT !.lost = TRUE, !.idx = work[p].idx]
      BY <1>2 DEF Work
  <2>3. work' = [work EXCEPT ![p].lost = TRUE, ![p].idx = work[p].idx]
      BY <1>2, <1>4, <2>2
  <2> HIDE DEF l
  <2>4. QED
      BY <1>3, <2>1, <2>3
<1>5. CASE /\ pc[p] \in {"dropRules", "dropRoutes"}
           /\ work' = [work EXCEPT ![p].lost = TRUE, ![p].idx = @ + 1]
           /\ UNCHANGED pc
  <2>1. pc[p] \in CleanupLabels \ {"off"} /\ Goto(p, pc[p])
      BY <1>2, <1>5 DEF CleanupLabels, Goto
  <2>2. work' = [work EXCEPT ![p].lost = TRUE, ![p].idx = work[p].idx + 1]
      BY <1>2, <1>5
  <2>3. QED
      BY <1>3, <2>1, <2>2
<1>6. QED
    BY <1>1, <1>4, <1>5

LEMMA EnvironmentLocal == ASSUME LocalInv, Environment PROVE LocalInv'
<1>0. TypeOK
    BY DEF LocalInv
<1>1. CASE LinkDown
  <2>1. PICK e \in Egress : /\ up' = [up EXCEPT ![e] = FALSE]
                            /\ \E r \in {NoAddr, Dropped, routes[e]} :
                                  routes' = [routes EXCEPT ![e] = r]
      BY <1>1 DEF LinkDown, Survives
  <2>2. events' \in 0..MaxEvents /\ UNCHANGED <<nft, chain, ipRules, host, file, process>>
      BY <1>0, <1>1, EventType DEF LinkDown
  <2>3. KernelOK' /\ WorldOK'
      BY <1>0, <2>1, <2>2 DEF TypeOK, KernelOK, WorldOK
  <2>4. QED
      BY <2>2, <2>3, ProcessSame
<1>2. CASE LinkUp
  <2>1. /\ events' \in 0..MaxEvents /\ UNCHANGED <<kernel, host, file, process>>
        /\ \E e \in Egress : up' = [up EXCEPT ![e] = TRUE]
      BY <1>0, <1>2, EventType DEF LinkUp
  <2>2. KernelOK' /\ WorldOK'
      BY <1>0, <2>1, KernelSame DEF TypeOK, WorldOK
  <2>3. QED
      BY <2>1, <2>2, ProcessSame
<1>3. CASE Dhcp
  <2>1. PICK e \in Egress, a \in Addr \cup {NoAddr} :
            /\ host' = [host EXCEPT ![e] = a]
            /\ \E r \in {NoAddr, Dropped, routes[e]} : routes' = [routes EXCEPT ![e] = r]
      BY <1>3, EgressAssumption DEF Dhcp, Survives
  <2>2. events' \in 0..MaxEvents /\ UNCHANGED <<nft, chain, ipRules, up, file, process>>
      BY <1>0, <1>3, EventType DEF Dhcp
  <2>3. KernelOK' /\ WorldOK'
      BY <1>0, <2>1, <2>2 DEF TypeOK, KernelOK, WorldOK
  <2>4. QED
      BY <2>2, <2>3, ProcessSame
<1>4. CASE EditConfig
  <2>1. /\ events' \in 0..MaxEvents /\ UNCHANGED <<kernel, up, host, process>>
        /\ file' \in Config
      BY <1>0, <1>4, EventType DEF EditConfig
  <2>2. KernelOK' /\ WorldOK'
      BY <1>0, <2>1, KernelSame DEF TypeOK, WorldOK
  <2>3. QED
      BY <2>1, <2>2, ProcessSame
<1>5. CASE CommandFails
  <2>1. PICK p \in Process : pc[p] \in Fallible /\ Fail(p)
      BY <1>5 DEF CommandFails
  <2>2. /\ events' \in 0..MaxEvents /\ KernelOK' /\ UNCHANGED <<up, host, file, conf>>
      BY <1>0, <1>5, EventType, KernelSame DEF CommandFails
  <2>3. p \notin Cleaners
      BY <1>0, <2>1, ReconcilerLabels DEF Fallible, ReconcileLabels
  <2> DEFINE l == IF p # Service THEN "off" ELSE IF first[p] THEN "failed" ELSE "sleep"
  <2>4. l \in Labels(p) \cap Plain
      BY <2>3 DEF Labels, ReconcileLabels, Plain, Label
  <2>5. Leave(p, l) /\ UNCHANGED first
      BY <2>1 DEF Fail
  <2> HIDE DEF l
  <2>6. QED
      BY <2>2, <2>4, <2>5, LeaveLocal
<1>6. CASE Crash
  <2>1. PICK p \in Process : Leave(p, IF p = Service THEN "failed" ELSE "off")
      BY <1>6 DEF Crash
  <2>2. /\ events' \in 0..MaxEvents /\ KernelOK' /\ UNCHANGED <<up, host, file, conf, first>>
      BY <1>0, <1>6, EventType, KernelSame DEF Crash
  <2> DEFINE l == IF p = Service THEN "failed" ELSE "off"
  <2>3. l \in Labels(p) \cap Plain
      BY ProcessAssumption DEF Labels, ReconcileLabels, CleanupLabels, Plain, Label
  <2>4. Leave(p, l)
      BY <2>1
  <2> HIDE DEF l
  <2>5. QED
      BY <2>2, <2>3, <2>4, LeaveLocal
<1>7. CASE Stop
  <2>1. /\ events' \in 0..MaxEvents /\ KernelOK' /\ UNCHANGED <<up, host, file, conf, first>>
        /\ Leave(Service, "off") /\ Service \in Process
      BY <1>0, <1>7, EventType, KernelSame DEF Stop, Process, Reconcilers
  <2>2. "off" \in Labels(Service) \cap Plain
      BY DEF Labels, ReconcileLabels, CleanupLabels, Plain, Label
  <2>3. QED
      BY <2>1, <2>2, LeaveLocal
<1>8. CASE DeletionFails
  <2>1. /\ events' \in 0..MaxEvents /\ KernelOK' /\ UNCHANGED <<up, host, file, conf, first>>
      BY <1>0, <1>8, EventType, KernelSame DEF DeletionFails
  <2>2. PICK p \in Cleaners, n \in Nat \ {0}, l \in CleanupLabels \ {"off"} :
            /\ work' = [work EXCEPT ![p].lost = TRUE, ![p].idx = n] /\ Goto(p, l)
            /\ pc[p] \in CleanupLabels \ {"off"}
      BY <1>0, <1>8, DeletionShape
  <2>3. p \in Process /\ l \in Labels(p)
      BY <2>2 DEF Process, Labels
  <2>4. /\ pc' \in [Process -> Label] /\ \A q \in Process : pc'[q] \in Labels(q)
        /\ pc'[p] = l /\ \A q \in Process : q # p => pc'[q] = pc[q]
      BY <1>0, <2>2, <2>3, GotoType
  <2> DEFINE w == [work[p] EXCEPT !.lost = TRUE, !.idx = n]
  <2>5. work[p] \in Work /\ work \in [Process -> Work]
      BY <1>0, <2>3 DEF TypeOK, ProcessOK
  <2>6. w \in Work /\ work' = [work EXCEPT ![p] = w]
      BY <2>2, <2>5 DEF Work
  <2>7. work' \in [Process -> Work] /\ \A q \in Process : q # p => work'[q] = work[q]
      BY <2>5, <2>6
  <2>8. TypeOK'
      BY <1>0, <2>1, <2>4, <2>7 DEF TypeOK, WorldOK, ProcessOK
  <2>9. LocalOK(p)'
      BY <2>2, <2>4 DEF LocalOK, CleanupLabels
  <2>10. QED
      BY <2>1, <2>3, <2>4, <2>7, <2>8, <2>9, Others
<1>9. QED
    BY <1>1, <1>2, <1>3, <1>4, <1>5, <1>6, <1>7, <1>8 DEF Environment

-----------------------------------------------------------------------------
(* The type invariant.                                                     *)

LEMMA RunLocal == ASSUME LocalInv, NEW p \in Process, Run(p) PROVE LocalInv'
<1>1. CASE ReconcileStep(p)
    BY <1>1, EnsureLocal, CheckHealthLocal, InspectRouteLocal, InspectAddrLocal,
       HealthKnownLocal, ReplaceRouteLocal,
       ListRulesLocal, AddRuleLocal, FlushAllLocal, FlushLocal, EndPoliciesLocal,
       SkipPolicyLocal, ResolveLocal, AddPolicyRuleLocal
    DEF ReconcileStep
<1>2. CASE CleanupStep(p)
    BY <1>2, DropTableLocal, ListForDropLocal, DropRuleLocal, DropRouteLocal, EndCleanupLocal
    DEF CleanupStep
<1>3. QED
    BY <1>1, <1>2, WakeLocal, StartLocal DEF Run

LEMMA InitLocal == Init => LocalInv
<1>1. SUFFICES ASSUME Init PROVE LocalInv
    OBVIOUS
<1>2. KernelOK
    BY <1>1, EmptyType DEF Init, KernelOK
<1>3. WorldOK
  <2>1. host \in [Egress -> Addr \cup {NoAddr}]
      BY <1>1, ConfigAssumption, EgressAssumption DEF Init
  <2>2. QED
      BY <1>1, <2>1, ProcessAssumption DEF Init, WorldOK
<1>4. ProcessOK
  <2>1. "off" \in Label /\ \A p \in Process : "off" \in Labels(p)
      BY DEF Label, Labels, ReconcileLabels, CleanupLabels
  <2>2. QED
      BY <1>1, <2>1, FreshType DEF Init, ProcessOK
<1>5. \A p \in Process : LocalOK(p)
    BY <1>1 DEF Init, LocalOK
<1>6. QED
    BY <1>2, <1>3, <1>4, <1>5 DEF LocalInv, TypeOK

LEMMA NextLocal == LocalInv /\ [Next]_vars => LocalInv'
<1>1. SUFFICES ASSUME LocalInv, [Next]_vars PROVE LocalInv'
    OBVIOUS
<1>2. CASE UNCHANGED vars
  <2>1. UNCHANGED <<kernel, world, process>>
      BY <1>2 DEF vars
  <2>2. KernelOK' /\ WorldOK'
      BY <1>1, <2>1, KernelSame DEF LocalInv, TypeOK, WorldOK, world
  <2>3. QED
      BY <1>1, <2>1, <2>2, ProcessSame
<1>3. CASE Next
    BY <1>1, <1>3, RunLocal, StartLocal, EnvironmentLocal DEF Next
<1>4. QED
    BY <1>1, <1>2, <1>3

(* Every state the processes reach is well typed: in particular a command  *)
(* and a cleanup run to their end once, and only the service ever sleeps.  *)
THEOREM TypeCorrect == Spec => []TypeOK
<1>1. LocalInv => TypeOK
    BY DEF LocalInv
<1>2. QED
    BY <1>1, InitLocal, NextLocal, PTL DEF Spec

-----------------------------------------------------------------------------
(* Marks always have their ip rule, whatever fails, crashes or is edited,  *)
(* if the listing test is exact and a cleanup runs alone and unfailing.    *)

(* The ip rules a reconcile has seen to so far: while it installs them,    *)
(* those of the healthy egresses it is done with; then, all of them.       *)
RuleOK(p) ==
    /\ pc[p] \in {"route", "listRules", "addRule"} => Healthy(p) \ work[p].todo \subseteq ipRules
    /\ pc[p] \in {"flush", "policy", "add"} => Healthy(p) \subseteq ipRules

(* While a cleanup runs, nothing else does ...                             *)
Alone == \A p \in Cleaners, q \in Process : q # p /\ pc[p] # "off" => pc[q] = "off"

(* ... and once it has deleted the nft table the chain stays empty.        *)
StaysEmpty == \A p \in Cleaners : pc[p] \notin {"off", "dropTable"} => chain = <<>>

(* The inductive invariant: MarkHasRule alone does not say why the rule a  *)
(* reconcile appends has an ip rule, nor why a cleanup may delete one.     *)
MarkInv ==
    /\ LocalInv /\ Alone /\ StaysEmpty /\ MarkHasRule
    /\ \A p \in Process : RuleOK(p)

(* A step of p that leaves the places of the others alone.                 *)
OnlyMoves(p) ==
    \A q \in Process : q # p => pc'[q] = pc[q] /\ work'[q] = work[q]

(* A process that was running keeps the cleanup alone.                     *)
LEMMA AloneKept ==
    ASSUME MarkInv, NEW p \in Process, pc[p] # "off", OnlyMoves(p)
    PROVE  Alone'
<1>1. SUFFICES ASSUME NEW c \in Cleaners, NEW q \in Process, q # c, pc'[c] # "off"
               PROVE  pc'[q] = "off"
    BY DEF Alone
<1>2. c \in Process
    BY DEF Process
<1>3. CASE c = p
    BY <1>1, <1>3 DEF MarkInv, Alone, OnlyMoves
<1>4. CASE c # p
  <2>1. pc[c] # "off"
      BY <1>1, <1>2, <1>4 DEF OnlyMoves
  <2>2. QED
      BY <1>4, <2>1 DEF MarkInv, Alone
<1>5. QED
    BY <1>3, <1>4

(* Where no ip rule is deleted the other processes keep what they know.    *)
LEMMA RulesGrow ==
    ASSUME MarkInv, NEW p \in Process, OnlyMoves(p), ipRules \subseteq ipRules', RuleOK(p)'
    PROVE  \A q \in Process : RuleOK(q)'
<1>1. SUFFICES ASSUME NEW q \in Process, q # p PROVE RuleOK(q)'
    OBVIOUS
<1>2. RuleOK(q) /\ pc'[q] = pc[q] /\ work'[q] = work[q]
    BY <1>1 DEF MarkInv, OnlyMoves
<1>3. QED
    BY <1>2 DEF RuleOK, Healthy

(* A step of a running reconciler.                                         *)
LEMMA ReconcilerKeeps ==
    ASSUME MarkInv, LocalInv', NEW p \in Process, p \notin Cleaners, pc[p] # "off",
           OnlyMoves(p), ipRules \subseteq ipRules', RuleOK(p)', MarkHasRule'
    PROVE  MarkInv'
<1>1. Alone' /\ \A q \in Process : RuleOK(q)'
    BY AloneKept, RulesGrow
<1>2. StaysEmpty'
  <2>1. ASSUME NEW c \in Cleaners PROVE pc'[c] = "off"
    <3>1. c \in Process /\ c # p
        BY DEF Process
    <3>2. pc[c] = "off"
        BY <3>1 DEF MarkInv, Alone
    <3>3. QED
        BY <3>1, <3>2 DEF OnlyMoves
  <2>2. QED
      BY <2>1 DEF StaysEmpty
<1>3. QED
    BY <1>1, <1>2 DEF MarkInv

(* The places where RuleOK says something.                                 *)
Installing == {"route", "listRules", "addRule", "flush", "policy", "add"}

(* A step that leaves the chain as it is or empties it, and the ip rules   *)
(* as they are, to a place where RuleOK says nothing.                      *)
LEMMA PlainMove ==
    ASSUME MarkInv, LocalInv', NEW p \in Process, p \notin Cleaners, pc[p] # "off",
           OnlyMoves(p), pc'[p] \notin Installing, ipRules' = ipRules,
           chain' = chain \/ chain' = <<>>
    PROVE  MarkInv'
<1>1. RuleOK(p)'
    BY DEF RuleOK, Installing
<1>2. MarkHasRule'
    BY DEF MarkInv, MarkHasRule
<1>3. QED
    BY <1>1, <1>2, ReconcilerKeeps

(* Failing with the kernel as it was.                                      *)
LEMMA FailKeeps ==
    ASSUME MarkInv, LocalInv', NEW p \in Process, p \notin Cleaners, pc[p] # "off",
           Fail(p), ipRules' = ipRules, chain' = chain
    PROVE  MarkInv'
<1>1. pc'[p] \in {"off", "failed", "sleep"} /\ OnlyMoves(p)
    BY FailType DEF MarkInv, LocalInv, OnlyMoves
<1>2. QED
    BY <1>1, PlainMove DEF Installing

-----------------------------------------------------------------------------
(* Each action of a reconcile preserves the invariant.                     *)

(* The steps that neither read nor write an ip rule or the chain.          *)
LEMMA PrepareMarks ==
    ASSUME MarkInv, LocalInv', NEW p \in Process,
           \/ Wake(p) \/ CheckTable(p) \/ AddTable(p) \/ CheckChain(p) \/ AddChain(p)
           \/ CheckHealth(p) \/ InspectRoute(p) \/ InspectAddr(p)
    PROVE  MarkInv'
<1>1. /\ TypeOK /\ ipRules' = ipRules /\ chain' = chain
      /\ pc[p] \in ReconcileLabels \cup {"sleep"} /\ pc[p] # "off"
      /\ pc[p] \notin Installing
    BY DEF MarkInv, LocalInv, Wake, CheckTable, AddTable, CheckChain, AddChain, CheckHealth,
           InspectRoute, InspectAddr, kernel, ReconcileLabels, Installing
<1>2. p \notin Cleaners
    BY <1>1, ReconcilerLabels
<1>3. CASE Fail(p)
    BY <1>1, <1>2, <1>3, FailKeeps
<1>4. CASE ~Fail(p)
  <2>1. pc \in [Process -> Label] /\ work \in [Process -> Work]
      BY <1>1 DEF TypeOK, ProcessOK
  <2>2. /\ \/ UNCHANGED pc
           \/ \E l \in {"table", "addTable", "chain", "addChain", "health", "inspect",
                        "inspectAddr"} : Goto(p, l)
        /\ \/ UNCHANGED work
           \/ \E a : work' = [work EXCEPT ![p].seen = a]
           \/ \E a : Checked(p, a)
      BY <1>4 DEF Wake, CheckTable, AddTable, CheckChain, AddChain, CheckHealth, InspectRoute,
                  InspectAddr
  <2>3. OnlyMoves(p) /\ pc'[p] \notin Installing
      BY <1>1, <2>1, <2>2 DEF OnlyMoves, Goto, Checked, Installing
  <2>4. QED
      BY <1>1, <1>2, <2>3, PlainMove
<1>5. QED
    BY <1>3, <1>4

LEMMA HealthKnownMarks ==
    ASSUME MarkInv, LocalInv', NEW p \in Process, HealthKnown(p) PROVE MarkInv'
<1>1. /\ TypeOK /\ pc[p] = "health" /\ UNCHANGED <<chain, ipRules>>
      /\ work' = [work EXCEPT ![p].todo = Healthy(p)]
      /\ pc \in [Process -> Label] /\ work \in [Process -> Work]
    BY DEF MarkInv, LocalInv, HealthKnown, kernel, TypeOK, ProcessOK
<1>2. p \notin Cleaners
    BY <1>1, ReconcilerLabels DEF ReconcileLabels
<1>3. PICK l \in {"route", "flushAll", "flush"} :
          Goto(p, l) /\ (l # "route" => Healthy(p) = {})
    BY DEF HealthKnown
<1>4. pc'[p] = l /\ OnlyMoves(p)
    BY <1>1, <1>3 DEF Goto, OnlyMoves
<1>5. work'[p].todo = Healthy(p) /\ Healthy(p)' = Healthy(p)
    BY <1>1 DEF Healthy, Work
<1>6. RuleOK(p)'
    BY <1>3, <1>4, <1>5 DEF RuleOK
<1>7. MarkHasRule'
    BY <1>1 DEF MarkInv, MarkHasRule
<1>8. QED
    BY <1>1, <1>2, <1>4, <1>6, <1>7, ReconcilerKeeps

LEMMA ReplaceRouteMarks ==
    ASSUME MarkInv, LocalInv', NEW p \in Process, ReplaceRoute(p) PROVE MarkInv'
<1>1. /\ TypeOK /\ pc[p] = "route" /\ UNCHANGED <<chain, ipRules>>
      /\ pc \in [Process -> Label] /\ work \in [Process -> Work]
    BY DEF MarkInv, LocalInv, ReplaceRoute, TypeOK, ProcessOK
<1>2. p \notin Cleaners
    BY <1>1, ReconcilerLabels DEF ReconcileLabels
<1>3. CASE Fail(p)
    BY <1>1, <1>2, <1>3, FailKeeps
<1>4. CASE \E e : work' = [work EXCEPT ![p].cur = e] /\ Goto(p, "listRules")
  <2>1. pc'[p] = "listRules" /\ OnlyMoves(p)
      BY <1>1, <1>4 DEF Goto, OnlyMoves
  <2>2. work'[p].todo = work[p].todo /\ Healthy(p)' = Healthy(p)
      BY <1>1, <1>4 DEF Healthy, Work
  <2>3. RuleOK(p)'
      BY <1>1, <2>1, <2>2 DEF MarkInv, RuleOK
  <2>4. MarkHasRule'
      BY <1>1 DEF MarkInv, MarkHasRule
  <2>5. QED
      BY <1>1, <1>2, <2>1, <2>3, <2>4, ReconcilerKeeps
<1>5. QED
    BY <1>3, <1>4 DEF ReplaceRoute

(* The egress in hand has its rule: one less to install.                   *)
LEMMA InstalledMarks ==
    ASSUME MarkInv, LocalInv', NEW p \in Process, p \notin Cleaners,
           pc[p] \in {"listRules", "addRule"}, Installed(p),
           ipRules' = ipRules \cup {work[p].cur}, UNCHANGED chain
    PROVE  MarkInv'
<1> DEFINE rest == work[p].todo \ {work[p].cur}
<1>1. pc \in [Process -> Label] /\ work \in [Process -> Work]
    BY DEF MarkInv, LocalInv, TypeOK, ProcessOK
<1>2. /\ pc'[p] \in {"flush", "route"} /\ (pc'[p] = "flush" => rest = {})
      /\ work' = [work EXCEPT ![p].todo = rest] /\ OnlyMoves(p)
    BY <1>1 DEF Installed, Goto, OnlyMoves
<1>3. work'[p].todo = rest /\ Healthy(p)' = Healthy(p)
    BY <1>1, <1>2 DEF Healthy, Work
<1>4. Healthy(p) \ work[p].todo \subseteq ipRules
    BY DEF MarkInv, RuleOK
<1>5. Healthy(p)' \ rest \subseteq ipRules'
    BY <1>3, <1>4
<1>6. RuleOK(p)'
    BY <1>2, <1>3, <1>5 DEF RuleOK
<1>7. MarkHasRule'
    BY DEF MarkInv, MarkHasRule
<1>8. QED
    BY <1>2, <1>6, <1>7, ReconcilerKeeps

LEMMA ListRulesMarks ==
    ASSUME ExactListing, MarkInv, LocalInv', NEW p \in Process, ListRules(p)
    PROVE  MarkInv'
<1>1. /\ TypeOK /\ pc[p] = "listRules" /\ UNCHANGED <<chain, ipRules>>
      /\ pc \in [Process -> Label] /\ work[p] \in Work /\ work[p].cur \in work[p].todo
    BY DEF MarkInv, LocalInv, LocalOK, ListRules, kernel, TypeOK, ProcessOK
<1>2. p \notin Cleaners
    BY <1>1, ReconcilerLabels DEF ReconcileLabels
<1>3. CASE LooksPresent(work[p].cur) /\ Installed(p)
  <2>1. work[p].cur \in Egress /\ ipRules \subseteq Egress
      BY <1>1 DEF Work, TypeOK, KernelOK
  <2>2. work[p].cur \in ipRules
      BY <1>3, <2>1 DEF ExactListing, LooksPresent
  <2>3. ipRules' = ipRules \cup {work[p].cur}
      BY <1>1, <2>2
  <2>4. QED
      BY <1>1, <1>2, <1>3, <2>3, InstalledMarks
<1>4. CASE Goto(p, "addRule") /\ UNCHANGED work
  <2>1. pc'[p] = "addRule" /\ OnlyMoves(p)
      BY <1>1, <1>4 DEF Goto, OnlyMoves
  <2>2. RuleOK(p)'
      BY <1>1, <1>4, <2>1 DEF MarkInv, RuleOK, Healthy
  <2>3. MarkHasRule'
      BY <1>1 DEF MarkInv, MarkHasRule
  <2>4. QED
      BY <1>1, <1>2, <2>1, <2>2, <2>3, ReconcilerKeeps
<1>5. QED
    BY <1>3, <1>4 DEF ListRules

LEMMA AddRuleMarks ==
    ASSUME MarkInv, LocalInv', NEW p \in Process, AddRule(p) PROVE MarkInv'
<1>1. TypeOK /\ pc[p] = "addRule" /\ UNCHANGED chain
    BY DEF MarkInv, LocalInv, AddRule
<1>2. p \notin Cleaners
    BY <1>1, ReconcilerLabels DEF ReconcileLabels
<1>3. CASE Fail(p) /\ UNCHANGED ipRules
    BY <1>1, <1>2, <1>3, FailKeeps
<1>4. CASE Installed(p) /\ ipRules' = ipRules \cup {work[p].cur}
    BY <1>1, <1>2, <1>4, InstalledMarks
<1>5. QED
    BY <1>3, <1>4 DEF AddRule

(* The ends of a reconcile.                                                *)
LEMMA FinishMarks ==
    ASSUME MarkInv, LocalInv', NEW p \in Process, FlushAll(p) \/ EndPolicies(p)
    PROVE  MarkInv'
<1>1. /\ TypeOK /\ pc[p] \in {"flushAll", "policy"} /\ ipRules' = ipRules
      /\ chain' = chain \/ chain' = <<>>
      /\ Finish(p) \/ (Fail(p) /\ chain' = chain)
    BY DEF MarkInv, LocalInv, FlushAll, EndPolicies, kernel
<1>2. p \notin Cleaners
    BY <1>1, ReconcilerLabels DEF ReconcileLabels
<1>3. CASE Fail(p) /\ chain' = chain
    BY <1>1, <1>2, <1>3, FailKeeps
<1>4. CASE Finish(p)
  <2>1. pc'[p] \in {"off", "failed", "sleep"} /\ OnlyMoves(p)
      BY <1>1, <1>2, <1>4, FinishType DEF OnlyMoves
  <2>2. QED
      BY <1>1, <1>2, <2>1, PlainMove DEF Installing
<1>5. QED
    BY <1>1, <1>3, <1>4

LEMMA FlushMarks ==
    ASSUME MarkInv, LocalInv', NEW p \in Process, Flush(p) PROVE MarkInv'
<1>1. /\ TypeOK /\ pc[p] = "flush" /\ ipRules' = ipRules
      /\ pc \in [Process -> Label] /\ work \in [Process -> Work]
    BY DEF MarkInv, LocalInv, Flush, TypeOK, ProcessOK
<1>2. p \notin Cleaners
    BY <1>1, ReconcilerLabels DEF ReconcileLabels
<1>3. CASE Fail(p) /\ UNCHANGED chain
    BY <1>1, <1>2, <1>3, FailKeeps
<1>4. CASE chain' = <<>> /\ work' = [work EXCEPT ![p].idx = 1] /\ Goto(p, "policy")
  <2>1. pc'[p] = "policy" /\ OnlyMoves(p)
      BY <1>1, <1>4 DEF Goto, OnlyMoves
  <2>2. Healthy(p)' = Healthy(p)
    <3>1. work'[p].addr = work[p].addr
        BY <1>1, <1>4 DEF Work
    <3>2. QED
        BY <3>1 DEF Healthy
  <2>3. RuleOK(p)'
      BY <1>1, <2>1, <2>2 DEF MarkInv, RuleOK
  <2>4. MarkHasRule'
      BY <1>4 DEF MarkHasRule
  <2>5. QED
      BY <1>1, <1>2, <2>1, <2>3, <2>4, ReconcilerKeeps
<1>5. QED
    BY <1>3, <1>4 DEF Flush

(* Choosing what to add for the next policy.                               *)
LEMMA ChooseMarks ==
    ASSUME MarkInv, LocalInv', NEW p \in Process, SkipPolicy(p) \/ Resolve(p)
    PROVE  MarkInv'
<1>1. /\ TypeOK /\ pc[p] = "policy" /\ UNCHANGED <<chain, ipRules>>
      /\ pc \in [Process -> Label] /\ work \in [Process -> Work]
    BY DEF MarkInv, LocalInv, SkipPolicy, Resolve, kernel, TypeOK, ProcessOK
<1>2. p \notin Cleaners
    BY <1>1, ReconcilerLabels DEF ReconcileLabels
<1>3. /\ \/ work' = [work EXCEPT ![p].idx = work[p].idx + 1]
         \/ \E ds : work' = [work EXCEPT ![p].pend = ds]
      /\ UNCHANGED pc \/ Goto(p, "add")
    BY DEF SkipPolicy, Resolve
<1>4. OnlyMoves(p) /\ pc'[p] \in {"policy", "add"}
    BY <1>1, <1>3 DEF Goto, OnlyMoves
<1>5. Healthy(p)' = Healthy(p)
  <2>1. work'[p].addr = work[p].addr
      BY <1>1, <1>3 DEF Work
  <2>2. QED
      BY <2>1 DEF Healthy
<1>6. RuleOK(p)'
    BY <1>1, <1>4, <1>5 DEF MarkInv, RuleOK
<1>7. MarkHasRule'
    BY <1>1 DEF MarkInv, MarkHasRule
<1>8. QED
    BY <1>1, <1>2, <1>4, <1>6, <1>7, ReconcilerKeeps

LEMMA AddPolicyRuleMarks ==
    ASSUME MarkInv, LocalInv', NEW p \in Process, AddPolicyRule(p) PROVE MarkInv'
<1>1. /\ TypeOK /\ pc[p] = "add" /\ UNCHANGED ipRules
      /\ pc \in [Process -> Label] /\ work \in [Process -> Work]
    BY DEF MarkInv, LocalInv, AddPolicyRule, TypeOK, ProcessOK
<1>2. p \notin Cleaners
    BY <1>1, ReconcilerLabels DEF ReconcileLabels
<1>3. CASE Fail(p) /\ UNCHANGED chain
    BY <1>1, <1>2, <1>3, FailKeeps
<1> DEFINE r == RuleFor(PolicyAt(p), Head(work[p].pend))
<1>4. CASE /\ chain' = Append(chain, r)
           /\ \/ work' = [work EXCEPT ![p].pend = Tail(work[p].pend)] /\ UNCHANGED pc
              \/ /\ work' = [work EXCEPT ![p].pend = Tail(work[p].pend), ![p].idx = @ + 1]
                 /\ Goto(p, "policy")
  <2>1. OnlyMoves(p) /\ pc'[p] \in {"policy", "add"}
      BY <1>1, <1>4 DEF Goto, OnlyMoves
  <2>2. Healthy(p)' = Healthy(p)
    <3>1. work'[p].addr = work[p].addr
        BY <1>1, <1>4 DEF Work
    <3>2. QED
        BY <3>1 DEF Healthy
  <2>3. RuleOK(p)'
      BY <1>1, <2>1, <2>2 DEF MarkInv, RuleOK
  <2>4. MarkHasRule'
    <3>1. r.mark \in Healthy(p) /\ Healthy(p) \subseteq ipRules
        BY <1>1 DEF MarkInv, LocalInv, LocalOK, RuleOK, RuleFor
    <3>2. chain \in Seq(Rule) /\ \A i \in DOMAIN chain : chain[i].mark \in ipRules
        BY <1>1 DEF MarkInv, MarkHasRule, TypeOK, KernelOK
    <3>3. ASSUME NEW i \in DOMAIN chain'
          PROVE  chain'[i] = r \/ (i \in DOMAIN chain /\ chain'[i] = chain[i])
        BY <1>4, <3>2, <3>3
    <3>4. QED
        BY <1>1, <3>1, <3>2, <3>3 DEF MarkHasRule
  <2>5. QED
      BY <1>1, <1>2, <2>1, <2>3, <2>4, ReconcilerKeeps
<1>5. QED
    BY <1>3, <1>4 DEF AddPolicyRule

-----------------------------------------------------------------------------
(* A cleanup deletes ip rules when no process but it runs and the chain is *)
(* empty.                                                                  *)
LEMMA CleanupMarks ==
    ASSUME MarkInv, LocalInv', NEW p \in Process,
           DropTable(p) \/ ListForDrop(p) \/ DropRule(p) \/ DropRoute(p)
    PROVE  MarkInv'
<1>1. /\ TypeOK /\ pc \in [Process -> Label] /\ work \in [Process -> Work]
      /\ pc[p] \in {"dropTable", "dropList", "dropRules", "dropRoutes"}
    BY DEF MarkInv, LocalInv, TypeOK, ProcessOK, DropTable, ListForDrop, DropRule, DropRoute
<1>2. p \in Cleaners
    BY <1>1, CleanerLabels DEF CleanupLabels
<1>3. chain' = <<>>
    BY <1>2 DEF MarkInv, StaysEmpty, DropTable, ListForDrop, DropRule, DropRoute, kernel
<1>4. /\ UNCHANGED pc \/ \E l \in {"dropList", "dropRules", "dropRoutes", "cleaned"} : Goto(p, l)
      /\ \/ UNCHANGED work
         \/ \E s : work' = [work EXCEPT ![p].todo = s]
         \/ \E n : work' = [work EXCEPT ![p].idx = n]
    BY DEF DropTable, ListForDrop, DropRule, DropRoute
<1>5. /\ OnlyMoves(p)
      /\ pc'[p] \in {"dropTable", "dropList", "dropRules", "dropRoutes", "cleaned"}
    BY <1>1, <1>4 DEF OnlyMoves, Goto
<1>6. Alone'
    BY <1>1, <1>5, AloneKept
<1>7. ASSUME NEW q \in Process PROVE RuleOK(q)'
  <2>1. CASE q = p
      BY <1>5, <2>1 DEF RuleOK
  <2>2. CASE q # p
    <3>1. pc'[q] = "off"
        BY <1>1, <1>2, <1>5, <2>2 DEF MarkInv, Alone, OnlyMoves
    <3>2. QED
        BY <3>1 DEF RuleOK
  <2>3. QED
      BY <2>1, <2>2
<1>8. QED
    BY <1>3, <1>6, <1>7 DEF MarkInv, StaysEmpty, MarkHasRule

(* Ending, killed or by itself, with the kernel as it was.                 *)
LEMMA LeaveMarks ==
    ASSUME MarkInv, LocalInv', NEW p \in Process, NEW l \in {"off", "failed"} \cap Labels(p),
           pc[p] # "off", Leave(p, l), UNCHANGED <<chain, ipRules>>
    PROVE  MarkInv'
<1>1. pc'[p] = l /\ OnlyMoves(p)
    BY LeaveType DEF MarkInv, LocalInv, OnlyMoves
<1>2. RuleOK(p)' /\ MarkHasRule'
    BY <1>1 DEF MarkInv, RuleOK, MarkHasRule
<1>3. Alone' /\ \A q \in Process : RuleOK(q)'
    BY <1>1, <1>2, AloneKept, RulesGrow
<1>4. StaysEmpty'
  <2>1. p \in Cleaners => l = "off"
      BY DEF Labels, CleanupLabels
  <2>2. QED
      BY <1>1, <2>1 DEF MarkInv, StaysEmpty, OnlyMoves, Process
<1>5. QED
    BY <1>2, <1>3, <1>4 DEF MarkInv

(* Loading the configuration, in a process that runs or may start.         *)
LEMMA LoadMarks ==
    ASSUME CleanupOrderly, MarkInv, LocalInv', NEW p \in Process,
           NEW l \in {"table", "dropTable"}, MayStart(p) \/ pc[p] # "off", Load(p, l),
           UNCHANGED <<chain, ipRules>>
    PROVE  MarkInv'
<1>1. pc'[p] = l /\ OnlyMoves(p)
    BY DEF Load, Goto, OnlyMoves, MarkInv, LocalInv, TypeOK, ProcessOK
<1>2. RuleOK(p)' /\ MarkHasRule'
    BY <1>1 DEF MarkInv, RuleOK, MarkHasRule
<1>3. \A q \in Process : RuleOK(q)'
    BY <1>1, <1>2, RulesGrow
<1>4. Alone'
  <2>1. CASE pc[p] # "off"
      BY <1>1, <2>1, AloneKept
  <2>2. CASE MayStart(p)
    <3>1. Cleaners # {} => \A q \in Process : pc[q] = "off"
        BY <2>2 DEF MayStart, CleanupOrderly
    <3>2. QED
        BY <1>1, <3>1 DEF Alone, OnlyMoves, Process
  <2>3. QED
      BY <2>1, <2>2
<1>5. StaysEmpty'
  <2>1. ASSUME NEW c \in Cleaners, pc'[c] \notin {"off", "dropTable"} PROVE chain = <<>>
    <3>1. CASE c # p
        BY <1>1, <2>1, <3>1 DEF MarkInv, StaysEmpty, OnlyMoves, Process
    <3>2. CASE c = p
        BY <1>1, <2>1, <3>2 DEF LocalInv, TypeOK, ProcessOK, Labels, CleanupLabels
    <3>3. QED
        BY <3>1, <3>2
  <2>2. QED
      BY <2>1 DEF StaysEmpty
<1>6. QED
    BY <1>2, <1>3, <1>4, <1>5 DEF MarkInv

LEMMA StartMarks ==
    ASSUME CleanupOrderly, MarkInv, LocalInv', NEW p \in Process,
           StartService(p) \/ StartCommand(p) \/ StartCleanup(p) \/ Restart(p)
    PROVE  MarkInv'
<1>1. /\ MayStart(p) \/ pc[p] # "off"
      /\ Load(p, "table") \/ Load(p, "dropTable")
      /\ UNCHANGED <<chain, ipRules>>
    BY DEF StartService, StartCommand, StartCleanup, Restart, kernel
<1>2. QED
    BY <1>1, LoadMarks

LEMMA EnvironmentMarks ==
    ASSUME CleanupOrderly, MarkInv, LocalInv', Environment PROVE MarkInv'
<1>1. TypeOK /\ UNCHANGED <<chain, ipRules>>
    BY DEF MarkInv, LocalInv, Environment, LinkDown, LinkUp, Dhcp, EditConfig, CommandFails,
           DeletionFails, Crash, Stop, kernel
<1>2. CASE UNCHANGED process
    BY <1>1, <1>2 DEF MarkInv, Alone, StaysEmpty, MarkHasRule, RuleOK, Healthy, process
<1>3. CASE CommandFails
  <2>1. PICK p \in Process : pc[p] \in Fallible /\ Fail(p)
      BY <1>3 DEF CommandFails
  <2>2. pc[p] # "off" /\ p \notin Cleaners
      BY <1>1, <2>1, ReconcilerLabels DEF Fallible, ReconcileLabels
  <2>3. QED
      BY <1>1, <2>1, <2>2, FailKeeps
<1>4. CASE Crash
  <2>1. PICK p \in Process : pc[p] # "off" /\ Leave(p, IF p = Service THEN "failed" ELSE "off")
      BY <1>4 DEF Crash
  <2> DEFINE l == IF p = Service THEN "failed" ELSE "off"
  <2>2. l \in {"off", "failed"} \cap Labels(p)
      BY ProcessAssumption DEF Labels, CleanupLabels, ReconcileLabels
  <2>3. Leave(p, l)
      BY <2>1
  <2> HIDE DEF l
  <2>4. QED
      BY <1>1, <2>1, <2>2, <2>3, LeaveMarks
<1>5. CASE Stop
  <2>1. Service \in Process /\ pc[Service] # "off" /\ Leave(Service, "off")
      BY <1>5 DEF Stop, Process, Reconcilers
  <2>2. "off" \in Labels(Service)
      BY DEF Labels, CleanupLabels, ReconcileLabels
  <2>3. QED
      BY <1>1, <2>1, <2>2, LeaveMarks
<1>6. ~DeletionFails
    BY DEF CleanupOrderly, DeletionFails
<1>7. QED
    BY <1>2, <1>3, <1>4, <1>5, <1>6 DEF Environment, LinkDown, LinkUp, Dhcp, EditConfig

-----------------------------------------------------------------------------
LEMMA RunMarks ==
    ASSUME ExactListing, CleanupOrderly, MarkInv, LocalInv', NEW p \in Process, Run(p)
    PROVE  MarkInv'
<1>1. CASE ReconcileStep(p)
    BY <1>1, PrepareMarks, HealthKnownMarks, ReplaceRouteMarks, ListRulesMarks, AddRuleMarks,
       FinishMarks, FlushMarks, ChooseMarks, AddPolicyRuleMarks
    DEF ReconcileStep
<1>2. CASE EndCleanup(p)
  <2>1. /\ "off" \in Labels(p) /\ pc[p] # "off" /\ Leave(p, "off")
        /\ UNCHANGED <<chain, ipRules>>
      BY <1>2 DEF Labels, CleanupLabels, ReconcileLabels, EndCleanup, kernel
  <2>2. QED
      BY <2>1, LeaveMarks
<1>3. CASE CleanupStep(p) /\ ~EndCleanup(p)
    BY <1>3, CleanupMarks DEF CleanupStep
<1>4. QED
    BY <1>1, <1>2, <1>3, PrepareMarks, StartMarks DEF Run, CleanupStep

LEMMA InitMarks == Init => MarkInv
<1>1. SUFFICES ASSUME Init PROVE MarkInv
    OBVIOUS
<1>2. LocalInv /\ chain = <<>> /\ \A p \in Process : pc[p] = "off"
    BY <1>1, InitLocal DEF Init
<1>3. Alone /\ StaysEmpty /\ MarkHasRule /\ \A p \in Process : RuleOK(p)
    BY <1>2 DEF Alone, StaysEmpty, MarkHasRule, RuleOK
<1>4. QED
    BY <1>2, <1>3 DEF MarkInv

LEMMA NextMarks ==
    ASSUME ExactListing, CleanupOrderly PROVE MarkInv /\ [Next]_vars => MarkInv'
<1>1. SUFFICES ASSUME MarkInv, [Next]_vars PROVE MarkInv'
    OBVIOUS
<1>2. LocalInv'
    BY <1>1, NextLocal DEF MarkInv
<1>3. CASE UNCHANGED vars
  <2>1. UNCHANGED <<chain, ipRules, pc, work>>
      BY <1>3 DEF vars, kernel, process
  <2>2. QED
      BY <1>1, <1>2, <2>1 DEF MarkInv, Alone, StaysEmpty, MarkHasRule, RuleOK, Healthy
<1>4. CASE Next
    BY <1>1, <1>2, <1>4, RunMarks, StartMarks, EnvironmentMarks DEF Next
<1>5. QED
    BY <1>1, <1>3, <1>4

(* Whatever fails, crashes, flaps or is edited, and however many           *)
(* reconciles run beside each other, no packet is marked for an egress     *)
(* whose mark no ip rule sends to a route table: installing before the     *)
(* flush (runtime.rs:68-73) and deleting the nft table before the rules    *)
(* (cleanup.rs:6-17) suffice, if the listing test is exact and a cleanup   *)
(* runs alone.                                                             *)
THEOREM MarksAreSafe ==
    ASSUME ExactListing, CleanupOrderly PROVE Spec => []MarkHasRule
<1>1. MarkInv => MarkHasRule
    BY DEF MarkInv
<1>2. MarkInv /\ [Next]_vars => MarkInv'
    BY NextMarks
<1>3. QED
    BY <1>1, <1>2, InitMarks, PTL DEF Spec
=============================================================================
