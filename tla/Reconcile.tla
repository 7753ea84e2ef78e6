----------------------------- MODULE Reconcile -----------------------------
(***************************************************************************)
(* The policy-routing runtime of eve-net: src/runtime.rs with the nft and  *)
(* ip commands it issues (src/routing), the health and direct-egress       *)
(* inspection it bases them on, and src/cleanup.rs.                        *)
(*                                                                         *)
(* Three kinds of process share one kernel: the service (`eve-net run`),   *)
(* the command line (`eve-net reconcile`) and `eve-net cleanup`.  Each     *)
(* external command a process runs is one action; between two commands of  *)
(* a process anything may happen: another process runs its own, a link     *)
(* goes down, DHCP moves the host to another address, the configuration    *)
(* file is edited, a command fails, a process is killed.                   *)
(***************************************************************************)
EXTENDS Naturals, Sequences

CONSTANTS
    Egress,       \* egress interfaces; each has its own fwmark and route table
    Direct,       \* those of kind "direct"
    Policy,       \* policies
    Dest,         \* destinations a policy's nft rules match
    Ip,           \* IP addresses
    Leases,       \* gateways and source addresses DHCP may give the host
    NoAddr,       \* "no address" / "no route": not a member of Addr
    Dropped,      \* "no route": the kernel removed it, with the link or the address
    NoEgress,     \* "no egress": not a member of Egress
    Config,       \* contents the configuration file may have
    NoConfig,     \* "no configuration": not a member of Config
    Listed,       \* Listed[c]: the egresses of c, in file order
    Enabled,      \* Enabled[c]: those with enabled = true
    Configured,   \* Configured[c][e]: gateway and source_ip of e in c
    AutoRefresh,  \* runtime.auto_refresh_direct_egress
    FailClosed,   \* runtime.fail_closed
    Policies,     \* Policies[c]: the enabled policies of c, in file order
    EgressOf,     \* EgressOf[p]: action.egress
    Yields,       \* Yields[p]: the destination lists a resolution of p may give
    Shows,        \* <<e, f>>: the line of f's ip rule passes the test for e's
    Service,      \* the process of eve-net.service
    Commands,     \* processes of `eve-net reconcile --apply`
    Cleaners,     \* processes of `eve-net cleanup --apply`
    Serialized,   \* the operator starts a process only when no other one runs
    DeletesFail,  \* commands of a cleanup may fail
    MaxEvents     \* bound on environment events

Reconcilers == {Service} \cup Commands
Process     == Reconcilers \cup Cleaners
Addr        == Ip \X Ip    \* gateway and source address of an egress
Rule        == [policy : Policy, dest : Dest, mark : Egress]
RangeOf(s)  == {s[i] : i \in DOMAIN s}

ASSUME EgressAssumption ==
    /\ Direct \subseteq Egress
    /\ NoEgress \notin Egress
    /\ Leases \subseteq Addr
    /\ NoAddr \notin Addr /\ Dropped \notin Addr \cup {NoAddr}
    /\ Shows \subseteq Egress \X Egress

ASSUME ConfigAssumption ==
    /\ NoConfig \notin Config
    /\ Listed \in [Config -> Seq(Egress)]
    /\ Enabled \in [Config -> SUBSET Egress]
    /\ Configured \in [Config -> [Egress -> Addr]]
    /\ AutoRefresh \in [Config -> BOOLEAN]
    /\ FailClosed \in [Config -> BOOLEAN]
    /\ Policies \in [Config -> Seq(Policy)]
    /\ EgressOf \in [Policy -> Egress]
    /\ Yields \in [Policy -> SUBSET Seq(Dest)]

ASSUME ProcessAssumption ==
    /\ Service \notin Commands \cup Cleaners
    /\ Commands \cap Cleaners = {}
    /\ Serialized \in BOOLEAN
    /\ DeletesFail \in BOOLEAN
    /\ MaxEvents \in Nat

VARIABLES
    nft,      \* what exists of the nft table: "absent", "table" or "chain"
    chain,    \* the rules of the output chain, in evaluation order
    ipRules,  \* egresses with a fwmark -> table ip rule
    routes,   \* routes[e]: gateway and source of the default route in e's table
    up,       \* up[e]: e exists, is up, and its health check would pass
    host,     \* host[e]: gateway and source address the host has on e
    file,     \* the configuration file
    events,   \* environment events so far
    pc,       \* pc[p]: the command p runs next
    conf,     \* conf[p]: the configuration p loaded at its start
    first,    \* first[p]: no reconcile of p has returned yet
    work      \* work[p]: the local variables of the reconcile or cleanup p is in

kernel  == <<nft, chain, ipRules, routes>>
world   == <<up, host, file, events>>
process == <<pc, conf, first, work>>
vars    == <<kernel, world, process>>

(* The local variables: the healthy egresses, each with the addresses to   *)
(* use for it (NoAddr: not healthy), what the default route of a direct    *)
(* egress being inspected names, the egresses still to handle, the one in  *)
(* hand, the position in a list, the destinations of a policy still to     *)
(* add, and (not in the code) whether a command of the cleanup failed.     *)
Work == [addr : [Egress -> Addr \cup {NoAddr}], seen : Addr \cup {NoAddr},
         todo : SUBSET Egress, cur : Egress \cup {NoEgress}, idx : Nat \ {0},
         pend : Seq(Dest), lost : BOOLEAN]
Fresh == [addr |-> [e \in Egress |-> NoAddr], seen |-> NoAddr, todo |-> {},
          cur |-> NoEgress, idx |-> 1, pend |-> <<>>, lost |-> FALSE]

Healthy(p)  == {e \in Egress : work[p].addr[e] # NoAddr}
Egresses(p) == Listed[conf[p]]
PolicyAt(p) == Policies[conf[p]][work[p].idx]

Building(p) == pc[p] \in {"policy", "add"}
NoRoute(e)  == routes[e] \in {NoAddr, Dropped}

(* The commands a process may be about to run.  A command runs once; only  *)
(* the service sleeps between reconciles and is restarted when it failed.  *)
ReconcileLabels ==
    {"off", "table", "addTable", "chain", "addChain", "health", "inspect", "inspectAddr",
     "route", "listRules", "addRule", "flushAll", "flush", "policy", "add"}
CleanupLabels ==
    {"off", "dropTable", "dropList", "dropRules", "dropRoutes", "cleaned"}
Label == ReconcileLabels \cup CleanupLabels \cup {"sleep", "failed"}
Labels(p) == IF p \in Cleaners THEN CleanupLabels
             ELSE IF p = Service THEN ReconcileLabels \cup {"sleep", "failed"}
             ELSE ReconcileLabels

-----------------------------------------------------------------------------
(* Control flow shared by the steps.                                       *)

Goto(p, l) == pc' = [pc EXCEPT ![p] = l]

(* The process leaves reconcile_once or cleanup for label l.               *)
Leave(p, l) == Goto(p, l) /\ work' = [work EXCEPT ![p] = Fresh]

(* reconcile_once returned Ok: the service sleeps, a command exits.        *)
Finish(p) ==
    /\ Leave(p, IF p = Service THEN "sleep" ELSE "off")
    /\ first' = [first EXCEPT ![p] = FALSE]

(* Variant: a command that failed keeps looping like the service.          *)
FailKeepsLooping(p) ==
    /\ Leave(p, IF first[p] /\ p = Service THEN "failed" ELSE "sleep")
    /\ UNCHANGED first

(* reconcile_once returned Err: the first one ends the process with an     *)
(* error, later ones are only logged by the loop.                          *)
Fail(p) ==
    /\ Leave(p, IF p # Service THEN "off" ELSE IF first[p] THEN "failed" ELSE "sleep")
    /\ UNCHANGED first

(* The operator may start p: systemctl and reload-policy.sh stop the other *)
(* processes first; nothing else does.                                     *)
MayStart(p) == pc[p] = "off" /\ (Serialized => \A q \in Process : pc[q] = "off")

(* A new process reads the configuration file once and keeps it.           *)
Load(p, l) ==
    /\ Goto(p, l)
    /\ conf' = [conf EXCEPT ![p] = file]
    /\ first' = [first EXCEPT ![p] = TRUE]
    /\ UNCHANGED work

(* What the operator and the environment do counts as an event; MaxEvents  *)
(* bounds them all.                                                        *)
Event == events < MaxEvents /\ events' = events + 1

StartService(p) ==
    /\ p = Service
    /\ MayStart(p)
    /\ Load(p, "table")
    /\ UNCHANGED <<kernel, world>>

StartCommand(p) ==
    /\ p \in Commands
    /\ MayStart(p)
    /\ Load(p, "table")
    /\ Event
    /\ UNCHANGED <<kernel, up, host, file>>

(* Restart=on-failure in eve-net.service.                                  *)
Restart(p) ==
    /\ pc[p] = "failed"
    /\ Load(p, "table")
    /\ UNCHANGED <<kernel, world>>

(* time::sleep(interval_sec) elapsed: reconcile again with the same cfg.   *)
Wake(p) ==
    /\ pc[p] = "sleep"
    /\ Goto(p, "table")
    /\ UNCHANGED <<kernel, world, conf, first, work>>

-----------------------------------------------------------------------------
(* ensure_table_and_chain                                                  *)

CheckTable(p) ==
    /\ pc[p] = "table"
    /\ Goto(p, IF nft = "absent" THEN "addTable" ELSE "chain")
    /\ UNCHANGED <<kernel, world, conf, first, work>>

AddTable(p) ==
    /\ pc[p] = "addTable"
    /\ nft' = IF nft = "absent" THEN "table" ELSE nft
    /\ Goto(p, "chain")
    /\ UNCHANGED <<chain, ipRules, routes, world, conf, first, work>>

CheckChain(p) ==
    /\ pc[p] = "chain"
    /\ Goto(p, IF nft = "chain" THEN "health" ELSE "addChain")
    /\ UNCHANGED <<kernel, world, conf, first, work>>

(* `nft add chain` needs the table; an existing chain is left as it is.    *)
AddChain(p) ==
    /\ pc[p] = "addChain"
    /\ \/ /\ nft # "absent"
          /\ nft' = "chain"
          /\ Goto(p, "health")
          /\ UNCHANGED <<first, work>>
       \/ /\ nft = "absent"
          /\ Fail(p)
          /\ UNCHANGED nft
    /\ UNCHANGED <<chain, ipRules, routes, world, conf>>

-----------------------------------------------------------------------------
(* healthy_egress_map: the egresses in file order, one check at a time.    *)

EgressAt(p) == Egresses(p)[work[p].idx]

(* The egress in hand is healthy, to be used with addresses a (NoAddr: it  *)
(* is not healthy); on to the next one.                                    *)
Checked(p, a) ==
    work' = [work EXCEPT ![p].addr[EgressAt(p)] = a, ![p].idx = @ + 1, ![p].seen = NoAddr]

(* is_egress_healthy; a direct egress that is must still be inspected.     *)
CheckHealth(p) ==
    /\ pc[p] = "health"
    /\ work[p].idx <= Len(Egresses(p))
    /\ LET e == EgressAt(p)
           healthy == e \in Enabled[conf[p]] /\ up[e]
       IN \/ /\ healthy /\ e \in Direct
             /\ Goto(p, "inspect")
             /\ UNCHANGED work
          \/ /\ healthy /\ e \notin Direct
             /\ Checked(p, Configured[conf[p]][e])
             /\ UNCHANGED pc
          \/ /\ ~healthy
             /\ Checked(p, NoAddr)
             /\ UNCHANGED pc
    /\ UNCHANGED <<kernel, world, conf, first>>

(* apply_direct_egress_runtime_state asks the host for the default route   *)
(* through e first, which names a gateway and a source address ...         *)
InspectRoute(p) ==
    /\ pc[p] = "inspect"
    /\ work' = [work EXCEPT ![p].seen = host[EgressAt(p)]]
    /\ Goto(p, "inspectAddr")
    /\ UNCHANGED <<kernel, world, conf, first>>

(* What the two commands have told of e by now: the gateway of the first,  *)
(* the address of the second or, if e has none any more, of the first.     *)
Found(p, e) ==
    <<work[p].seen[1], IF host[e] # NoAddr THEN host[e][2] ELSE work[p].seen[2]>>

Usable(p, e) ==
    /\ work[p].seen # NoAddr
    /\ Found(p, e) = Configured[conf[p]][e] \/ AutoRefresh[conf[p]]

(* Variant: drift is tolerated, but the configured address is still used.  *)
InspectKeepsConfigured(p) ==
    /\ pc[p] = "inspectAddr"
    /\ LET e == EgressAt(p)
       IN \/ /\ Usable(p, e)
             /\ Checked(p, Configured[conf[p]][e])
             /\ Goto(p, "health")
             /\ UNCHANGED first
          \/ ~Usable(p, e) /\ Fail(p)
    /\ UNCHANGED <<kernel, world, conf>>

(* ... and then for the address, with DHCP possibly in between.  Where the *)
(* two differ from the configuration, they are used if auto-refresh allows *)
(* it.                                                                     *)
InspectAddr(p) ==
    /\ pc[p] = "inspectAddr"
    /\ LET e == EgressAt(p)
       IN \/ /\ Usable(p, e)
             /\ Checked(p, Found(p, e))
             /\ Goto(p, "health")
             /\ UNCHANGED first
          \/ ~Usable(p, e) /\ Fail(p)
    /\ UNCHANGED <<kernel, world, conf>>

(* Variant: the chain is rebuilt before routes and rules are installed.    *)
HealthKnownFlushFirst(p) ==
    /\ pc[p] = "health"
    /\ work[p].idx > Len(Egresses(p))
    /\ work' = [work EXCEPT ![p].todo = Healthy(p)]
    /\ Goto(p, "flush")
    /\ UNCHANGED <<kernel, world, conf, first>>

(* The branch after healthy_egress_map.                                    *)
HealthKnown(p) ==
    /\ pc[p] = "health"
    /\ work[p].idx > Len(Egresses(p))
    /\ work' = [work EXCEPT ![p].todo = Healthy(p)]
    /\ Goto(p, IF Healthy(p) # {} THEN "route"
               ELSE IF FailClosed[conf[p]] THEN "flushAll" ELSE "flush")
    /\ UNCHANGED <<kernel, world, conf, first>>

-----------------------------------------------------------------------------
(* ensure_route_table_default and ensure_fwmark_rule for each healthy      *)
(* egress, in the arbitrary order of a HashMap's values.                   *)

(* The kernel refuses a route through a link that is down, and one whose   *)
(* source address is not the host's ("Invalid prefsrc address"); one with  *)
(* another gateway than the host's it takes if that is on the link.        *)
RouteFits(p, e) == up[e] /\ (e \in Direct => work[p].addr[e] = host[e])
RoutePasses(p, e) ==
    up[e] /\ (e \in Direct => host[e] # NoAddr /\ work[p].addr[e][2] = host[e][2])

(* Variant: a refused route is only logged, as a refused deletion is.      *)
ReplaceRouteLogged(p) ==
    /\ pc[p] = "route"
    /\ \E e \in work[p].todo :
          /\ \/ RoutePasses(p, e) /\ routes' = [routes EXCEPT ![e] = work[p].addr[e]]
             \/ ~RouteFits(p, e) /\ UNCHANGED routes
          /\ work' = [work EXCEPT ![p].cur = e]
          /\ Goto(p, "listRules")
    /\ UNCHANGED <<nft, chain, ipRules, world, conf, first>>

ReplaceRoute(p) ==
    /\ pc[p] = "route"
    /\ \E e \in work[p].todo :
          \/ /\ RoutePasses(p, e)
             /\ routes' = [routes EXCEPT ![e] = work[p].addr[e]]
             /\ work' = [work EXCEPT ![p].cur = e]
             /\ Goto(p, "listRules")
             /\ UNCHANGED first
          \/ /\ ~RouteFits(p, e)
             /\ Fail(p)
             /\ UNCHANGED routes
    /\ UNCHANGED <<nft, chain, ipRules, world, conf>>

(* Does some line of `ip rule show` contain e's mark and e's table?        *)
LooksPresent(e) == \E f \in ipRules : <<e, f>> \in Shows

(* The egress in hand is installed: on to another one, or to the flush.    *)
Installed(p) ==
    LET rest == work[p].todo \ {work[p].cur}
    IN /\ work' = [work EXCEPT ![p].todo = rest]
       /\ Goto(p, IF rest = {} THEN "flush" ELSE "route")

ListRules(p) ==
    /\ pc[p] = "listRules"
    /\ \/ LooksPresent(work[p].cur) /\ Installed(p)
       \/ ~LooksPresent(work[p].cur) /\ Goto(p, "addRule") /\ UNCHANGED work
    /\ UNCHANGED <<kernel, world, conf, first>>

(* `ip rule add` of a rule that exists fails with EEXIST.                  *)
AddRule(p) ==
    /\ pc[p] = "addRule"
    /\ LET e == work[p].cur
       IN \/ /\ e \notin ipRules
             /\ ipRules' = ipRules \cup {e}
             /\ Installed(p)
             /\ UNCHANGED first
          \/ /\ e \in ipRules
             /\ Fail(p)
             /\ UNCHANGED ipRules
    /\ UNCHANGED <<nft, chain, routes, world, conf>>

-----------------------------------------------------------------------------
(* flush_policy_chain and the rules of the enabled policies.               *)

(* The flush of a reconcile without a healthy egress under fail_closed.    *)
FlushAll(p) ==
    /\ pc[p] = "flushAll"
    /\ \/ nft = "chain" /\ chain' = <<>> /\ Finish(p)
       \/ nft # "chain" /\ Fail(p) /\ UNCHANGED chain
    /\ UNCHANGED <<nft, ipRules, routes, world, conf>>

(* Variant: no flush; rules are added behind those of the last reconcile.  *)
FlushForgotten(p) ==
    /\ pc[p] = "flush"
    /\ nft = "chain"
    /\ work' = [work EXCEPT ![p].idx = 1]
    /\ Goto(p, "policy")
    /\ UNCHANGED <<kernel, world, conf, first>>

Flush(p) ==
    /\ pc[p] = "flush"
    /\ \/ /\ nft = "chain"
          /\ chain' = <<>>
          /\ work' = [work EXCEPT ![p].idx = 1]
          /\ Goto(p, "policy")
          /\ UNCHANGED first
       \/ /\ nft # "chain"
          /\ Fail(p)
          /\ UNCHANGED chain
    /\ UNCHANGED <<nft, ipRules, routes, world, conf>>

AllPoliciesDone(p) == work[p].idx > Len(Policies[conf[p]])

EndPolicies(p) ==
    /\ pc[p] = "policy"
    /\ AllPoliciesDone(p)
    /\ Finish(p)
    /\ UNCHANGED <<kernel, world, conf>>

(* The policy's egress is not healthy, or its domain gives no address.     *)
SkipPolicy(p) ==
    /\ pc[p] = "policy"
    /\ ~AllPoliciesDone(p)
    /\ \/ EgressOf[PolicyAt(p)] \notin Healthy(p)
       \/ <<>> \in Yields[PolicyAt(p)]
    /\ work' = [work EXCEPT ![p].idx = @ + 1]
    /\ UNCHANGED <<kernel, world, pc, conf, first>>

Resolve(p) ==
    /\ pc[p] = "policy"
    /\ ~AllPoliciesDone(p)
    /\ EgressOf[PolicyAt(p)] \in Healthy(p)
    /\ \E ds \in Yields[PolicyAt(p)] \ {<<>>} : work' = [work EXCEPT ![p].pend = ds]
    /\ Goto(p, "add")
    /\ UNCHANGED <<kernel, world, conf, first>>

RuleFor(policy, dest) == [policy |-> policy, dest |-> dest, mark |-> EgressOf[policy]]

(* Variant: `nft insert rule` in place of `nft add rule`.                  *)
InsertPolicyRule(p) ==
    /\ pc[p] = "add"
    /\ nft = "chain"
    /\ chain' = <<RuleFor(PolicyAt(p), Head(work[p].pend))>> \o chain
    /\ LET rest == Tail(work[p].pend)
       IN \/ /\ rest # <<>>
             /\ work' = [work EXCEPT ![p].pend = rest]
             /\ UNCHANGED pc
          \/ /\ rest = <<>>
             /\ work' = [work EXCEPT ![p].pend = rest, ![p].idx = @ + 1]
             /\ Goto(p, "policy")
    /\ UNCHANGED <<nft, ipRules, routes, world, conf, first>>

(* add_policy_rule for the next destination; after the last, next policy.  *)
AddPolicyRule(p) ==
    /\ pc[p] = "add"
    /\ \/ /\ nft = "chain"
          /\ chain' = Append(chain, RuleFor(PolicyAt(p), Head(work[p].pend)))
          /\ LET rest == Tail(work[p].pend)
             IN \/ /\ rest # <<>>
                   /\ work' = [work EXCEPT ![p].pend = rest]
                   /\ UNCHANGED pc
                \/ /\ rest = <<>>
                   /\ work' = [work EXCEPT ![p].pend = rest, ![p].idx = @ + 1]
                   /\ Goto(p, "policy")
          /\ UNCHANGED first
       \/ /\ nft # "chain"
          /\ Fail(p)
          /\ UNCHANGED chain
    /\ UNCHANGED <<nft, ipRules, routes, world, conf>>

-----------------------------------------------------------------------------
(* cleanup: the nft table, then the ip rules, then the route tables.       *)

(* Variant: the ip rules go first, while the nft table still marks.        *)
StartCleanupRulesFirst(p) ==
    /\ p \in Cleaners
    /\ MayStart(p)
    /\ Load(p, "dropList")
    /\ Event
    /\ UNCHANGED <<kernel, up, host, file>>

StartCleanup(p) ==
    /\ p \in Cleaners
    /\ MayStart(p)
    /\ Load(p, "dropTable")
    /\ Event
    /\ UNCHANGED <<kernel, up, host, file>>

DropTable(p) ==
    /\ pc[p] = "dropTable"
    /\ nft' = "absent"
    /\ chain' = <<>>
    /\ Goto(p, "dropList")
    /\ UNCHANGED <<ipRules, routes, world, conf, first, work>>

(* delete_fwmark_rules decides from one listing ...                        *)
ListForDrop(p) ==
    /\ pc[p] = "dropList"
    /\ work' = [work EXCEPT ![p].todo = {e \in RangeOf(Egresses(p)) : LooksPresent(e)}]
    /\ Goto(p, "dropRules")
    /\ UNCHANGED <<kernel, world, conf, first>>

(* Variant: the second loop goes on where the first one ended.             *)
DropRuleNoReset(p) ==
    /\ pc[p] = "dropRules"
    /\ \/ /\ work[p].idx <= Len(Egresses(p))
          /\ ipRules' = ipRules \ ({EgressAt(p)} \cap work[p].todo)
          /\ work' = [work EXCEPT ![p].idx = @ + 1]
          /\ UNCHANGED pc
       \/ /\ work[p].idx > Len(Egresses(p))
          /\ Goto(p, "dropRoutes")
          /\ UNCHANGED <<ipRules, work>>
    /\ UNCHANGED <<nft, chain, routes, world, conf, first>>

(* ... and deletes one rule at a time; a failing deletion is only logged.  *)
DropRule(p) ==
    /\ pc[p] = "dropRules"
    /\ \/ /\ work[p].idx <= Len(Egresses(p))
          /\ ipRules' = ipRules \ ({EgressAt(p)} \cap work[p].todo)
          /\ work' = [work EXCEPT ![p].idx = @ + 1]
          /\ UNCHANGED pc
       \/ /\ work[p].idx > Len(Egresses(p))
          /\ work' = [work EXCEPT ![p].idx = 1]
          /\ Goto(p, "dropRoutes")
          /\ UNCHANGED ipRules
    /\ UNCHANGED <<nft, chain, routes, world, conf, first>>

DropRoute(p) ==
    /\ pc[p] = "dropRoutes"
    /\ \/ /\ work[p].idx <= Len(Egresses(p))
          /\ routes' = [routes EXCEPT ![EgressAt(p)] = NoAddr]
          /\ work' = [work EXCEPT ![p].idx = @ + 1]
          /\ UNCHANGED pc
       \/ /\ work[p].idx > Len(Egresses(p))
          /\ Goto(p, "cleaned")
          /\ UNCHANGED <<routes, work>>
    /\ UNCHANGED <<nft, chain, ipRules, world, conf, first>>

EndCleanup(p) ==
    /\ pc[p] = "cleaned"
    /\ Leave(p, "off")
    /\ UNCHANGED <<kernel, world, conf, first>>

-----------------------------------------------------------------------------
(* What happens around the processes.                                      *)

(* What the kernel may do to the route of e: keep it, or remove it.        *)
Survives(e) == {routes[e], IF routes[e] = NoAddr THEN NoAddr ELSE Dropped}

(* A link goes down; with it, its routes may go.                           *)
LinkDown ==
    /\ Event
    /\ \E e \in Egress :
          /\ up[e]
          /\ up' = [up EXCEPT ![e] = FALSE]
          /\ \E r \in Survives(e) : routes' = [routes EXCEPT ![e] = r]
    /\ UNCHANGED <<nft, chain, ipRules, host, file, process>>

LinkUp ==
    /\ Event
    /\ \E e \in Egress : ~up[e] /\ up' = [up EXCEPT ![e] = TRUE]
    /\ UNCHANGED <<kernel, host, file, process>>

(* DHCP moves a direct egress to another address, loses or regains it; the *)
(* routes with the address that goes may go, in every table.               *)
Dhcp ==
    /\ Event
    /\ \E e \in Direct, a \in Leases \cup {NoAddr} :
          /\ a # host[e]
          /\ host' = [host EXCEPT ![e] = a]
          /\ \E r \in IF host[e] = NoAddr THEN {routes[e]} ELSE Survives(e) :
                routes' = [routes EXCEPT ![e] = r]
    /\ UNCHANGED <<nft, chain, ipRules, up, file, process>>

(* A script or refresh-direct-egress rewrites the configuration file.      *)
EditConfig ==
    /\ Event
    /\ \E c \in Config \ {file} : file' = c
    /\ UNCHANGED <<kernel, up, host, process>>

(* A command whose failure is not allowed fails.                           *)
Fallible == {"addTable", "addChain", "inspect", "inspectAddr", "route", "listRules",
             "addRule", "flushAll", "flush", "add"}

CommandFails ==
    /\ Event
    /\ \E p \in Process : pc[p] \in Fallible /\ Fail(p)
    /\ UNCHANGED <<kernel, up, host, file, conf>>

(* A command of a cleanup fails: run_allow_fail only logs it, and a failed *)
(* listing reads as one without any line (capture_or_empty).               *)
DeletionFails ==
    /\ DeletesFail
    /\ Event
    /\ \E p \in Cleaners :
          \/ /\ pc[p] = "dropTable" \/ pc[p] = "dropList"
             /\ work' = [work EXCEPT ![p].lost = TRUE]
             /\ Goto(p, IF pc[p] = "dropTable" THEN "dropList" ELSE "dropRules")
          \/ /\ pc[p] = "dropRules" \/ pc[p] = "dropRoutes"
             /\ work[p].idx <= Len(Egresses(p))
             /\ work' = [work EXCEPT ![p].lost = TRUE, ![p].idx = @ + 1]
             /\ UNCHANGED pc
    /\ UNCHANGED <<kernel, up, host, file, conf, first>>

(* A process dies between two commands: systemd restarts the service.      *)
Crash ==
    /\ Event
    /\ \E p \in Process :
          /\ pc[p] \notin {"off", "failed"}
          /\ Leave(p, IF p = Service THEN "failed" ELSE "off")
    /\ UNCHANGED <<kernel, up, host, file, conf, first>>

(* systemctl stop: SIGINT is only seen in the sleep; in a reconcile it is  *)
(* the stop timeout, with SIGKILL, that ends the process.                  *)
Stop ==
    /\ Event
    /\ pc[Service] # "off"
    /\ Leave(Service, "off")
    /\ UNCHANGED <<kernel, up, host, file, conf, first>>

-----------------------------------------------------------------------------
Init ==
    /\ nft = "absent" /\ chain = <<>> /\ ipRules = {}
    /\ routes = [e \in Egress |-> NoAddr]
    /\ up = [e \in Egress |-> TRUE]
    /\ file \in Config
    /\ host = [e \in Egress |-> IF e \in Direct THEN Configured[file][e] ELSE NoAddr]
    /\ pc = [p \in Process |-> "off"]
    /\ conf = [p \in Process |-> file]
    /\ first = [p \in Process |-> TRUE]
    /\ work = [p \in Process |-> Fresh]
    /\ events = 0

(* The steps a process takes by itself once started.                       *)
ReconcileStep(p) ==
    \/ CheckTable(p) \/ AddTable(p) \/ CheckChain(p) \/ AddChain(p)
    \/ CheckHealth(p) \/ InspectRoute(p) \/ InspectAddr(p) \/ HealthKnown(p)
    \/ ReplaceRoute(p) \/ ListRules(p) \/ AddRule(p)
    \/ FlushAll(p) \/ Flush(p) \/ EndPolicies(p) \/ SkipPolicy(p) \/ Resolve(p)
    \/ AddPolicyRule(p)

CleanupStep(p) ==
    DropTable(p) \/ ListForDrop(p) \/ DropRule(p) \/ DropRoute(p) \/ EndCleanup(p)

Run(p) == ReconcileStep(p) \/ CleanupStep(p) \/ Wake(p) \/ Restart(p)

Environment ==
    \/ LinkDown \/ LinkUp \/ Dhcp \/ EditConfig
    \/ CommandFails \/ DeletionFails \/ Crash \/ Stop

Next ==
    \/ \E p \in Process : Run(p) \/ StartService(p) \/ StartCommand(p) \/ StartCleanup(p)
    \/ Environment

Spec == Init /\ [][Next]_vars

(* A started process keeps running: its commands return (ping, nft and ip  *)
(* have timeouts or are immediate), sleeps end, systemd restarts a failed  *)
(* service.  Nobody is obliged to start anything.                          *)
FairSpec == Spec /\ \A p \in Process : WF_vars(Run(p))

-----------------------------------------------------------------------------
(* Properties.                                                             *)

KernelOK ==
    /\ nft \in {"absent", "table", "chain"}
    /\ chain \in Seq(Rule)
    /\ ipRules \subseteq Egress
    /\ routes \in [Egress -> Addr \cup {NoAddr, Dropped}]

WorldOK ==
    /\ up \in [Egress -> BOOLEAN]
    /\ host \in [Egress -> Addr \cup {NoAddr}]
    /\ file \in Config
    /\ events \in 0..MaxEvents

ProcessOK ==
    /\ pc \in [Process -> Label]
    /\ \A p \in Process : pc[p] \in Labels(p)
    /\ conf \in [Process -> Config]
    /\ first \in [Process -> BOOLEAN]
    /\ work \in [Process -> Work]

(* The type invariant; a command, which runs once, never sleeps, and a     *)
(* cleanup is never inside a reconcile.                                    *)
TypeOK == KernelOK /\ WorldOK /\ ProcessOK

(* The listing test is exact; a cleanup runs beside no other process and   *)
(* its commands work: the conditions under which the marks are safe.       *)
ExactListing == \A e, f \in Egress : <<e, f>> \in Shows <=> e = f
CleanupOrderly == Cleaners = {} \/ (Serialized /\ ~DeletesFail)

(* A policy stands once in a configuration: config.rs:371 refuses one with *)
(* the id of another.                                                      *)
PoliciesDistinct ==
    \A c \in Config : \A k, l \in DOMAIN Policies[c] :
        Policies[c][k] = Policies[c][l] => k = l

(* A packet is never marked for an egress whose mark no ip rule sends to a *)
(* route table: runtime.rs installs routes and rules before it flushes and *)
(* marks, and cleanup.rs deletes the nft table before the rules.           *)
MarkHasRule == \A i \in DOMAIN chain : chain[i].mark \in ipRules

(* When the policies are applied, every egress found healthy has its ip    *)
(* rule, and its table holds the route this reconcile chose: that and no   *)
(* other, or none because the kernel has removed it since, with the link   *)
(* or with the address (runtime.rs:68-73).                                 *)
InstalledBeforeMarked ==
    \A p \in Reconcilers : Building(p) =>
        \A e \in Healthy(p) : e \in ipRules /\ routes[e] \in {work[p].addr[e], Dropped}

(* The rules of policy q stand together in the chain, one for each of the  *)
(* first m destinations of ds, in that order.                              *)
Holds(q, ds, m) ==
    \E s \in 0..(Len(chain) - m) :
        /\ \A i \in DOMAIN chain : chain[i].policy = q <=> i \in (s + 1)..(s + m)
        /\ \A k \in 1..m : chain[s + k].dest = ds[k]

(* The chain holds the rules of c's policies before the n-th and those of  *)
(* the n-th but for the destinations in rest: in file order, once each,    *)
(* with the mark of the policy's egress, for the healthy egresses only.    *)
InFileOrder(c) ==
    \A i, j \in DOMAIN chain : i < j =>
        \E k, l \in DOMAIN Policies[c] :
            k <= l /\ Policies[c][k] = chain[i].policy /\ Policies[c][l] = chain[j].policy

MarkedFor(c, healthy) ==
    \A i \in DOMAIN chain :
        /\ chain[i].policy \in RangeOf(Policies[c])
        /\ chain[i].mark = EgressOf[chain[i].policy]
        /\ chain[i].mark \in healthy

Built(c, healthy, n, rest) ==
    /\ MarkedFor(c, healthy) /\ InFileOrder(c)
    /\ \A k \in DOMAIN Policies[c] :
          LET q == Policies[c][k]
          IN /\ k < n /\ EgressOf[q] \in healthy =>
                    \E ds \in Yields[q] : Holds(q, ds, Len(ds))
             /\ k = n /\ rest # <<>> =>
                    \E ds \in Yields[q] : \E m \in 0..Len(ds) :
                       Holds(q, ds, m) /\ rest = SubSeq(ds, m + 1, Len(ds))
             /\ k > n \/ (k = n /\ rest = <<>>) =>
                    \A i \in DOMAIN chain : chain[i].policy # q

(* While a reconcile applies its policies, and when it has applied the     *)
(* last, the chain is exactly what its configuration and the health it     *)
(* found call for, whatever an earlier, failed or killed reconcile left.   *)
ChainFollowsConfig ==
    \A p \in Reconcilers : Building(p) =>
        Built(conf[p], Healthy(p), work[p].idx, work[p].pend)

(* The chain is emptied at once and rebuilt in file order by one process   *)
(* at a time (runtime.rs:73-124), whatever fails, crashes or is edited:    *)
(* PolicyChain, with the configuration of the process that is adding       *)
(* rules as the builder.                                                   *)
Builder == IF \E p \in Process : Building(p)
           THEN conf[CHOOSE p \in Process : Building(p)] ELSE NoConfig

Abstract == INSTANCE PolicyChain WITH builder <- Builder

KeepsChainOrder == Abstract!Spec

(* A finished cleanup none of whose own commands failed leaves nothing of  *)
(* its configuration in the kernel, whatever state a killed reconcile or   *)
(* an earlier, failed or killed, cleanup left.                             *)
CleanupComplete ==
    \A p \in Cleaners : pc[p] = "cleaned" /\ ~work[p].lost =>
        /\ nft = "absent" /\ chain = <<>>
        /\ \A e \in RangeOf(Listed[conf[p]]) : e \notin ipRules /\ NoRoute(e)

(* Every direct egress that is up has an address, one the configuration    *)
(* of the service names unless auto-refresh is on.                         *)
DirectUsable ==
    LET c == conf[Service]
    IN \A e \in Direct \cap Enabled[c] \cap RangeOf(Listed[c]) :
          up[e] => /\ host[e] # NoAddr
                   /\ AutoRefresh[c] \/ host[e] = Configured[c][e]

(* The service sleeps on what c calls for with the links now up.           *)
Serving(c) ==
    LET healthy == {e \in Enabled[c] \cap RangeOf(Listed[c]) : up[e]}
    IN /\ pc[Service] = "sleep" /\ nft = "chain"
       /\ Built(c, healthy, Len(Policies[c]) + 1, <<>>)
       /\ healthy \subseteq ipRules
       /\ \A e \in healthy \cap Direct : routes[e] = host[e]

ServiceOn == pc[Service] # "off" /\ DirectUsable

(* Link flaps, DHCP, failing commands, crashes and reconciles run beside   *)
(* the service only disturb it for a while: if the service stays on and    *)
(* its direct egresses stay usable, then again and again it sleeps on a    *)
(* chain built for the current links (the loop of runtime.rs:41-53 with    *)
(* Restart=on-failure).                                                    *)
Recovers ==
    <>[]ServiceOn => []<>Serving(conf[Service])

(* iprule.rs:58 logs "fwmark rule already exists": where that branch is    *)
(* taken, the egress in hand has its rule.                                 *)
AlreadyExistsIsTrue ==
    \A p \in Reconcilers :
        pc[p] = "listRules" /\ LooksPresent(work[p].cur) => work[p].cur \in ipRules
=============================================================================
