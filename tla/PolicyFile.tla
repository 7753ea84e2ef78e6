----------------------------- MODULE PolicyFile -----------------------------
(***************************************************************************)
(* policy.json on disk and the programs that use it at the same time: the  *)
(* service, reload-policy.sh and `eve-net validate`, which read it, and    *)
(* `eve-net refresh-direct-egress` (src/direct_egress.rs) and the editing  *)
(* scripts, which read it, change it and write it back.  fs::write and     *)
(* Python's write_text truncate the file before they fill it, and nothing  *)
(* locks it.  Meanwhile DHCP moves the host to other addresses.            *)
(***************************************************************************)
EXTENDS PolicyConfig, Naturals

CONSTANTS
    Old,          \* contents the file may have at the beginning
    Leases,       \* gateway and address the host may get on a direct egress
    Service,      \* the process of eve-net.service
    Refreshers,   \* processes of `eve-net refresh-direct-egress --apply`
    Editors,      \* processes of the editing scripts
    Validators,   \* processes of `eve-net validate`
    Reloaders,    \* processes of reload-policy.sh
    MaxEvents     \* bound on starts, faults and changes of the host

Writers    == Refreshers \cup Editors
Inspectors == Refreshers \cup Validators
Process    == {Service} \cup Writers \cup Validators \cup Reloaders
Pair       == [gateway : Address, source : Address]
NoPair     == [gateway |-> NoAddr, source |-> NoAddr]

ASSUME FileAssumption ==
    /\ Old \subseteq Config /\ Leases \subseteq Pair
    /\ Service \notin Writers \cup Validators \cup Reloaders
    /\ Editors \cap Refreshers = {} /\ Validators \cap Writers = {}
    /\ Reloaders \cap (Writers \cup Validators) = {}
    /\ MaxEvents \in Nat

VARIABLES
    disk,        \* the file: "whole", "truncated" or "corrupt"
    content,     \* the configuration in a whole file
    host,        \* host[e]: gateway and address the host has on a direct egress
    link,        \* link[e]: "missing", "down", or "up"
    events,      \* events so far
    pc,          \* pc[p]: what p does next
    task,        \* task[p]: the local variables of p
    want,        \* (history) the first content with every finished edit made
    overlapped   \* (history) two programs have been between reading and writing

file    == <<disk, content>>
world   == <<host, link>>
history == <<want, overlapped>>
vars    == <<file, world, events, pc, task, history>>

(* The configuration in use (of a writer in the end: the one it writes),   *)
(* the script, the egresses still to inspect, the one in hand, what was    *)
(* seen of each, those whose inspection failed, which validate notes,      *)
(* whether validate warned; and (not in the code) the configuration a      *)
(* writer had read, and whether the host and the file have kept still.     *)
Task(c, s) == [conf |-> c, script |-> s, todo |-> {}, cur |-> {}, warned |-> FALSE,
               seen |-> [e \in Direct |-> NoPair], noted |-> {}, read |-> c, still |-> TRUE]

-----------------------------------------------------------------------------
Idle == Task(CHOOSE c \in Old : TRUE, CHOOSE s \in Script : TRUE)

Goto(p, l) == pc' = [pc EXCEPT ![p] = l]
Exit(p)    == Goto(p, "off") /\ task' = [task EXCEPT ![p] = Idle]
Event      == events < MaxEvents /\ events' = events + 1

(* The host or the file changes under those that have begun to inspect.    *)
Disturbed(t) == [q \in Process |-> [t[q] EXCEPT
                    !.still = @ /\ (q \in Inspectors => pc[q] \in {"off", "load", "again"})]]

(* An operator or a timer starts p; an editing script with its arguments.  *)
Start(p) ==
    /\ pc[p] = "off"
    /\ Event
    /\ Goto(p, IF p \in Reloaders THEN "stop" ELSE "load")
    /\ \/ p \in Editors /\ \E s \in Script : task' = [task EXCEPT ![p].script = s]
       \/ p \notin Editors /\ UNCHANGED task
    /\ UNCHANGED <<file, world, history>>

(* Config::load fails on a file that is no JSON, and so do the scripts.    *)
(* main.rs validates what every command loads; the service goes to         *)
(* "failed", from where systemd restarts it (Restart=on-failure).          *)
Unusable(p) ==
    \/ disk # "whole"
    \/ p \notin Editors /\ ~Valid(content)
    \/ p \in {Service} \cup Reloaders /\ content.dry
    \/ p \in Editors /\ ~Accepts(task[p].script, content)

(* Variant: every program that fails waits to be restarted.                *)
LoadFailsAndWaits(p) ==
    /\ pc[p] \in {"load", "once"}
    /\ Unusable(p)
    /\ Goto(p, "failed")
    /\ UNCHANGED <<file, world, events, task, history>>

LoadFails(p) ==
    /\ pc[p] \in {"load", "once"}
    /\ Unusable(p)
    /\ \/ p = Service /\ Goto(p, "failed") /\ UNCHANGED task
       \/ p # Service /\ Exit(p)
    /\ UNCHANGED <<file, world, events, history>>

(* The processes in a read-modify-write window besides p.                  *)
Others(p) == {q \in Writers \ {p} : pc[q] \in {"truncate", "write"}}

LoadToRun ==
    /\ pc[Service] = "load" /\ ~Unusable(Service)
    /\ Goto(Service, "running")
    /\ UNCHANGED <<file, world, events, task, history>>

LoadToEdit(p) ==
    /\ p \in Editors
    /\ pc[p] = "load" /\ ~Unusable(p)
    /\ task' = [task EXCEPT ![p].conf = Edited(task[p].script, content), ![p].read = content]
    /\ overlapped' = (overlapped \/ Others(p) # {})
    /\ Goto(p, "truncate")
    /\ UNCHANGED <<file, world, events, want>>

(* print_refresh_direct_egress loads the file that main.rs has loaded and  *)
(* validated once more; validate goes through all the enabled egresses.    *)
LoadToInspect(p) ==
    /\ p \in Inspectors
    /\ \/ /\ pc[p] = "load" /\ ~Unusable(p) /\ p \in Refreshers
          /\ Goto(p, "again")
          /\ UNCHANGED task
       \/ /\ \/ pc[p] = "load" /\ ~Unusable(p) /\ p \in Validators
             \/ pc[p] = "again" /\ disk = "whole"
          /\ task' = [task EXCEPT
                ![p].conf = content, ![p].read = content, ![p].still = TRUE,
                ![p].todo = On(content.egress) \cap (IF p \in Refreshers THEN Direct ELSE Egress),
                ![p].warned = \E q, r \in Present(content.policy) :
                                 q # r /\ DomainOf[q] = DomainOf[r] /\ DomainOf[q] # NoDomain]
          /\ Goto(p, "pick")
       \/ /\ pc[p] = "again" /\ disk # "whole"
          /\ Exit(p)
    /\ UNCHANGED <<file, world, events, history>>

-----------------------------------------------------------------------------
(* plan_refresh and validate_egress_interfaces.                            *)

Planned(p) == Direct \cap On(task[p].conf.egress)

(* The next egress, in the order of the file: validate warns of a missing  *)
(* link and of a direct one that is not up, and inspects a direct one      *)
(* otherwise.                                                              *)
Pick(p) ==
    /\ pc[p] = "pick"
    /\ \/ /\ task[p].todo # {}
          /\ LET e == CHOOSE x \in task[p].todo : TRUE
             IN IF p \in Refreshers \/ (e \in Direct /\ link[e] = "up")
                THEN /\ task' = [task EXCEPT ![p].cur = {e}, ![p].todo = @ \ {e}]
                     /\ Goto(p, "route")
                ELSE /\ task' = [task EXCEPT
                           ![p].todo = @ \ {e},
                           ![p].warned = @ \/ link[e] = "missing" \/ e \in Direct]
                     /\ UNCHANGED pc
       \/ /\ task[p].todo = {}
          /\ Goto(p, IF p \in Validators \/ Planned(p) = {} THEN "done" ELSE "reread")
          /\ UNCHANGED task
    /\ UNCHANGED <<file, world, events, history>>

Runtime(e) == IF link[e] = "missing" THEN NoPair ELSE host[e]

(* inspect_direct_egress asks for the default route first, which names the *)
(* gateway and the source address that DHCP gave with it ...               *)
InspectRoute(p) ==
    /\ pc[p] = "route"
    /\ \E e \in task[p].cur :
          task' = [task EXCEPT ![p].seen[e] = Runtime(e)]
    /\ Goto(p, "addr")
    /\ UNCHANGED <<file, world, events, history>>

(* Variant: only a difference is warned of, not a missing route or address.*)
InspectAddrOnlyDrift(p) ==
    /\ pc[p] = "addr"
    /\ \E e \in task[p].cur :
          LET addr == Runtime(e).source
              seen == [task[p].seen[e] EXCEPT !.source = IF addr = NoAddr THEN @ ELSE addr]
          IN task' = [task EXCEPT
                ![p].seen[e] = seen, ![p].cur = {},
                ![p].warned = @ \/ Drift(task[p].conf, e, seen) = "drift"]
    /\ Goto(p, "pick")
    /\ UNCHANGED <<file, world, events, history>>

(* ... and then for the address, which counts if there is one: DHCP may be *)
(* in between.                                                             *)
InspectAddr(p) ==
    /\ pc[p] = "addr"
    /\ \E e \in task[p].cur :
          LET addr == Runtime(e).source
              seen == [task[p].seen[e] EXCEPT !.source = IF addr = NoAddr THEN @ ELSE addr]
          IN task' = [task EXCEPT
                ![p].seen[e] = seen, ![p].cur = {},
                ![p].warned = @ \/ Drift(task[p].conf, e, seen) # "ok"]
    /\ Goto(p, "pick")
    /\ UNCHANGED <<file, world, events, history>>

(* One of the two commands fails: nothing is known of the egress, which a  *)
(* refresh skips and validate only notes: no warning (validate.rs:259-262).*)
InspectFails(p) ==
    /\ pc[p] \in {"route", "addr"}
    /\ Event
    /\ \E e \in task[p].cur :
          task' = [task EXCEPT ![p].seen[e] = NoPair, ![p].cur = {}, ![p].noted = @ \cup {e}]
    /\ Goto(p, "pick")
    /\ UNCHANGED <<file, world, history>>

-----------------------------------------------------------------------------
(* apply_refresh, and the writing of the scripts.                          *)

(* Variant: the source address is left as it was.                          *)
RefreshedGatewayOnly(p, c) ==
    [c EXCEPT !.gateway = [e \in Direct |->
        IF e \in Planned(p) /\ Drift(task[p].conf, e, task[p].seen[e]) = "drift"
        THEN task[p].seen[e].gateway ELSE @[e]]]

Refreshed(p, c) ==
    LET update == {e \in Planned(p) \cap Present(c.egress) :
                      Drift(task[p].conf, e, task[p].seen[e]) = "drift"}
    IN [c EXCEPT
          !.gateway = [e \in Direct |-> IF e \in update THEN task[p].seen[e].gateway ELSE @[e]],
          !.source  = [e \in Direct |-> IF e \in update THEN task[p].seen[e].source ELSE @[e]]]

(* Variant: the file planned from is not read again.                       *)
RereadSkipped(p) ==
    /\ pc[p] = "reread"
    /\ task' = [task EXCEPT ![p].conf = Refreshed(p, task[p].conf)]
    /\ overlapped' = (overlapped \/ Others(p) # {})
    /\ Goto(p, "truncate")
    /\ UNCHANGED <<file, world, events, want>>

(* The file is read again, and changed where the plan calls for it; it is  *)
(* written back even where nothing needs an update.                        *)
Reread(p) ==
    /\ pc[p] = "reread"
    /\ \/ /\ disk = "whole"
          /\ task' = [task EXCEPT ![p].conf = Refreshed(p, content), ![p].read = content,
                                  ![p].seen = Idle.seen]
          /\ overlapped' = (overlapped \/ Others(p) # {})
          /\ Goto(p, "truncate")
       \/ /\ disk # "whole"
          /\ Exit(p)
          /\ UNCHANGED overlapped
    /\ UNCHANGED <<file, world, events, want>>

Truncate(p) ==
    /\ pc[p] = "truncate"
    /\ disk' = "truncated"
    /\ Goto(p, "write")
    /\ UNCHANGED <<content, world, events, task, history>>

(* Where another program has written since the truncation, the longer of   *)
(* the two texts shows behind the shorter one.                             *)
Write(p) ==
    /\ pc[p] = "write"
    /\ LET c == task[p].conf
       IN \/ disk' = "whole" /\ content' = c
          \/ /\ disk = "corrupt" \/ (disk = "whole" /\ content # c)
             /\ disk' = "corrupt" /\ UNCHANGED content
    /\ want' = IF p \in Editors THEN Edited(task[p].script, want)
               ELSE [want EXCEPT !.gateway = task[p].conf.gateway, !.source = task[p].conf.source]
    /\ task' = [Disturbed(task) EXCEPT ![p].still = task[p].still]
    /\ Goto(p, "done")
    /\ UNCHANGED <<world, events, overlapped>>

End(p) ==
    /\ pc[p] = "done"
    /\ Exit(p)
    /\ UNCHANGED <<file, world, events, history>>

-----------------------------------------------------------------------------
(* The service, and reload-policy.sh: stop it, reconcile once, start it;   *)
(* if the reconcile fails, the script ends there (set -e).                 *)

(* Variant: systemd gives up restarting at some time.                      *)
RestartGivesUp ==
    /\ pc[Service] = "failed"
    /\ events < MaxEvents
    /\ Goto(Service, "load")
    /\ UNCHANGED <<file, world, events, task, history>>

Restart ==
    /\ pc[Service] = "failed"
    /\ Goto(Service, "load")
    /\ UNCHANGED <<file, world, events, task, history>>

StopService ==
    /\ pc[Service] # "off"
    /\ Event
    /\ Goto(Service, "off")
    /\ UNCHANGED <<file, world, task, history>>

ReloadStop(p) ==
    /\ pc[p] = "stop"
    /\ pc' = [pc EXCEPT ![p] = "once", ![Service] = "off"]
    /\ UNCHANGED <<file, world, events, task, history>>

ReloadOnce(p) ==
    /\ pc[p] = "once" /\ ~Unusable(p)
    /\ Goto(p, "start")
    /\ UNCHANGED <<file, world, events, task, history>>

ReloadStart(p) ==
    /\ pc[p] = "start"
    /\ pc' = [pc EXCEPT ![p] = "off",
                        ![Service] = IF @ \in {"off", "failed"} THEN "load" ELSE @]
    /\ UNCHANGED <<file, world, events, task, history>>

(* A process is killed where it stands, or a command of its fails; what it *)
(* had overwritten of another one's text is a mixture.                     *)
Crash(p) ==
    /\ pc[p] \notin {"off", "failed"}
    /\ Event
    /\ \/ UNCHANGED disk
       \/ pc[p] = "write" /\ disk = "whole" /\ disk' = "corrupt"
    /\ \/ p = Service /\ Goto(p, "failed") /\ UNCHANGED task
       \/ p # Service /\ Exit(p)
    /\ UNCHANGED <<content, world, history>>

Dhcp ==
    /\ Event
    /\ \E e \in Direct, a \in Leases : a # host[e] /\ host' = [host EXCEPT ![e] = a]
    /\ task' = Disturbed(task)
    /\ UNCHANGED <<file, link, pc, history>>

LinkChanges ==
    /\ Event
    /\ \E e \in On(content.egress), l \in {"missing", "down", "up"} :
          l # link[e] /\ link' = [link EXCEPT ![e] = l]
    /\ task' = Disturbed(task)
    /\ UNCHANGED <<file, host, pc, history>>

-----------------------------------------------------------------------------
Init ==
    /\ disk = "whole" /\ content \in Old
    /\ host = [e \in Direct |-> [gateway |-> content.gateway[e], source |-> content.source[e]]]
    /\ link = [e \in Egress |-> "up"]
    /\ events = 0
    /\ pc = [p \in Process |-> IF p = Service THEN "load" ELSE "off"]
    /\ task = [p \in Process |-> Idle]
    /\ want = content /\ overlapped = FALSE

Step(p) ==
    \/ LoadFails(p) \/ LoadToEdit(p) \/ LoadToInspect(p)
    \/ Pick(p) \/ InspectRoute(p) \/ InspectAddr(p)
    \/ Reread(p) \/ Truncate(p) \/ Write(p) \/ End(p)
    \/ ReloadStop(p) \/ ReloadOnce(p) \/ ReloadStart(p)

Next ==
    \/ \E p \in Process : Start(p) \/ Step(p) \/ InspectFails(p) \/ Crash(p)
    \/ LoadToRun \/ Restart \/ StopService
    \/ Dhcp \/ LinkChanges

Spec == Init /\ [][Next]_vars

(* Programs go on, and systemd restarts a failed service every 3 seconds,  *)
(* below its start limit.                                                  *)
FairSpec == Spec /\ WF_vars(LoadToRun \/ Restart) /\ \A p \in Process : WF_vars(Step(p))
-----------------------------------------------------------------------------
(* Properties.                                                             *)

(* The type invariant; a process keeps to the commands of its kind.        *)
TypeOK ==
    /\ disk \in {"whole", "truncated", "corrupt"}
    /\ content \in Config /\ want \in Config
    /\ host \in [Direct -> Pair] /\ link \in [Egress -> {"missing", "down", "up"}]
    /\ events \in 0..MaxEvents
    /\ \A p \in Process :
          /\ pc[p] \in {"off", "load"} \cup
                CASE p = Service -> {"running", "failed"}
                  [] p \in Editors -> {"truncate", "write", "done"}
                  [] p \in Refreshers -> {"again", "pick", "route", "addr", "reread",
                                         "truncate", "write", "done"}
                  [] p \in Validators -> {"pick", "route", "addr", "done"}
                  [] p \in Reloaders -> {"stop", "once", "start"}
          /\ task[p].conf \in Config /\ task[p].seen \in [Direct -> Pair]
          /\ task[p].todo \subseteq Egress
          /\ task[p].cur \subseteq Direct /\ task[p].noted \subseteq Direct

(* As long as no two programs are between reading and writing at the same  *)
(* time, no finished edit is lost, also not one made while a refresh was   *)
(* inspecting the host: apply_refresh reads the file again                 *)
(* (direct_egress.rs:170) and changes nothing but addresses.               *)
EditsKept == disk = "whole" /\ ~overlapped => content = want

(* What the scripts and the refresh write is accepted by Config::validate  *)
(* if what they read was, except exactly where a script overlooks what     *)
(* config.rs:329-406 rejects and the service will not start again.         *)
WritersKeepValid ==
    \A p \in Writers : pc[p] \in {"truncate", "write"} /\ Valid(task[p].read) =>
        (Valid(task[p].conf) <=> p \in Refreshers \/ ~Overlooks(task[p].script, task[p].read))

(* If the host and the file kept still since its inspection began, a       *)
(* refresh leaves no drift, save on an egress it could not inspect: the    *)
(* next plan, and validate, find none (direct_egress.rs:101-121, 180-192). *)
RefreshEndsDrift ==
    \A p \in Refreshers : pc[p] = "done" /\ disk = "whole" /\ task[p].still =>
        \A e \in (Direct \cap On(content.egress)) \ task[p].noted :
            Drift(content, e, Runtime(e)) # "drift"

(* What `result: PASS` of validate says, if the host and the file kept     *)
(* still while it looked: the file is one Config::validate accepts, no     *)
(* enabled egress is missing, each direct one is up, and it has the        *)
(* configured addresses or a note "runtime drift check unavailable".  A    *)
(* note is no warning: where the inspection failed, PASS says nothing of   *)
(* an egress's addresses (validate.rs:220-275).                            *)
PassIsTrue ==
    \A p \in Validators :
        pc[p] = "done" /\ ~task[p].warned /\ task[p].still /\ disk = "whole" =>
            /\ Valid(content)
            /\ \A e \in On(content.egress) : link[e] # "missing"
            /\ \A e \in Direct \cap On(content.egress) :
                  /\ link[e] = "up"
                  /\ e \in task[p].noted \/ Drift(content, e, Runtime(e)) = "ok"

(* A file that is torn, or not accepted, for a while only delays a service *)
(* that nobody stops: it runs once the file stays whole and accepted       *)
(* (main.rs:108-109 with Restart=on-failure).                              *)
ServiceComesUp ==
    <>[](pc[Service] # "off" /\ disk = "whole" /\ Startable(content))
        => <>[](pc[Service] = "running")
=============================================================================
