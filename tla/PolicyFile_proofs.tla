-------------------------- MODULE PolicyFile_proofs --------------------------
(***************************************************************************)
(* Proofs about PolicyFile: its type invariant; that no finished edit is   *)
(* lost where writers do not overlap; that a refresh leaves no drift; and  *)
(* that a validation without warnings tells the truth.                     *)
(***************************************************************************)
EXTENDS PolicyFile, TLAPS

(* The places of a process of each kind.                                   *)
Place == {"off", "load", "running", "failed", "truncate", "write", "done", "again", "pick",
          "route", "addr", "reread", "stop", "once", "start"}

Places(p) ==
    {"off", "load"} \cup
        CASE p = Service -> {"running", "failed"}
          [] p \in Editors -> {"truncate", "write", "done"}
          [] p \in Refreshers -> {"again", "pick", "route", "addr", "reread",
                                 "truncate", "write", "done"}
          [] p \in Validators -> {"pick", "route", "addr", "done"}
          [] p \in Reloaders -> {"stop", "once", "start"}

TaskSet == [conf : Config, script : Script, todo : SUBSET Egress, cur : SUBSET Direct,
            warned : BOOLEAN, seen : [Direct -> Pair], read : Config, still : BOOLEAN,
            noted : SUBSET Direct]

(* An inspection has one egress in hand, and none left at its end.         *)
Shape(p) ==
    /\ pc[p] \in Places(p)
    /\ \A e, f \in task[p].cur : e = f
    /\ pc[p] \notin {"route", "addr"} => task[p].cur = {}
    /\ pc[p] \notin {"pick", "route", "addr"} => task[p].todo = {}
    /\ p \in Refreshers => task[p].todo \subseteq Direct

Types ==
    /\ disk \in {"whole", "truncated", "corrupt"}
    /\ content \in Config /\ want \in Config
    /\ host \in [Direct -> Pair] /\ link \in [Egress -> {"missing", "down", "up"}]
    /\ events \in 0..MaxEvents /\ overlapped \in BOOLEAN
    /\ pc \in [Process -> Place] /\ task \in [Process -> TaskSet]
    /\ Idle \in TaskSet
    /\ \A p \in Process : Shape(p)

-----------------------------------------------------------------------------
(* The operators of PolicyConfig.                                          *)

LEMMA PlacesOf ==
    /\ \A p \in Process : Places(p) \subseteq Place
    /\ Places(Service) = {"off", "load", "running", "failed"}
    /\ \A p \in Editors : Places(p) = {"off", "load", "truncate", "write", "done"}
    /\ \A p \in Refreshers : Places(p) =
          {"off", "load", "again", "pick", "route", "addr", "reread", "truncate", "write", "done"}
    /\ \A p \in Validators : Places(p) = {"off", "load", "pick", "route", "addr", "done"}
    /\ \A p \in Reloaders : Places(p) = {"off", "load", "stop", "once", "start"}
<1>1. Places(Service) = {"off", "load", "running", "failed"}
    BY FileAssumption DEF Places, Writers
<1>2. ASSUME NEW p \in Editors PROVE Places(p) = {"off", "load", "truncate", "write", "done"}
    BY FileAssumption DEF Places, Writers
<1>3. ASSUME NEW p \in Refreshers PROVE Places(p) =
          {"off", "load", "again", "pick", "route", "addr", "reread", "truncate", "write", "done"}
    BY FileAssumption DEF Places, Writers
<1>4. ASSUME NEW p \in Validators PROVE Places(p) = {"off", "load", "pick", "route", "addr", "done"}
    BY FileAssumption DEF Places, Writers
<1>5. ASSUME NEW p \in Reloaders PROVE Places(p) = {"off", "load", "stop", "once", "start"}
    BY FileAssumption DEF Places, Writers
<1>6. ASSUME NEW p \in Process PROVE Places(p) \subseteq Place
    BY <1>1, <1>2, <1>3, <1>4, <1>5 DEF Process, Writers, Place
<1>7. QED
    BY <1>1, <1>2, <1>3, <1>4, <1>5, <1>6

(* The kind of a process shows in its place.                               *)
LEMMA KindOf ==
    ASSUME Types, NEW p \in Process
    PROVE  /\ pc[p] \in {"running", "failed"} => p = Service
           /\ pc[p] \in {"again", "reread"} => p \in Refreshers
           /\ pc[p] \in {"truncate", "write"} => p \in Writers
           /\ pc[p] \in {"pick", "route", "addr"} => p \in Inspectors
           /\ pc[p] = "done" => p \in Writers \cup Validators
           /\ pc[p] \in {"stop", "once", "start"} => p \in Reloaders
<1>1. pc[p] \in Places(p)
    BY DEF Types, Shape
<1>2. QED
    BY <1>1, PlacesOf DEF Process, Writers, Inspectors

LEMMA SetType ==
    ASSUME NEW D, NEW V, NEW f \in [D -> V], NEW S, NEW v \in V
    PROVE  Set(f, S, v) \in [D -> V]
BY DEF Set

(* What an editing script makes of a file is a file.                       *)
LEMMA EditedType ==
    ASSUME NEW s \in Script, NEW c \in Config PROVE Edited(s, c) \in Config
<1>1. /\ c.egress \in [Egress -> Presence] /\ c.policy \in [Policy -> Marking]
      /\ "enabled" \in Presence /\ "disabled" \in Presence /\ "absent" \in Presence
      /\ Presence \subseteq Marking
    BY DEF Config, Presence, Marking
<1>2. CASE s.name = "add-domain"
  <2>1. s.arg \in Policy
      BY <1>2, NameAssumption DEF Script
  <2>2. Edited(s, c) = [c EXCEPT !.policy[s.arg] = "enabled"]
      BY <1>2 DEF Edited
  <2>3. [c.policy EXCEPT ![s.arg] = "enabled"] \in [Policy -> Marking]
      BY <1>1, <2>1
  <2>4. QED
      BY <2>2, <2>3 DEF Config
<1>3. CASE s.name = "enable-wg"
  <2> DEFINE eg == [c.egress EXCEPT ![s.arg] = "enabled"]
             po == Set(c.policy, Through(s.arg), "enabled")
  <2>1. Edited(s, c) = [c EXCEPT !.egress = eg, !.policy = po]
      BY <1>3 DEF Edited, Config
  <2>2. eg \in [Egress -> Presence] /\ po \in [Policy -> Marking]
      BY <1>1, SetType
  <2> HIDE DEF eg, po
  <2>3. QED
      BY <2>1, <2>2 DEF Config
<1>4. CASE s.name = "disable-wg"
  <2> DEFINE eg == Set(c.egress, {s.arg}, "disabled")
             po == Set(c.policy, Through(s.arg), "disabled")
  <2>1. Edited(s, c) = [c EXCEPT !.egress = eg, !.policy = po]
      BY <1>4 DEF Edited, Config
  <2>2. eg \in [Egress -> Presence] /\ po \in [Policy -> Marking]
      BY <1>1, SetType
  <2> HIDE DEF eg, po
  <2>3. QED
      BY <2>1, <2>2 DEF Config
<1>5. CASE s.name \in {"enable-apply", "enable-dns"}
    BY <1>5 DEF Edited, Config
<1>6. CASE s.name \in {"enable-amnezia", "enable-amnezia-domain"}
  <2> DEFINE kept == Set(Set(c.policy, Template, "disabled"), Revived, "enabled")
             eg == [Set(c.egress, Retired, "disabled") EXCEPT ![s.arg] = "enabled"]
             po == [q \in Policy |-> IF q \in Added(s) THEN "enabled"
                                     ELSE IF q \in ByAmnezia THEN "absent" ELSE kept[q]]
  <2>1. Edited(s, c) = [c EXCEPT !.egress = eg, !.policy = po, !.dry = FALSE]
      BY <1>6 DEF Edited, Config
  <2>2. eg \in [Egress -> Presence]
      BY <1>1, SetType
  <2>3. kept \in [Policy -> Marking]
      BY <1>1, SetType
  <2>4. po \in [Policy -> Marking]
      BY <1>1, <2>3
  <2> HIDE DEF eg, po
  <2>5. QED
      BY <2>1, <2>2, <2>4 DEF Config
<1>7. QED
    BY <1>2, <1>3, <1>4, <1>5, <1>6 DEF Script

LEMMA RefreshedType ==
    ASSUME Types, NEW p \in Process, NEW c \in Config
    PROVE  /\ Refreshed(p, c) \in Config
           /\ Refreshed(p, c) = [c EXCEPT !.gateway = Refreshed(p, c).gateway,
                                          !.source = Refreshed(p, c).source]
<1> DEFINE update == {e \in Planned(p) \cap Present(c.egress) :
                         Drift(task[p].conf, e, task[p].seen[e]) = "drift"}
           gw == [e \in Direct |-> IF e \in update THEN task[p].seen[e].gateway ELSE c.gateway[e]]
           src == [e \in Direct |-> IF e \in update THEN task[p].seen[e].source ELSE c.source[e]]
<1>1. Refreshed(p, c) = [c EXCEPT !.gateway = gw, !.source = src]
    BY DEF Refreshed, Config
<1>2. task[p].seen \in [Direct -> Pair]
    BY DEF Types, TaskSet
<1>3. gw \in [Direct -> Address] /\ src \in [Direct -> Address]
    BY <1>2 DEF Config, Pair
<1> HIDE DEF gw, src
<1>4. QED
    BY <1>1, <1>3 DEF Config

LEMMA RuntimeType == ASSUME Types, NEW e \in Direct PROVE Runtime(e) \in Pair
BY DEF Types, Runtime, NoPair, Pair, Address

LEMMA TaskType ==
    ASSUME NEW c \in Config, NEW s \in Script PROVE Task(c, s) \in TaskSet
<1>1. [e \in Direct |-> NoPair] \in [Direct -> Pair]
    BY DEF NoPair, Pair, Address
<1>2. QED
    BY <1>1 DEF Task, TaskSet

LEMMA IdleType == ASSUME NEW c \in Old PROVE Idle \in TaskSet
<1>1. (CHOOSE d \in Old : TRUE) \in Config
    BY FileAssumption
<1>2. [name |-> "enable-apply", arg |-> NoDomain] \in Script
    BY DEF Script
<1>3. (CHOOSE s \in Script : TRUE) \in Script
    BY <1>2
<1>4. QED
    BY <1>1, <1>3, TaskType DEF Idle

-----------------------------------------------------------------------------
(* A step of one process.                                                  *)

(* Only p takes a step, from its place to another one of its kind; the     *)
(* others may be disturbed, which they note.                               *)
Moves(p, t, l) ==
    /\ t \in TaskSet /\ l \in Places(p)
    /\ pc' = [pc EXCEPT ![p] = l] /\ task' = [task EXCEPT ![p] = t]

LEMMA MoveShape ==
    ASSUME Types, NEW p \in Process, NEW t, NEW l, Moves(p, t, l),
           \A e, f \in t.cur : e = f,
           l \notin {"route", "addr"} => t.cur = {},
           l \notin {"pick", "route", "addr"} => t.todo = {},
           p \in Refreshers => t.todo \subseteq Direct
    PROVE  /\ pc' \in [Process -> Place] /\ task' \in [Process -> TaskSet]
           /\ \A q \in Process : Shape(q)'
           /\ pc'[p] = l /\ task'[p] = t
           /\ \A q \in Process : q # p => pc'[q] = pc[q] /\ task'[q] = task[q]
<1>1. pc' \in [Process -> Place] /\ task' \in [Process -> TaskSet]
    BY PlacesOf DEF Types, Moves
<1>2. /\ pc'[p] = l /\ task'[p] = t
      /\ \A q \in Process : q # p => pc'[q] = pc[q] /\ task'[q] = task[q]
    BY DEF Types, Moves
<1>3. ASSUME NEW q \in Process PROVE Shape(q)'
  <2>1. CASE q = p
      BY <1>2, <2>1 DEF Shape, Moves
  <2>2. CASE q # p
      BY <1>2, <2>2 DEF Types, Shape
  <2>3. QED
      BY <2>1, <2>2
<1>4. QED
    BY <1>1, <1>2, <1>3

(* Nothing but the processes changes, and the count of events.             *)
LEMMA MoveTypes ==
    ASSUME Types, NEW p \in Process, NEW t, NEW l, Moves(p, t, l),
           \A e, f \in t.cur : e = f,
           l \notin {"route", "addr"} => t.cur = {},
           l \notin {"pick", "route", "addr"} => t.todo = {},
           p \in Refreshers => t.todo \subseteq Direct,
           UNCHANGED <<content, world, want>>, disk' \in {"whole", "truncated", "corrupt"},
           events' \in 0..MaxEvents, overlapped' \in BOOLEAN
    PROVE  Types'
<1>1. /\ pc' \in [Process -> Place] /\ task' \in [Process -> TaskSet]
      /\ \A q \in Process : Shape(q)'
    BY MoveShape
<1>2. Idle' = Idle
    BY DEF Idle, Task
<1>3. QED
    BY <1>1, <1>2 DEF Types, world

LEMMA EventType == Types /\ Event => events' \in 0..MaxEvents
BY FileAssumption DEF Types, Event

LEMMA ExitMoves ==
    ASSUME Types, NEW p \in Process, Exit(p) PROVE Moves(p, Idle, "off") /\ Idle.cur = {} /\ Idle.todo = {}
BY DEF Types, Exit, Goto, Moves, Places, Idle, Task

LEMMA GotoMoves ==
    ASSUME Types, NEW p \in Process, NEW l \in Places(p), Goto(p, l), UNCHANGED task
    PROVE  Moves(p, task[p], l)
BY DEF Types, Goto, Moves

-----------------------------------------------------------------------------
(* Each action preserves the types.                                        *)

LEMMA StartTypes == ASSUME Types, NEW p \in Process, Start(p) PROVE Types'
<1>1. /\ pc[p] = "off" /\ events' \in 0..MaxEvents /\ UNCHANGED <<file, world, history>>
      /\ task[p] \in TaskSet /\ task \in [Process -> TaskSet] /\ Shape(p)
    BY EventType DEF Start, Types
<1> DEFINE l == IF p \in Reloaders THEN "stop" ELSE "load"
<1>2. l \in Places(p) /\ l \in {"stop", "load"} /\ Goto(p, l)
    BY PlacesOf DEF Start, Places
<1> HIDE DEF l
<1>3. PICK t \in TaskSet :
          /\ t.cur = task[p].cur /\ t.todo = task[p].todo
          /\ task' = [task EXCEPT ![p] = t]
  <2>1. CASE UNCHANGED task
      BY <1>1, <2>1
  <2>2. ASSUME NEW s \in Script, task' = [task EXCEPT ![p].script = s]
        PROVE  \E t \in TaskSet : /\ t.cur = task[p].cur /\ t.todo = task[p].todo
                                  /\ task' = [task EXCEPT ![p] = t]
    <3> DEFINE t == [task[p] EXCEPT !.script = s]
    <3>1. t \in TaskSet /\ t.cur = task[p].cur /\ t.todo = task[p].todo
        BY <1>1 DEF TaskSet
    <3>2. task' = [task EXCEPT ![p] = t]
        BY <1>1, <2>2
    <3>3. QED
        BY <3>1, <3>2
  <2>3. QED
      BY <2>1, <2>2 DEF Start
<1>4. Moves(p, t, l)
    BY <1>2, <1>3 DEF Moves, Goto
<1>5. t.cur = {} /\ t.todo = {}
    BY <1>1, <1>3 DEF Shape
<1>6. QED
    BY <1>1, <1>2, <1>4, <1>5, MoveTypes DEF Types, file, history

(* The steps that only go on to another place, or end the process.         *)
LEMMA GoTypes ==
    ASSUME Types, NEW p \in Process, NEW l \in Places(p) \ {"pick", "route", "addr"},
           pc[p] \notin {"pick", "route", "addr"}, Goto(p, l), UNCHANGED task,
           UNCHANGED <<content, world, want>>, disk' \in {"whole", "truncated", "corrupt"},
           events' \in 0..MaxEvents, overlapped' \in BOOLEAN
    PROVE  Types'
<1>1. Moves(p, task[p], l) /\ task[p].cur = {} /\ task[p].todo = {}
    BY GotoMoves DEF Types, Shape
<1>2. QED
    BY <1>1, MoveTypes

LEMMA ExitTypes ==
    ASSUME Types, NEW p \in Process, Exit(p),
           UNCHANGED <<content, world, want>>, disk' \in {"whole", "truncated", "corrupt"},
           events' \in 0..MaxEvents, overlapped' \in BOOLEAN
    PROVE  Types'
BY ExitMoves, MoveTypes

LEMMA PlainTypes ==
    ASSUME Types, NEW p \in Process,
           LoadFails(p) \/ Truncate(p) \/ End(p) \/ ReloadOnce(p)
    PROVE  Types'
<1>1. /\ UNCHANGED <<content, world, want, overlapped>> /\ overlapped \in BOOLEAN
      /\ disk' \in {"whole", "truncated", "corrupt"} /\ events' \in 0..MaxEvents
    BY DEF Types, LoadFails, Truncate, End, ReloadOnce, file, history
<1>2. CASE Exit(p)
    BY <1>1, <1>2, ExitTypes
<1>3. CASE ~Exit(p)
  <2>1. PICK l \in {"failed", "write", "start"} :
            /\ Goto(p, l) /\ UNCHANGED task
            /\ \/ l = "failed" /\ p = Service
               \/ l = "write" /\ pc[p] = "truncate"
               \/ l = "start" /\ pc[p] = "once"
            /\ pc[p] \in {"load", "once", "truncate"}
      BY <1>3 DEF LoadFails, Truncate, End, ReloadOnce
  <2>2. l \in Places(p)
      BY <2>1, KindOf, PlacesOf DEF Writers
  <2>3. QED
      BY <1>1, <2>1, <2>2, GoTypes
<1>4. QED
    BY <1>2, <1>3

LEMMA ServiceTypes ==
    ASSUME Types, LoadToRun \/ Restart \/ StopService PROVE Types'
<1>1. /\ UNCHANGED <<content, world, want, overlapped, disk, task>> /\ overlapped \in BOOLEAN
      /\ disk \in {"whole", "truncated", "corrupt"} /\ events' \in 0..MaxEvents
      /\ \E l \in {"running", "load", "off"} : Goto(Service, l)
    BY EventType DEF Types, LoadToRun, Restart, StopService, file, history
<1>2. pc[Service] \notin {"pick", "route", "addr"} /\ Service \in Process
  <2>1. Service \in Process
      BY DEF Process
  <2>2. pc[Service] \in Places(Service)
      BY <2>1 DEF Types, Shape
  <2>3. QED
      BY <2>1, <2>2, PlacesOf
<1>3. QED
    BY <1>1, <1>2, PlacesOf, GoTypes

(* reload-policy.sh stops and starts the service along with its own step.  *)
LEMMA ReloadTypes ==
    ASSUME Types, NEW p \in Process, ReloadStop(p) \/ ReloadStart(p) PROVE Types'
<1>1. /\ UNCHANGED <<file, world, events, task, history>> /\ p \in Reloaders
      /\ pc[p] \in {"stop", "start"}
    BY KindOf DEF ReloadStop, ReloadStart
<1>2. PICK l \in {"once", "off"}, m \in {"off", "load", pc[Service]} :
          pc' = [pc EXCEPT ![p] = l, ![Service] = m]
  <2>1. p # Service
      BY <1>1, FileAssumption
  <2>2. Service \in Process /\ pc \in [Process -> Place]
      BY DEF Types, Process
  <2>3. CASE ReloadStop(p)
      BY <2>3 DEF ReloadStop
  <2>4. CASE ReloadStart(p)
    <3>1. [pc EXCEPT ![p] = "off"][Service] = pc[Service]
        BY <2>1, <2>2
    <3>2. QED
        BY <2>4, <3>1 DEF ReloadStart
  <2>5. QED
      BY <2>3, <2>4
<1>3. Service \in Process /\ Service # p /\ Shape(Service) /\ Shape(p)
    BY <1>1, FileAssumption DEF Types, Process
<1>4. /\ pc'[p] = l /\ pc'[Service] = m
      /\ \A q \in Process : q \notin {p, Service} => pc'[q] = pc[q]
      /\ pc' \in [Process -> Place]
    BY <1>2, <1>3 DEF Types, Place
<1>5. pc[Service] \notin {"pick", "route", "addr"}
    BY <1>3, PlacesOf DEF Shape
<1>6. ASSUME NEW q \in Process PROVE Shape(q)'
  <2>1. CASE q = p
      BY <1>1, <1>3, <1>4, <2>1, PlacesOf DEF Shape
  <2>2. CASE q = Service
      BY <1>1, <1>3, <1>4, <1>5, <2>2, PlacesOf DEF Shape
  <2>3. CASE q \notin {p, Service}
      BY <1>1, <1>4, <2>3 DEF Types, Shape
  <2>4. QED
      BY <2>1, <2>2, <2>3
<1>7. QED
    BY <1>1, <1>4, <1>6 DEF Types, file, world, history, Idle, Task

LEMMA LoadToEditTypes == ASSUME Types, NEW p \in Process, LoadToEdit(p) PROVE Types'
<1> DEFINE t == [task[p] EXCEPT !.conf = Edited(task[p].script, content), !.read = content]
<1>1. /\ task[p] \in TaskSet /\ task \in [Process -> TaskSet] /\ Shape(p) /\ content \in Config
      /\ p \in Editors /\ pc[p] = "load"
    BY DEF Types, LoadToEdit
<1>2. t \in TaskSet /\ t.cur = {} /\ t.todo = {}
    BY <1>1, EditedType DEF TaskSet, Shape
<1>3. task' = [task EXCEPT ![p] = t]
    BY <1>1 DEF LoadToEdit
<1> HIDE DEF t
<1>4. Moves(p, t, "truncate")
  <2>1. "truncate" \in Places(p)
      BY <1>1, PlacesOf
  <2>2. pc' = [pc EXCEPT ![p] = "truncate"]
      BY DEF LoadToEdit, Goto
  <2>3. QED
      BY <1>2, <1>3, <2>1, <2>2 DEF Moves
<1>5. QED
    BY <1>2, <1>4, MoveTypes DEF LoadToEdit, Types, file

(* What an inspection begins with.                                         *)
InspectTask(p, b) ==
    [task[p] EXCEPT !.conf = content, !.read = content, !.still = TRUE, !.warned = b,
                    !.todo = On(content.egress) \cap (IF p \in Refreshers THEN Direct ELSE Egress)]

LEMMA LoadShape ==
    ASSUME Types, NEW p \in Process, LoadToInspect(p)
    PROVE  \/ Exit(p)
           \/ p \in Refreshers /\ Goto(p, "again") /\ UNCHANGED task /\ pc[p] = "load"
           \/ \E b \in BOOLEAN :
                 /\ b = (\E q, r \in Present(content.policy) :
                            q # r /\ DomainOf[q] = DomainOf[r] /\ DomainOf[q] # NoDomain)
                 /\ task' = [task EXCEPT ![p] = InspectTask(p, b)] /\ Goto(p, "pick")
                 /\ p \in Inspectors /\ pc[p] \in {"load", "again"}
                 /\ p \in Validators => Valid(content)
<1> DEFINE b == \E q, r \in Present(content.policy) :
                   q # r /\ DomainOf[q] = DomainOf[r] /\ DomainOf[q] # NoDomain
<1>1. task \in [Process -> TaskSet] /\ task[p] \in TaskSet /\ b \in BOOLEAN
    BY DEF Types
<1>2. CASE /\ task' = [task EXCEPT
                ![p].conf = content, ![p].read = content, ![p].still = TRUE,
                ![p].todo = On(content.egress) \cap (IF p \in Refreshers THEN Direct ELSE Egress),
                ![p].warned = b]
           /\ Goto(p, "pick")
           /\ \/ pc[p] = "load" /\ ~Unusable(p) /\ p \in Validators
              \/ pc[p] = "again" /\ disk = "whole"
  <2>1. p \in Inspectors /\ pc[p] \in {"load", "again"}
      BY <1>2 DEF LoadToInspect
  <2>2. p \in Validators => Valid(content)
    <3>1. ASSUME p \in Validators PROVE p \notin Editors /\ p \notin Refreshers
        BY <3>1, FileAssumption DEF Writers
    <3>2. pc[p] = "again" => p \in Refreshers
        BY KindOf
    <3>3. QED
        BY <1>2, <3>1, <3>2 DEF Unusable
  <2>3. task' = [task EXCEPT ![p] = InspectTask(p, b)]
    <3> HIDE DEF b
    <3>1. QED
        BY <1>1, <1>2 DEF InspectTask
  <2>4. QED
      BY <1>1, <1>2, <2>1, <2>2, <2>3
<1>3. QED
    BY <1>2 DEF LoadToInspect

LEMMA LoadToInspectTypes == ASSUME Types, NEW p \in Process, LoadToInspect(p) PROVE Types'
<1>1. /\ UNCHANGED <<content, world, want, disk, events, overlapped>>
      /\ disk \in {"whole", "truncated", "corrupt"} /\ events \in 0..MaxEvents
      /\ overlapped \in BOOLEAN /\ Shape(p) /\ task[p] \in TaskSet /\ content \in Config
    BY DEF LoadToInspect, Types, file, history
<1>2. CASE Exit(p)
    BY <1>1, <1>2, ExitTypes
<1>3. CASE p \in Refreshers /\ Goto(p, "again") /\ UNCHANGED task /\ pc[p] = "load"
    BY <1>1, <1>3, PlacesOf, GoTypes
<1>4. ASSUME NEW b \in BOOLEAN, task' = [task EXCEPT ![p] = InspectTask(p, b)], Goto(p, "pick"),
             p \in Inspectors, pc[p] \in {"load", "again"}
      PROVE  Types'
  <2> DEFINE t == InspectTask(p, b)
  <2>1. t \in TaskSet /\ t.cur = {} /\ (p \in Refreshers => t.todo \subseteq Direct)
      BY <1>1, <1>4, NameAssumption DEF InspectTask, TaskSet, On, Config, Shape
  <2>2. Moves(p, t, "pick")
      BY <1>4, <2>1, PlacesOf DEF Moves, Goto, Inspectors
  <2> HIDE DEF t
  <2>3. QED
      BY <1>1, <2>1, <2>2, MoveTypes
<1>5. QED
    BY <1>2, <1>3, <1>4, LoadShape

-----------------------------------------------------------------------------
(* The steps of an inspection, each with what it makes of the task.        *)

PickTask(p, e) == [task[p] EXCEPT !.cur = {e}, !.todo = task[p].todo \ {e}]
PassTask(p, e) ==
    [task[p] EXCEPT !.todo = task[p].todo \ {e},
                    !.warned = task[p].warned \/ link[e] = "missing" \/ e \in Direct]
SeenTask(p, e) == [task[p] EXCEPT !.seen = [task[p].seen EXCEPT ![e] = Runtime(e)]]
DoneTask(p, e, x, b) ==
    [task[p] EXCEPT !.seen = [task[p].seen EXCEPT ![e] = x], !.cur = {}, !.warned = b]
FailTask(p, e) ==
    [task[p] EXCEPT !.seen = [task[p].seen EXCEPT ![e] = NoPair], !.cur = {},
                    !.noted = task[p].noted \cup {e}]

(* What the route told, completed by the address if there is one.          *)
Completed(p, e) ==
    [task[p].seen[e] EXCEPT !.source = IF Runtime(e).source = NoAddr THEN task[p].seen[e].source
                                       ELSE Runtime(e).source]

LEMMA PickShape ==
    ASSUME Types, NEW p \in Process, Pick(p)
    PROVE  /\ pc[p] = "pick" /\ p \in Inspectors /\ UNCHANGED <<file, world, events, history>>
           /\ \/ \E e \in task[p].todo :
                    \/ /\ Moves(p, PickTask(p, e), "route") /\ e \in Direct
                       /\ p \in Validators => link[e] = "up"
                    \/ /\ Moves(p, PassTask(p, e), "pick") /\ p \in Validators
                       /\ e \in Direct => link[e] # "up"
              \/ /\ task[p].todo = {} /\ Moves(p, task[p], "done")
                 /\ p \in Refreshers => Planned(p) = {}
              \/ task[p].todo = {} /\ Moves(p, task[p], "reread") /\ p \in Refreshers
<1>1. /\ pc[p] = "pick" /\ task[p] \in TaskSet /\ task \in [Process -> TaskSet]
      /\ pc \in [Process -> Place] /\ Shape(p) /\ UNCHANGED <<file, world, events, history>>
    BY DEF Types, Pick
<1>2. p \in Inspectors
    BY <1>1, KindOf
<1>3. CASE task[p].todo # {}
  <2> DEFINE e == CHOOSE x \in task[p].todo : TRUE
  <2>1. e \in task[p].todo /\ e \in Egress
      BY <1>1, <1>3 DEF TaskSet
  <2>2. IF p \in Refreshers \/ (e \in Direct /\ link[e] = "up")
        THEN /\ task' = [task EXCEPT ![p].cur = {e}, ![p].todo = @ \ {e}]
             /\ Goto(p, "route")
        ELSE /\ task' = [task EXCEPT
                   ![p].todo = @ \ {e},
                   ![p].warned = @ \/ link[e] = "missing" \/ e \in Direct]
             /\ UNCHANGED pc
      BY <1>3 DEF Pick
  <2> HIDE DEF e
  <2>3. CASE p \in Refreshers \/ (e \in Direct /\ link[e] = "up")
    <3>1. e \in Direct /\ (p \in Validators => link[e] = "up")
        BY <1>1, <2>1, <2>3, FileAssumption DEF Shape, Writers
    <3>2. PickTask(p, e) \in TaskSet
        BY <1>1, <3>1 DEF PickTask, TaskSet
    <3>3. task' = [task EXCEPT ![p] = PickTask(p, e)]
        BY <1>1, <2>2, <2>3 DEF PickTask
    <3>4. "route" \in Places(p)
        BY <1>2, PlacesOf DEF Inspectors
    <3>5. Moves(p, PickTask(p, e), "route")
        BY <2>2, <2>3, <3>2, <3>3, <3>4 DEF Moves, Goto
    <3>6. QED
        BY <1>1, <1>2, <2>1, <3>1, <3>5
  <2>4. CASE ~(p \in Refreshers \/ (e \in Direct /\ link[e] = "up"))
    <3>1. p \in Validators /\ (e \in Direct => link[e] # "up")
        BY <1>2, <2>4 DEF Inspectors
    <3>2. PassTask(p, e) \in TaskSet
        BY <1>1 DEF PassTask, TaskSet
    <3>3. task' = [task EXCEPT ![p] = PassTask(p, e)]
        BY <1>1, <2>2, <2>4 DEF PassTask
    <3>4. "pick" \in Places(p)
        BY <1>2, PlacesOf DEF Inspectors
    <3>5. pc' = [pc EXCEPT ![p] = "pick"]
        BY <1>1, <2>2, <2>4
    <3>6. Moves(p, PassTask(p, e), "pick")
        BY <3>2, <3>3, <3>4, <3>5 DEF Moves
    <3>7. QED
        BY <1>1, <1>2, <2>1, <3>1, <3>6
  <2>5. QED
      BY <2>3, <2>4
<1>4. CASE task[p].todo = {}
  <2>1. PICK l \in {"done", "reread"} :
            /\ Goto(p, l) /\ UNCHANGED task /\ (l = "reread" => p \notin Validators)
            /\ l = "done" => p \in Validators \/ Planned(p) = {}
      BY <1>4 DEF Pick
  <2>2. l \in Places(p) /\ (l = "reread" => p \in Refreshers)
      BY <1>2, <2>1, PlacesOf DEF Inspectors
  <2>3. Moves(p, task[p], l)
      BY <2>1, <2>2, GotoMoves
  <2>4. p \in Refreshers => p \notin Validators
      BY FileAssumption DEF Writers
  <2>5. QED
      BY <1>1, <1>2, <1>4, <2>1, <2>2, <2>3, <2>4
<1>5. QED
    BY <1>3, <1>4

LEMMA PickTypes == ASSUME Types, NEW p \in Process, Pick(p) PROVE Types'
<1>1. /\ pc[p] = "pick" /\ UNCHANGED <<content, world, want, disk, events, overlapped>>
      /\ disk \in {"whole", "truncated", "corrupt"} /\ events \in 0..MaxEvents
      /\ overlapped \in BOOLEAN /\ Shape(p) /\ task[p] \in TaskSet
    BY PickShape DEF Types, file, history
<1>2. task[p].cur = {}
    BY <1>1 DEF Shape
<1>3. ASSUME NEW e \in task[p].todo, Moves(p, PickTask(p, e), "route") PROVE Types'
  <2> DEFINE t == PickTask(p, e)
  <2>1. t.cur = {e} /\ (p \in Refreshers => t.todo \subseteq Direct)
      BY <1>1 DEF PickTask, TaskSet, Shape
  <2>2. \A x, y \in t.cur : x = y
      BY <2>1
  <2> HIDE DEF t
  <2>3. Moves(p, t, "route")
      BY <1>3 DEF t
  <2>4. QED
      BY <1>1, <2>1, <2>2, <2>3, MoveTypes
<1>4. ASSUME NEW e \in task[p].todo, Moves(p, PassTask(p, e), "pick") PROVE Types'
  <2> DEFINE t == PassTask(p, e)
  <2>1. t.cur = {} /\ (p \in Refreshers => t.todo \subseteq Direct)
      BY <1>1, <1>2 DEF PassTask, TaskSet, Shape
  <2> HIDE DEF t
  <2>2. Moves(p, t, "pick")
      BY <1>4 DEF t
  <2>3. QED
      BY <1>1, <2>1, <2>2, MoveTypes
<1>5. ASSUME task[p].todo = {}, NEW l \in {"done", "reread"}, Moves(p, task[p], l) PROVE Types'
    BY <1>1, <1>2, <1>5, MoveTypes
<1>6. QED
    BY <1>3, <1>4, <1>5, PickShape

LEMMA RouteShape ==
    ASSUME Types, NEW p \in Process, InspectRoute(p)
    PROVE  /\ pc[p] = "route" /\ p \in Inspectors /\ UNCHANGED <<file, world, events, history>>
           /\ \E e \in task[p].cur : e \in Direct /\ Moves(p, SeenTask(p, e), "addr")
<1>1. /\ pc[p] = "route" /\ task[p] \in TaskSet /\ task \in [Process -> TaskSet]
      /\ UNCHANGED <<file, world, events, history>> /\ Goto(p, "addr")
    BY DEF Types, InspectRoute
<1>2. p \in Inspectors
    BY <1>1, KindOf
<1>3. PICK e \in task[p].cur : task' = [task EXCEPT ![p].seen[e] = Runtime(e)]
    BY DEF InspectRoute
<1>4. e \in Direct
    BY <1>1 DEF TaskSet
<1>5. SeenTask(p, e) \in TaskSet
    BY <1>1, <1>4, RuntimeType DEF SeenTask, TaskSet
<1>6. task' = [task EXCEPT ![p] = SeenTask(p, e)]
    BY <1>1, <1>3 DEF SeenTask
<1>7. Moves(p, SeenTask(p, e), "addr")
    BY <1>1, <1>2, <1>5, <1>6, PlacesOf DEF Moves, Goto, Inspectors
<1>8. QED
    BY <1>1, <1>2, <1>4, <1>7

LEMMA AddrShape ==
    ASSUME Types, NEW p \in Process, InspectAddr(p)
    PROVE  /\ pc[p] = "addr" /\ p \in Inspectors /\ UNCHANGED <<file, world, events, history>>
           /\ \E e \in task[p].cur : \E b \in BOOLEAN :
                 /\ b = (task[p].warned \/ Drift(task[p].conf, e, Completed(p, e)) # "ok")
                 /\ e \in Direct /\ Moves(p, DoneTask(p, e, Completed(p, e), b), "pick")
<1>1. /\ pc[p] = "addr" /\ task[p] \in TaskSet /\ task \in [Process -> TaskSet]
      /\ UNCHANGED <<file, world, events, history>> /\ Goto(p, "pick")
    BY DEF Types, InspectAddr
<1>2. p \in Inspectors
    BY <1>1, KindOf
<1>3. PICK e \in task[p].cur :
          task' = [task EXCEPT
              ![p].seen[e] = Completed(p, e), ![p].cur = {},
              ![p].warned = @ \/ Drift(task[p].conf, e, Completed(p, e)) # "ok"]
  <2>1. PICK e \in task[p].cur :
          LET addr == Runtime(e).source
              seen == [task[p].seen[e] EXCEPT !.source = IF addr = NoAddr THEN @ ELSE addr]
          IN task' = [task EXCEPT
                ![p].seen[e] = seen, ![p].cur = {},
                ![p].warned = @ \/ Drift(task[p].conf, e, seen) # "ok"]
      BY DEF InspectAddr
  <2>2. e \in Direct /\ task[p].seen[e] \in Pair
      BY <1>1 DEF TaskSet
  <2>3. Completed(p, e) =
           [task[p].seen[e] EXCEPT !.source = IF Runtime(e).source = NoAddr THEN @ ELSE Runtime(e).source]
      BY <2>2 DEF Completed, Pair
  <2>4. QED
      BY <2>1, <2>3
<1>4. e \in Direct /\ Completed(p, e) \in Pair
    BY <1>1, RuntimeType DEF TaskSet, Completed, Pair
<1> DEFINE b == task[p].warned \/ Drift(task[p].conf, e, Completed(p, e)) # "ok"
<1>5. b \in BOOLEAN
    BY <1>1 DEF TaskSet
<1>6. task' = [task EXCEPT ![p].seen[e] = Completed(p, e), ![p].cur = {}, ![p].warned = b]
    BY <1>1, <1>3
<1> HIDE DEF b
<1>7. DoneTask(p, e, Completed(p, e), b) \in TaskSet
    BY <1>1, <1>4, <1>5 DEF DoneTask, TaskSet
<1>8. task' = [task EXCEPT ![p] = DoneTask(p, e, Completed(p, e), b)]
    BY <1>1, <1>6 DEF DoneTask
<1>9. Moves(p, DoneTask(p, e, Completed(p, e), b), "pick")
    BY <1>1, <1>2, <1>7, <1>8, PlacesOf DEF Moves, Goto, Inspectors
<1>10. QED
    BY <1>1, <1>2, <1>4, <1>5, <1>9 DEF b

LEMMA FailShape ==
    ASSUME Types, NEW p \in Process, InspectFails(p)
    PROVE  /\ pc[p] \in {"route", "addr"} /\ p \in Inspectors
           /\ UNCHANGED <<file, world, history>> /\ events' \in 0..MaxEvents
           /\ \E e \in task[p].cur : e \in Direct /\ Moves(p, FailTask(p, e), "pick")
<1>1. /\ pc[p] \in {"route", "addr"} /\ task[p] \in TaskSet /\ task \in [Process -> TaskSet]
      /\ UNCHANGED <<file, world, history>> /\ Goto(p, "pick") /\ events' \in 0..MaxEvents
    BY EventType DEF Types, InspectFails
<1>2. p \in Inspectors
    BY <1>1, KindOf
<1>3. PICK e \in task[p].cur :
          task' = [task EXCEPT ![p].seen[e] = NoPair, ![p].cur = {}, ![p].noted = @ \cup {e}]
    BY DEF InspectFails
<1>4. e \in Direct /\ NoPair \in Pair
    BY <1>1 DEF TaskSet, NoPair, Pair, Address
<1>5. FailTask(p, e) \in TaskSet
    BY <1>1, <1>4 DEF FailTask, TaskSet
<1>6. task' = [task EXCEPT ![p] = FailTask(p, e)]
    BY <1>1, <1>3 DEF FailTask
<1>7. Moves(p, FailTask(p, e), "pick")
    BY <1>1, <1>2, <1>5, <1>6, PlacesOf DEF Moves, Goto, Inspectors
<1>8. QED
    BY <1>1, <1>2, <1>4, <1>7

LEMMA InspectTypes ==
    ASSUME Types, NEW p \in Process, InspectRoute(p) \/ InspectAddr(p) \/ InspectFails(p)
    PROVE  Types'
<1>1. /\ UNCHANGED <<content, world, want, disk, overlapped>>
      /\ disk \in {"whole", "truncated", "corrupt"} /\ events' \in 0..MaxEvents
      /\ overlapped \in BOOLEAN /\ Shape(p) /\ task[p] \in TaskSet
    BY RouteShape, AddrShape, FailShape DEF Types, file, history
<1>2. PICK t \in TaskSet, l \in {"addr", "pick"} :
          /\ Moves(p, t, l) /\ t.todo = task[p].todo
          /\ t.cur = {} \/ (l = "addr" /\ t.cur = task[p].cur)
  <2>1. CASE InspectRoute(p)
    <3>1. PICK e \in task[p].cur : Moves(p, SeenTask(p, e), "addr")
        BY <2>1, RouteShape
    <3>2. SeenTask(p, e).todo = task[p].todo /\ SeenTask(p, e).cur = task[p].cur
        BY <1>1 DEF SeenTask, TaskSet
    <3>3. QED
        BY <3>1, <3>2 DEF Moves
  <2>2. CASE InspectAddr(p)
    <3>1. PICK e \in task[p].cur, b \in BOOLEAN : Moves(p, DoneTask(p, e, Completed(p, e), b), "pick")
        BY <2>2, AddrShape
    <3>2. /\ DoneTask(p, e, Completed(p, e), b).todo = task[p].todo
          /\ DoneTask(p, e, Completed(p, e), b).cur = {}
        BY <1>1 DEF DoneTask, TaskSet
    <3>3. QED
        BY <3>1, <3>2 DEF Moves
  <2>3. CASE InspectFails(p)
    <3>1. PICK e \in task[p].cur : Moves(p, FailTask(p, e), "pick")
        BY <2>3, FailShape
    <3>2. FailTask(p, e).todo = task[p].todo /\ FailTask(p, e).cur = {}
        BY <1>1 DEF FailTask, TaskSet
    <3>3. QED
        BY <3>1, <3>2 DEF Moves
  <2>4. QED
      BY <2>1, <2>2, <2>3
<1>3. /\ \A e, f \in t.cur : e = f
      /\ l \notin {"route", "addr"} => t.cur = {}
      /\ p \in Refreshers => t.todo \subseteq Direct
    BY <1>1, <1>2 DEF Shape
<1>4. QED
    BY <1>1, <1>2, <1>3, MoveTypes

-----------------------------------------------------------------------------
(* The writers.                                                            *)

RereadTask(p) == [task[p] EXCEPT !.conf = Refreshed(p, content), !.read = content,
                                 !.seen = Idle.seen]

LEMMA RereadShape ==
    ASSUME Types, NEW p \in Process, Reread(p)
    PROVE  /\ pc[p] = "reread" /\ p \in Refreshers /\ UNCHANGED <<file, world, events, want>>
           /\ \/ /\ disk = "whole" /\ Moves(p, RereadTask(p), "truncate")
                 /\ overlapped' = (overlapped \/ Others(p) # {})
              \/ Exit(p) /\ UNCHANGED overlapped
<1>1. /\ pc[p] = "reread" /\ task[p] \in TaskSet /\ task \in [Process -> TaskSet]
      /\ UNCHANGED <<file, world, events, want>> /\ content \in Config /\ Idle \in TaskSet
    BY DEF Types, Reread
<1>2. p \in Refreshers
    BY <1>1, KindOf
<1>3. ASSUME ~(Exit(p) /\ UNCHANGED overlapped)
      PROVE  /\ disk = "whole" /\ Moves(p, RereadTask(p), "truncate")
             /\ overlapped' = (overlapped \/ Others(p) # {})
  <2>1. /\ disk = "whole"
        /\ task' = [task EXCEPT ![p].conf = Refreshed(p, content), ![p].read = content,
                                ![p].seen = Idle.seen]
        /\ overlapped' = (overlapped \/ Others(p) # {})
        /\ Goto(p, "truncate")
      BY <1>3 DEF Reread
  <2>2. Refreshed(p, content) \in Config /\ Idle.seen \in [Direct -> Pair]
      BY <1>1, RefreshedType DEF TaskSet
  <2>3. RereadTask(p) \in TaskSet
      BY <1>1, <2>2 DEF RereadTask, TaskSet
  <2>4. task' = [task EXCEPT ![p] = RereadTask(p)]
      BY <1>1, <2>1 DEF RereadTask
  <2>5. QED
      BY <1>2, <2>1, <2>3, <2>4, PlacesOf DEF Moves, Goto
<1>4. QED
    BY <1>1, <1>2, <1>3

LEMMA RereadTypes == ASSUME Types, NEW p \in Process, Reread(p) PROVE Types'
<1>1. /\ pc[p] = "reread" /\ UNCHANGED <<content, world, want, disk, events>>
      /\ disk \in {"whole", "truncated", "corrupt"} /\ events \in 0..MaxEvents
      /\ overlapped' \in BOOLEAN /\ Shape(p) /\ task[p] \in TaskSet
    BY RereadShape DEF Types, file
<1>2. CASE Exit(p)
    BY <1>1, <1>2, ExitTypes
<1>3. CASE Moves(p, RereadTask(p), "truncate")
  <2> DEFINE t == RereadTask(p)
  <2>1. t.cur = {} /\ t.todo = {}
      BY <1>1 DEF Shape, RereadTask, TaskSet
  <2> HIDE DEF t
  <2>2. Moves(p, t, "truncate")
      BY <1>3 DEF t
  <2>3. QED
      BY <1>1, <2>1, <2>2, MoveTypes
<1>4. QED
    BY <1>2, <1>3, RereadShape

(* What a change of the host or of the file does to the task of q.         *)
Noted(q) == [task[q] EXCEPT !.still = task[q].still /\
                (q \in Inspectors => pc[q] \in {"off", "load", "again"})]

LEMMA DisturbedTask ==
    ASSUME Types, NEW q \in Process
    PROVE  /\ Disturbed(task)[q] = Noted(q) /\ Noted(q) \in TaskSet
           /\ \A b \in BOOLEAN : [Noted(q) EXCEPT !.still = b] \in TaskSet
<1>1. task[q] \in TaskSet
    BY DEF Types
<1>2. Noted(q) \in TaskSet
    BY <1>1 DEF Noted, TaskSet
<1>3. Disturbed(task)[q] = Noted(q)
    BY <1>1 DEF Disturbed, Noted
<1>4. QED
    BY <1>2, <1>3 DEF TaskSet

(* The others only note the disturbance.                                   *)
LEMMA WriteShape ==
    ASSUME Types, NEW p \in Process, Write(p)
    PROVE  /\ pc[p] = "write" /\ p \in Writers /\ UNCHANGED <<world, events, overlapped>>
           /\ pc' = [pc EXCEPT ![p] = "done"]
           /\ task' \in [Process -> TaskSet]
           /\ task'[p] = task[p]
           /\ \A q \in Process : q # p => task'[q] = Noted(q)
           /\ \/ disk' = "whole" /\ content' = task[p].conf
              \/ disk' = "corrupt" /\ UNCHANGED content
           /\ want' = IF p \in Editors THEN Edited(task[p].script, want)
                      ELSE [want EXCEPT !.gateway = task[p].conf.gateway,
                                        !.source = task[p].conf.source]
<1>1. /\ pc[p] = "write" /\ UNCHANGED <<world, events, overlapped>>
      /\ task \in [Process -> TaskSet] /\ task[p] \in TaskSet
      /\ task' = [Disturbed(task) EXCEPT ![p].still = task[p].still]
      /\ pc' = [pc EXCEPT ![p] = "done"]
    BY DEF Write, Goto, Types
<1>2. Disturbed(task) = [q \in Process |-> Disturbed(task)[q]]
    BY DEF Disturbed
<1>3. task'[p] = [Noted(p) EXCEPT !.still = task[p].still]
    BY <1>1, <1>2, DisturbedTask
<1>4. task'[p] = task[p]
  <2>1. [Noted(p) EXCEPT !.still = task[p].still] = task[p]
      BY <1>1 DEF Noted, TaskSet
  <2>2. QED
      BY <1>3, <2>1
<1>5. ASSUME NEW q \in Process, q # p PROVE task'[q] = Noted(q) /\ task'[q] \in TaskSet
    BY <1>1, <1>2, <1>5, DisturbedTask
<1>6. task' = [q \in Process |-> task'[q]]
  <2>1. [Disturbed(task) EXCEPT ![p].still = task[p].still]
           = [q \in Process |-> [Disturbed(task) EXCEPT ![p].still = task[p].still][q]]
      BY <1>2
  <2>2. QED
      BY <1>1, <2>1
<1>7. task' \in [Process -> TaskSet]
  <2>1. \A q \in Process : task'[q] \in TaskSet
      BY <1>1, <1>4, <1>5
  <2>2. QED
      BY <1>6, <2>1
<1>8. p \in Writers
    BY <1>1, KindOf
<1>9. QED
    BY <1>1, <1>4, <1>5, <1>7, <1>8 DEF Write

(* A change that leaves every process in its place.                        *)
LEMMA NotedShape ==
    ASSUME Types, NEW q \in Process, task'[q] \in {task[q], Noted(q)},
           pc'[q] = pc[q]
    PROVE  Shape(q)'
<1>1. Shape(q) /\ task[q] \in TaskSet
    BY DEF Types
<1>2. Noted(q).cur = task[q].cur /\ Noted(q).todo = task[q].todo
    BY <1>1 DEF Noted, TaskSet
<1>3. QED
    BY <1>1, <1>2 DEF Shape

LEMMA WriteTypes == ASSUME Types, NEW p \in Process, Write(p) PROVE Types'
<1>1. /\ pc[p] = "write" /\ p \in Writers /\ UNCHANGED <<world, events, overlapped>>
      /\ pc' = [pc EXCEPT ![p] = "done"] /\ task' \in [Process -> TaskSet] /\ task'[p] = task[p]
      /\ \A q \in Process : q # p => task'[q] = Noted(q)
      /\ disk' \in {"whole", "corrupt"} /\ content' \in {task[p].conf, content}
      /\ task[p] \in TaskSet /\ Shape(p) /\ pc \in [Process -> Place]
    BY WriteShape DEF Types
<1>2. content' \in Config /\ want' \in Config
  <2>1. content \in Config /\ want \in Config /\ task[p].conf \in Config /\ task[p].script \in Script
      BY <1>1 DEF Types, TaskSet
  <2>2. Edited(task[p].script, want) \in Config
      BY <2>1, EditedType
  <2>3. [want EXCEPT !.gateway = task[p].conf.gateway, !.source = task[p].conf.source] \in Config
      BY <2>1 DEF Config
  <2>4. QED
      BY <1>1, <2>1, <2>2, <2>3, WriteShape
<1>3. ASSUME NEW q \in Process PROVE Shape(q)'
  <2>1. CASE q = p
    <3>1. "done" \in Places(p)
        BY <1>1, PlacesOf DEF Writers
    <3>2. pc'[p] = "done"
        BY <1>1
    <3>3. QED
        BY <1>1, <2>1, <3>1, <3>2 DEF Shape
  <2>2. CASE q # p
      BY <1>1, <2>2, NotedShape
  <2>3. QED
      BY <2>1, <2>2
<1>4. pc' \in [Process -> Place]
    BY <1>1 DEF Place
<1>5. Idle' = Idle
    BY DEF Idle, Task
<1>6. QED
    BY <1>1, <1>2, <1>3, <1>4, <1>5 DEF Types, world

LEMMA CrashShape ==
    ASSUME Types, NEW p \in Process, Crash(p)
    PROVE  /\ UNCHANGED <<content, world, history>> /\ events' \in 0..MaxEvents
           /\ disk' \in {disk, "corrupt"} /\ (disk' # disk => pc[p] = "write")
           /\ \/ p = Service /\ Goto(p, "failed") /\ UNCHANGED task
              \/ Exit(p)
BY EventType DEF Crash

LEMMA CrashTypes == ASSUME Types, NEW p \in Process, Crash(p) PROVE Types'
<1>1. /\ UNCHANGED <<content, world, want, overlapped>> /\ events' \in 0..MaxEvents
      /\ disk' \in {"whole", "truncated", "corrupt"} /\ overlapped' \in BOOLEAN
    BY CrashShape DEF Types, history
<1>2. CASE Exit(p)
    BY <1>1, <1>2, ExitTypes
<1>3. CASE p = Service /\ Goto(p, "failed") /\ UNCHANGED task
  <2>1. pc[p] \notin {"pick", "route", "addr"}
      BY <1>3, PlacesOf DEF Types, Shape
  <2>2. "failed" \in Places(p) \ {"pick", "route", "addr"}
      BY <1>3, PlacesOf
  <2>3. QED
      BY <1>1, <1>3, <2>1, <2>2, GoTypes
<1>4. QED
    BY <1>2, <1>3, CrashShape

LEMMA HostShape ==
    ASSUME Types, Dhcp \/ LinkChanges
    PROVE  /\ UNCHANGED <<file, pc, history>> /\ events' \in 0..MaxEvents
           /\ \A q \in Process : task'[q] = Noted(q)
           /\ task' \in [Process -> TaskSet]
           /\ host' \in [Direct -> Pair] /\ link' \in [Egress -> {"missing", "down", "up"}]
<1>1. /\ UNCHANGED <<file, pc, history>> /\ events' \in 0..MaxEvents
      /\ task' = Disturbed(task)
    BY EventType DEF Dhcp, LinkChanges
<1>2. \A q \in Process : task'[q] = Noted(q) /\ task'[q] \in TaskSet
    BY <1>1, DisturbedTask
<1>3. task' = [q \in Process |-> task'[q]]
    BY <1>1 DEF Disturbed
<1>4. task' \in [Process -> TaskSet]
    BY <1>2, <1>3
<1>5. host' \in [Direct -> Pair] /\ link' \in [Egress -> {"missing", "down", "up"}]
    BY FileAssumption DEF Types, Dhcp, LinkChanges
<1>6. QED
    BY <1>1, <1>2, <1>4, <1>5

LEMMA HostTypes == ASSUME Types, Dhcp \/ LinkChanges PROVE Types'
<1>1. \A q \in Process : Shape(q)'
    BY HostShape, NotedShape
<1>2. Idle' = Idle
    BY DEF Idle, Task
<1>3. QED
    BY <1>1, <1>2, HostShape DEF Types, file, history

-----------------------------------------------------------------------------
LEMMA InitTypes == Init => Types
<1> SUFFICES ASSUME Init PROVE Types
    OBVIOUS
<1>1. content \in Old /\ content \in Config /\ Idle \in TaskSet
    BY FileAssumption, IdleType DEF Init
<1>2. host \in [Direct -> Pair]
  <2>1. \A e \in Direct : content.gateway[e] \in Address /\ content.source[e] \in Address
      BY <1>1 DEF Config
  <2>2. QED
      BY <2>1 DEF Init, Pair
<1>3. pc \in [Process -> Place] /\ task \in [Process -> TaskSet]
    BY <1>1 DEF Init, Place
<1>4. ASSUME NEW p \in Process PROVE Shape(p)
  <2>1. pc[p] \in {"off", "load"} /\ task[p].cur = {} /\ task[p].todo = {}
      BY DEF Init, Idle, Task
  <2>2. {"off", "load"} \subseteq Places(p)
      BY DEF Places
  <2>3. QED
      BY <2>1, <2>2 DEF Shape
<1>5. 0 \in 0..MaxEvents
    BY FileAssumption
<1>6. QED
    BY <1>1, <1>2, <1>3, <1>4, <1>5 DEF Types, Init

LEMMA NextTypes == Types /\ [Next]_vars => Types'
<1> SUFFICES ASSUME Types, [Next]_vars PROVE Types'
    OBVIOUS
<1>1. ASSUME NEW p \in Process, Start(p) \/ Step(p) \/ InspectFails(p) \/ Crash(p) PROVE Types'
  <2>1. CASE LoadFails(p) \/ Truncate(p) \/ End(p) \/ ReloadOnce(p)
      BY <2>1, PlainTypes
  <2>2. CASE InspectRoute(p) \/ InspectAddr(p) \/ InspectFails(p)
      BY <2>2, InspectTypes
  <2>3. CASE ReloadStop(p) \/ ReloadStart(p)
      BY <2>3, ReloadTypes
  <2>4. CASE Start(p)
      BY <2>4, StartTypes
  <2>5. CASE LoadToEdit(p)
      BY <2>5, LoadToEditTypes
  <2>6. CASE LoadToInspect(p)
      BY <2>6, LoadToInspectTypes
  <2>7. CASE Pick(p)
      BY <2>7, PickTypes
  <2>8. CASE Reread(p)
      BY <2>8, RereadTypes
  <2>9. CASE Write(p)
      BY <2>9, WriteTypes
  <2>10. CASE Crash(p)
      BY <2>10, CrashTypes
  <2>11. QED
      BY <1>1, <2>1, <2>2, <2>3, <2>4, <2>5, <2>6, <2>7, <2>8, <2>9, <2>10 DEF Step
<1>2. CASE UNCHANGED vars
  <2>1. /\ UNCHANGED <<disk, content, host, link, events, pc, task, want, overlapped>>
        /\ Idle' = Idle
      BY <1>2 DEF vars, file, world, history, Idle, Task
  <2>2. \A p \in Process : Shape(p)'
      BY <2>1 DEF Types, Shape
  <2>3. QED
      BY <2>1, <2>2 DEF Types
<1>3. QED
    BY <1>1, <1>2, ServiceTypes, HostTypes DEF Next

LEMMA AlwaysTypes == Spec => []Types
BY InitTypes, NextTypes, PTL DEF Spec

(* Every process of the policy file keeps to the commands of its kind, and *)
(* what it holds is a configuration.                                       *)
THEOREM FileTypes == Spec => []TypeOK
<1>1. Types => TypeOK
  <2> SUFFICES ASSUME Types PROVE TypeOK
      OBVIOUS
  <2>1. ASSUME NEW p \in Process PROVE pc[p] \in Places(p)
      BY DEF Types, Shape
  <2>2. ASSUME NEW p \in Process
        PROVE  /\ task[p].conf \in Config /\ task[p].seen \in [Direct -> Pair]
               /\ task[p].todo \subseteq Egress
               /\ task[p].cur \subseteq Direct /\ task[p].noted \subseteq Direct
      BY DEF Types, TaskSet
  <2>3. QED
      BY <2>1, <2>2 DEF Types, TypeOK, Places
<1>2. QED
    BY <1>1, AlwaysTypes, PTL

-----------------------------------------------------------------------------
(* What the steps of one process leave alone.                              *)

Alone(p) ==
    \A q \in Process : q \notin {p, Service} => pc'[q] = pc[q] /\ task'[q] = task[q]

LEMMA ExitAlone ==
    ASSUME Types, NEW p \in Process, Exit(p) \/ (\E l : Goto(p, l) /\ UNCHANGED task)
    PROVE  Alone(p) /\ (Exit(p) => pc'[p] = "off")
BY DEF Types, Alone, Exit, Goto

LEMMA MoveAlone ==
    ASSUME Types, NEW p \in Process, NEW t, NEW l, Moves(p, t, l)
    PROVE  Alone(p) /\ pc'[p] = l /\ task'[p] = t
BY DEF Types, Moves, Alone

(* The steps that only go on, and the processes they end or hand over to.  *)
LEMMA PlainAlone ==
    ASSUME Types, NEW p \in Process,
           Start(p) \/ LoadFails(p) \/ End(p) \/ ReloadStop(p) \/ ReloadOnce(p) \/ ReloadStart(p)
    PROVE  /\ Alone(p) /\ UNCHANGED <<file, world, history>>
           /\ pc'[p] \in {"off", "load", "failed", "stop", "once", "start"}
<1>1. task \in [Process -> TaskSet] /\ pc \in [Process -> Place]
    BY DEF Types
<1>2. CASE Start(p)
  <2>1. Goto(p, IF p \in Reloaders THEN "stop" ELSE "load") /\ UNCHANGED <<file, world, history>>
      BY <1>2 DEF Start
  <2>2. \A q \in Process : q # p => task'[q] = task[q]
      BY <1>1, <1>2 DEF Start
  <2>3. QED
      BY <1>1, <2>1, <2>2 DEF Goto, Alone
<1>3. CASE LoadFails(p)
  <2>1. CASE Exit(p)
      BY <1>1, <1>3, <2>1, ExitAlone DEF LoadFails
  <2>2. CASE Goto(p, "failed") /\ UNCHANGED task
      BY <1>1, <1>3, <2>2 DEF LoadFails, Goto, Alone
  <2>3. QED
      BY <1>3, <2>1, <2>2 DEF LoadFails
<1>4. CASE End(p)
    BY <1>4, ExitAlone DEF End
<1>5. CASE ReloadOnce(p)
    BY <1>1, <1>5 DEF ReloadOnce, Goto, Alone
<1>6. CASE ReloadStop(p) \/ ReloadStart(p)
  <2>1. p # Service
      BY <1>6, KindOf, FileAssumption DEF ReloadStop, ReloadStart
  <2>2. QED
      BY <1>1, <1>6, <2>1 DEF ReloadStop, ReloadStart, Alone
<1>7. QED
    BY <1>2, <1>3, <1>4, <1>5, <1>6

LEMMA CrashAlone ==
    ASSUME Types, NEW p \in Process, Crash(p)
    PROVE  Alone(p) /\ pc'[p] \in {"off", "failed"}
<1>1. CASE Exit(p)
    BY <1>1, ExitAlone
<1>2. CASE Goto(p, "failed") /\ UNCHANGED task
    BY <1>2, ExitAlone DEF Goto, Types
<1>3. QED
    BY <1>1, <1>2, CrashShape

LEMMA LoadAlone ==
    ASSUME Types, NEW p \in Process, LoadToInspect(p)
    PROVE  /\ Alone(p) /\ UNCHANGED <<file, world, history>>
           /\ \/ pc'[p] \in {"off", "again"}
              \/ \E b \in BOOLEAN :
                    /\ b = (\E q, r \in Present(content.policy) :
                               q # r /\ DomainOf[q] = DomainOf[r] /\ DomainOf[q] # NoDomain)
                    /\ task'[p] = InspectTask(p, b) /\ pc'[p] = "pick"
                    /\ p \in Validators => Valid(content)
<1>1. UNCHANGED <<file, world, history>> /\ task \in [Process -> TaskSet] /\ pc \in [Process -> Place]
    BY DEF LoadToInspect, Types
<1>2. CASE Exit(p)
    BY <1>1, <1>2, ExitAlone
<1>3. CASE Goto(p, "again") /\ UNCHANGED task
    BY <1>1, <1>3 DEF Goto, Alone
<1>4. ASSUME NEW b \in BOOLEAN, task' = [task EXCEPT ![p] = InspectTask(p, b)], Goto(p, "pick")
      PROVE  Alone(p) /\ task'[p] = InspectTask(p, b) /\ pc'[p] = "pick"
    BY <1>1, <1>4 DEF Goto, Alone
<1>5. QED
    BY <1>1, <1>2, <1>3, <1>4, LoadShape

LEMMA TruncateAlone ==
    ASSUME Types, NEW p \in Process, Truncate(p)
    PROVE  /\ Alone(p) /\ UNCHANGED <<content, world, task, history>> /\ disk' = "truncated"
           /\ pc[p] = "truncate" /\ pc'[p] = "write" /\ p \in Writers
<1>1. p \in Writers
    BY KindOf DEF Truncate
<1>2. QED
    BY <1>1 DEF Types, Truncate, Goto, Alone

LEMMA EditAlone ==
    ASSUME Types, NEW p \in Process, LoadToEdit(p)
    PROVE  /\ Alone(p) /\ UNCHANGED <<file, world, want>> /\ p \in Editors /\ disk = "whole"
           /\ overlapped' = (overlapped \/ Others(p) # {})
           /\ pc'[p] = "truncate" /\ task'[p].script = task[p].script
           /\ task'[p].conf = Edited(task[p].script, content)
<1>1. task \in [Process -> TaskSet] /\ task[p] \in TaskSet /\ pc \in [Process -> Place]
    BY DEF Types
<1>2. disk = "whole"
    BY DEF LoadToEdit, Unusable
<1>3. QED
    BY <1>1, <1>2 DEF LoadToEdit, Goto, Alone, TaskSet

LEMMA ServiceAlone ==
    ASSUME Types, LoadToRun \/ Restart \/ StopService
    PROVE  Alone(Service) /\ UNCHANGED <<file, world, history>>
<1>1. Service \in Process
    BY DEF Process
<1>2. QED
    BY <1>1 DEF Types, LoadToRun, Restart, StopService, Goto, Alone

-----------------------------------------------------------------------------
(* Finished edits.                                                         *)

Window == {"truncate", "write"}

(* The one writer between reading and writing has made its change to the   *)
(* content with every finished edit, and the file is as it left it.        *)
WindowOK(p) ==
    pc[p] \in Window =>
        /\ \A q \in Writers : pc[q] \in Window => q = p
        /\ content = want
        /\ pc[p] = "truncate" => disk = "whole"
        /\ pc[p] = "write" => disk = "truncated"
        /\ p \in Editors => task[p].conf = Edited(task[p].script, want)
        /\ p \in Refreshers => task[p].conf = [want EXCEPT !.gateway = task[p].conf.gateway,
                                                         !.source = task[p].conf.source]

EditsInv == EditsKept /\ (~overlapped => \A p \in Writers : WindowOK(p))

LEMMA WritersAre ==
    /\ Writers \subseteq Process /\ Service \notin Writers
    /\ \A p \in Writers : p \in Editors \/ p \in Refreshers
    /\ \A p \in Editors : p \notin Refreshers
BY FileAssumption DEF Process, Writers

(* Steps that open no window and leave the file alone.                     *)
LEMMA EditsSame ==
    ASSUME EditsInv, UNCHANGED <<file, history>>,
           \A q \in Writers : pc'[q] \in Window =>
               /\ pc'[q] = pc[q] /\ task'[q].conf = task[q].conf
               /\ task'[q].script = task[q].script
    PROVE  EditsInv'
BY DEF EditsInv, EditsKept, WindowOK, file, history

LEMMA EditsAlone ==
    ASSUME EditsInv, UNCHANGED <<file, history>>, NEW p \in Process, Alone(p),
           pc'[p] \notin Window
    PROVE  EditsInv'
<1>1. \A q \in Writers : pc'[q] \in Window => pc'[q] = pc[q] /\ task'[q] = task[q]
    BY WritersAre DEF Alone
<1>2. QED
    BY <1>1, EditsSame

(* A window that opens alone.                                              *)
LEMMA EditsOpen ==
    ASSUME EditsInv, NEW p \in Writers, Alone(p), UNCHANGED <<file, want>>, disk = "whole",
           overlapped' = (overlapped \/ Others(p) # {}), pc'[p] = "truncate",
           p \in Editors => task'[p].conf = Edited(task'[p].script, content),
           p \in Refreshers => task'[p].conf = [content EXCEPT !.gateway = task'[p].conf.gateway,
                                                            !.source = task'[p].conf.source]
    PROVE  EditsInv'
<1>1. CASE overlapped'
    BY <1>1 DEF EditsInv, EditsKept
<1>2. CASE ~overlapped'
  <2>1. ~overlapped /\ Others(p) = {}
      BY <1>2
  <2>2. content = want
      BY <2>1 DEF EditsInv, EditsKept
  <2>3. \A q \in Writers : q # p => pc'[q] \notin Window
      BY <2>1, WritersAre DEF Others, Alone, Window
  <2>4. QED
      BY <2>2, <2>3 DEF EditsInv, EditsKept, WindowOK, file
<1>3. QED
    BY <1>1, <1>2

LEMMA EditsWrite == ASSUME Types, EditsInv, NEW p \in Process, Write(p) PROVE EditsInv'
<1>1. /\ pc[p] = "write" /\ p \in Writers /\ UNCHANGED overlapped
      /\ pc' = [pc EXCEPT ![p] = "done"] /\ pc \in [Process -> Place]
    BY WriteShape DEF Types
<1>2. CASE overlapped
    BY <1>1, <1>2 DEF EditsInv, EditsKept
<1>3. CASE ~overlapped
  <2>1. /\ \A q \in Writers : pc[q] \in Window => q = p
        /\ disk = "truncated"
        /\ p \in Editors => task[p].conf = Edited(task[p].script, want)
        /\ p \in Refreshers => task[p].conf = [want EXCEPT !.gateway = task[p].conf.gateway,
                                                         !.source = task[p].conf.source]
      BY <1>1, <1>3 DEF EditsInv, WindowOK, Window
  <2>2. \A q \in Writers : pc'[q] \notin Window
      BY <1>1, <2>1, WritersAre DEF Window
  <2>3. content' = task[p].conf
      BY <2>1 DEF Write
  <2>4. want' = task[p].conf
    <3>1. CASE p \in Editors
        BY <2>1, <3>1, WriteShape
    <3>2. CASE p \notin Editors
      <4>1. p \in Refreshers
          BY <1>1, <3>2, WritersAre
      <4>2. want' = [want EXCEPT !.gateway = task[p].conf.gateway, !.source = task[p].conf.source]
          BY <3>2, WriteShape
      <4>3. QED
          BY <2>1, <4>1, <4>2
    <3>3. QED
        BY <3>1, <3>2
  <2>5. QED
      BY <2>2, <2>3, <2>4 DEF EditsInv, EditsKept, WindowOK
<1>4. QED
    BY <1>2, <1>3

LEMMA EditsTruncate == ASSUME Types, EditsInv, NEW p \in Process, Truncate(p) PROVE EditsInv'
<1>1. /\ Alone(p) /\ UNCHANGED <<content, world, task, history>> /\ disk' = "truncated"
      /\ pc[p] = "truncate" /\ pc'[p] = "write" /\ p \in Writers
    BY TruncateAlone
<1>2. \A q \in Writers : q # p => pc'[q] = pc[q]
    BY <1>1, WritersAre DEF Alone
<1>3. QED
    BY <1>1, <1>2 DEF EditsInv, EditsKept, WindowOK, Window, history

LEMMA EditsCrash == ASSUME Types, EditsInv, NEW p \in Process, Crash(p) PROVE EditsInv'
<1>1. /\ UNCHANGED <<content, history>> /\ disk' \in {disk, "corrupt"}
      /\ disk' # disk => pc[p] = "write" /\ disk = "whole"
      /\ Alone(p) /\ pc'[p] \in {"off", "failed"}
    BY CrashShape, CrashAlone DEF Crash
<1>2. CASE UNCHANGED disk
    BY <1>1, <1>2, EditsAlone DEF Window, file
<1>3. CASE disk' # disk
  <2>1. p \in Writers
      BY <1>1, <1>3, KindOf
  <2>2. overlapped
      BY <1>1, <1>3, <2>1 DEF EditsInv, WindowOK, Window
  <2>3. QED
      BY <1>1, <2>2 DEF EditsInv, EditsKept, history
<1>4. QED
    BY <1>2, <1>3

LEMMA EditsReread == ASSUME Types, EditsInv, NEW p \in Process, Reread(p) PROVE EditsInv'
<1>1. p \in Refreshers /\ p \in Writers /\ UNCHANGED <<file, want>> /\ p \notin Editors
    BY RereadShape, WritersAre DEF Writers
<1>2. CASE Exit(p) /\ UNCHANGED overlapped
    BY <1>1, <1>2, ExitAlone, EditsAlone DEF Window, history
<1>3. CASE /\ disk = "whole" /\ Moves(p, RereadTask(p), "truncate")
           /\ overlapped' = (overlapped \/ Others(p) # {})
  <2>1. Alone(p) /\ pc'[p] = "truncate" /\ task'[p] = RereadTask(p)
      BY <1>3, MoveAlone
  <2>2. task'[p].conf = Refreshed(p, content)
      BY <2>1 DEF RereadTask, Types, TaskSet
  <2>3. task'[p].conf = [content EXCEPT !.gateway = task'[p].conf.gateway,
                                        !.source = task'[p].conf.source]
    <3>1. content \in Config
        BY DEF Types
    <3>2. Refreshed(p, content) = [content EXCEPT !.gateway = Refreshed(p, content).gateway,
                                                  !.source = Refreshed(p, content).source]
        BY <3>1, RefreshedType
    <3>3. QED
        BY <2>2, <3>2
  <2>4. QED
      BY <1>1, <1>3, <2>1, <2>3, EditsOpen
<1>4. QED
    BY <1>2, <1>3, RereadShape

LEMMA InspectAlone ==
    ASSUME Types, NEW p \in Process,
           Pick(p) \/ InspectRoute(p) \/ InspectAddr(p) \/ InspectFails(p)
    PROVE  /\ Alone(p) /\ UNCHANGED <<file, world, history>>
           /\ pc'[p] \in {"pick", "route", "addr", "done", "reread"}
<1>1. UNCHANGED <<file, world, history>>
    BY DEF Pick, InspectRoute, InspectAddr, InspectFails
<1>2. PICK t, l : Moves(p, t, l) /\ l \in {"pick", "route", "addr", "done", "reread"}
    BY PickShape, RouteShape, AddrShape, FailShape
<1>3. QED
    BY <1>1, <1>2, MoveAlone

LEMMA EditsNext == Types /\ EditsInv /\ [Next]_vars => EditsInv'
<1> SUFFICES ASSUME Types, EditsInv, [Next]_vars PROVE EditsInv'
    OBVIOUS
<1>1. ASSUME NEW p \in Process, Start(p) \/ Step(p) \/ InspectFails(p) \/ Crash(p) PROVE EditsInv'
  <2>1. CASE \/ Start(p) \/ LoadFails(p) \/ End(p) \/ ReloadStop(p) \/ ReloadOnce(p)
             \/ ReloadStart(p)
      BY <2>1, PlainAlone, EditsAlone DEF Window
  <2>2. CASE Pick(p) \/ InspectRoute(p) \/ InspectAddr(p) \/ InspectFails(p)
      BY <2>2, InspectAlone, EditsAlone DEF Window
  <2>3. CASE LoadToInspect(p)
    <3>1. pc'[p] \notin Window
        BY <2>3, LoadAlone DEF Window
    <3>2. QED
        BY <2>3, <3>1, LoadAlone, EditsAlone
  <2>4. CASE LoadToEdit(p)
    <3>1. p \in Writers /\ p \notin Refreshers
        BY <2>4, EditAlone, WritersAre DEF Writers
    <3>2. QED
        BY <2>4, <3>1, EditAlone, EditsOpen
  <2>5. CASE Reread(p)
      BY <2>5, EditsReread
  <2>6. CASE Truncate(p)
      BY <2>6, EditsTruncate
  <2>7. CASE Write(p)
      BY <2>7, EditsWrite
  <2>8. CASE Crash(p)
      BY <2>8, EditsCrash
  <2>9. QED
      BY <1>1, <2>1, <2>2, <2>3, <2>4, <2>5, <2>6, <2>7, <2>8 DEF Step
<1>2. CASE LoadToRun \/ Restart \/ StopService
  <2>1. \A q \in Writers : pc'[q] = pc[q] /\ task'[q] = task[q]
      BY <1>2, ServiceAlone, WritersAre DEF Alone
  <2>2. QED
      BY <1>2, <2>1, ServiceAlone, EditsSame
<1>3. CASE Dhcp \/ LinkChanges
  <2>1. UNCHANGED <<file, pc, history>> /\ \A q \in Process : task'[q] = Noted(q)
      BY <1>3, HostShape
  <2>2. \A q \in Writers : task'[q].conf = task[q].conf /\ task'[q].script = task[q].script
    <3>1. \A q \in Writers : task[q] \in TaskSet
        BY WritersAre DEF Types
    <3>2. \A q \in Writers : Noted(q).conf = task[q].conf /\ Noted(q).script = task[q].script
        BY <3>1 DEF Noted, TaskSet
    <3>3. QED
        BY <2>1, <3>2, WritersAre
  <2>3. QED
      BY <2>1, <2>2, EditsSame
<1>4. CASE UNCHANGED vars
    BY <1>4, EditsSame DEF vars, file, history
<1>5. QED
    BY <1>1, <1>2, <1>3, <1>4 DEF Next

(* No finished edit is lost as long as no two programs are between reading *)
(* the file and writing it at the same time: apply_refresh takes what it   *)
(* writes from a second reading (direct_egress.rs:170).                    *)
THEOREM FinishedEditsStay == Spec => []EditsKept
<1>1. Init => EditsInv
  <2> SUFFICES ASSUME Init PROVE EditsInv
      OBVIOUS
  <2>1. \A p \in Writers : pc[p] \in {"off", "load"}
      BY WritersAre DEF Init
  <2>2. QED
      BY <2>1 DEF Init, EditsInv, EditsKept, WindowOK, Window
<1>2. EditsInv => EditsKept
    BY DEF EditsInv
<1>3. QED
    BY <1>1, <1>2, AlwaysTypes, EditsNext, PTL DEF Spec

-----------------------------------------------------------------------------
(* What an inspection has found out.                                       *)

(* c shows no drift but perhaps of the egresses in S.                      *)
NoDrift(c, S) == \A e \in (Direct \cap On(c.egress)) \ S : Drift(c, e, Runtime(e)) # "drift"

(* While the host and the file keep still, what a refresh has seen of an   *)
(* egress is how it is, and what it writes shows no drift.                 *)
RefreshOK(p) ==
    task[p].still =>
        /\ pc[p] \in {"pick", "route", "addr", "reread"} =>
              /\ content = task[p].conf
              /\ \A e \in Planned(p) \ (task[p].todo \cup task[p].cur \cup task[p].noted) :
                    task[p].seen[e] = Runtime(e)
        /\ pc[p] = "addr" => \A e \in task[p].cur : task[p].seen[e] = Runtime(e)
        /\ pc[p] \in Window => NoDrift(task[p].conf, task[p].noted)
        /\ pc[p] = "done" /\ disk = "whole" => NoDrift(content, task[p].noted)

(* A validation that has not warned has found an accepted file, and the    *)
(* egresses it is through with as configured.                              *)
ValidateOK(p) ==
    /\ task[p].still /\ ~task[p].warned
    /\ pc[p] \in {"pick", "route", "addr", "done"}
    =>  /\ content = task[p].conf /\ Valid(content)
        /\ \A e \in On(content.egress) \ (task[p].todo \cup task[p].cur) :
              /\ link[e] # "missing"
              /\ e \in Direct =>
                    link[e] = "up" /\ (e \in task[p].noted \/ Drift(content, e, Runtime(e)) = "ok")
        /\ \A e \in task[p].cur : link[e] = "up"
        /\ pc[p] = "addr" => \A e \in task[p].cur : task[p].seen[e] = Runtime(e)

InspectInv ==
    /\ \A p \in Refreshers : RefreshOK(p)
    /\ \A p \in Validators : ValidateOK(p)

LEMMA InspectorsAre ==
    /\ Inspectors \subseteq Process /\ Service \notin Inspectors
    /\ \A p \in Inspectors : p \in Refreshers \/ p \in Validators
    /\ \A p \in Refreshers : p \notin Validators /\ p \in Inspectors /\ p \in Writers
    /\ \A p \in Validators : p \notin Refreshers /\ p \notin Writers /\ p \in Inspectors
BY FileAssumption DEF Process, Writers, Inspectors

LEMMA DriftOf ==
    ASSUME NEW c, NEW e, NEW seen
    PROVE  Drift(c, e, seen) = "drift" <=>
              /\ seen.gateway # NoAddr /\ seen.source # NoAddr
              /\ \/ c.gateway[e] \notin {NoAddr, seen.gateway}
                 \/ c.source[e] \notin {NoAddr, seen.source}
BY DEF Drift

(* A refresh that has seen the host as it is leaves no drift.              *)
LEMMA RefreshedNoDrift ==
    ASSUME Types, NEW p \in Process, content = task[p].conf,
           \A e \in Planned(p) \ task[p].noted : task[p].seen[e] = Runtime(e)
    PROVE  NoDrift(Refreshed(p, content), task[p].noted)
<1> DEFINE c == Refreshed(p, content)
           update == {e \in Planned(p) \cap Present(content.egress) :
                         Drift(content, e, task[p].seen[e]) = "drift"}
<1>1. content \in Config
    BY DEF Types
<1>2. /\ c.egress = content.egress
      /\ \A e \in Direct :
            /\ c.gateway[e] = IF e \in update THEN task[p].seen[e].gateway ELSE content.gateway[e]
            /\ c.source[e] = IF e \in update THEN task[p].seen[e].source ELSE content.source[e]
    BY <1>1 DEF Refreshed, Config
<1> HIDE DEF c
<1>3. ASSUME NEW e \in (Direct \cap On(c.egress)) \ task[p].noted
      PROVE  Drift(c, e, Runtime(e)) # "drift"
  <2>1. e \in Planned(p) \cap Present(content.egress)
      BY <1>2, <1>3 DEF Planned, On, Present
  <2>2. task[p].seen[e] = Runtime(e)
      BY <2>1
  <2>3. CASE e \in update
    <3>1. c.gateway[e] = Runtime(e).gateway /\ c.source[e] = Runtime(e).source
        BY <1>2, <2>2, <2>3
    <3>2. QED
        BY <3>1, DriftOf
  <2>4. CASE e \notin update
    <3>1. Drift(content, e, Runtime(e)) # "drift"
        BY <2>1, <2>2, <2>4
    <3>2. c.gateway[e] = content.gateway[e] /\ c.source[e] = content.source[e]
        BY <1>2, <2>4
    <3>3. QED
        BY <3>1, <3>2, DriftOf
  <2>5. QED
      BY <2>3, <2>4
<1>4. QED
    BY <1>3 DEF NoDrift, c

-----------------------------------------------------------------------------
(* The steps of others.                                                    *)

LEMMA SameRuntime ==
    ASSUME UNCHANGED world PROVE \A e : Runtime(e)' = Runtime(e)
BY DEF world, Runtime

LEMMA OtherKeeps ==
    ASSUME UNCHANGED <<content, world>>, disk' = "whole" => disk = "whole",
           NEW p, pc'[p] = pc[p], task'[p] = task[p]
    PROVE  /\ RefreshOK(p) => RefreshOK(p)'
           /\ ValidateOK(p) => ValidateOK(p)'
<1>1. \A e : Runtime(e)' = Runtime(e)
    BY SameRuntime
<1>2. Planned(p)' = Planned(p) /\ link' = link
    BY DEF Planned, world
<1>3. /\ NoDrift(content, task[p].noted)' = NoDrift(content, task[p].noted)
      /\ NoDrift(task[p].conf, task[p].noted)' = NoDrift(task[p].conf, task[p].noted)
    BY <1>1 DEF NoDrift
<1>4. RefreshOK(p) => RefreshOK(p)'
    BY <1>1, <1>2, <1>3 DEF RefreshOK
<1>5. ValidateOK(p) => ValidateOK(p)'
    BY <1>1, <1>2 DEF ValidateOK
<1>6. QED
    BY <1>4, <1>5

(* Those whose inspection is disturbed have nothing left to show.          *)
LEMMA NotedKeeps ==
    ASSUME Types, NEW p \in Inspectors, pc'[p] = pc[p], task'[p] = Noted(p)
    PROVE  RefreshOK(p)' /\ ValidateOK(p)'
<1>1. task'[p].still => pc[p] \in {"off", "load", "again"}
    BY InspectorsAre DEF Noted, Types, TaskSet
<1>2. QED
    BY <1>1 DEF RefreshOK, ValidateOK, Window

(* A step of p, in which the others keep what they have found out.         *)
LEMMA InspectStep ==
    ASSUME InspectInv, NEW p, Alone(p), UNCHANGED <<content, world>>,
           disk' = "whole" => disk = "whole",
           p \in Refreshers => RefreshOK(p)',
           p \in Validators => ValidateOK(p)'
    PROVE  InspectInv'
<1>1. ASSUME NEW q \in Inspectors, q # p
      PROVE  (RefreshOK(q) => RefreshOK(q)') /\ (ValidateOK(q) => ValidateOK(q)')
  <2>1. pc'[q] = pc[q] /\ task'[q] = task[q]
      BY <1>1, InspectorsAre DEF Alone
  <2>2. QED
      BY <2>1, OtherKeeps
<1>2. QED
    BY <1>1, InspectorsAre DEF InspectInv

(* Nothing is claimed of a process outside of an inspection and a window.  *)
LEMMA InspectOff ==
    ASSUME InspectInv, NEW p, Alone(p), UNCHANGED <<content, world>>,
           disk' = "whole" => disk = "whole",
           pc'[p] \in {"off", "load", "failed", "stop", "once", "start", "again"}
    PROVE  InspectInv'
<1>1. RefreshOK(p)' /\ ValidateOK(p)'
    BY DEF RefreshOK, ValidateOK, Window
<1>2. QED
    BY <1>1, InspectStep

-----------------------------------------------------------------------------
(* The steps of an inspection.                                             *)

LEMMA InspectLoad == ASSUME Types, InspectInv, NEW p \in Process, LoadToInspect(p) PROVE InspectInv'
<1>1. Alone(p) /\ UNCHANGED <<file, world, history>>
    BY LoadAlone
<1>2. UNCHANGED <<disk, content, world>>
    BY <1>1 DEF file
<1>3. CASE pc'[p] \in {"off", "again"}
    BY <1>1, <1>2, <1>3, InspectOff
<1>4. ASSUME NEW b \in BOOLEAN, task'[p] = InspectTask(p, b), pc'[p] = "pick",
             p \in Validators => Valid(content)
      PROVE  InspectInv'
  <2>1. task[p] \in TaskSet /\ content \in Config
      BY DEF Types
  <2>2. /\ task'[p].conf = content
        /\ task'[p].todo = On(content.egress) \cap (IF p \in Refreshers THEN Direct ELSE Egress)
      BY <1>4, <2>1 DEF InspectTask, TaskSet
  <2>3. ASSUME p \in Refreshers PROVE RefreshOK(p)'
    <3>1. Planned(p)' \subseteq task'[p].todo
        BY <2>2, <2>3 DEF Planned
    <3>2. QED
        BY <1>2, <1>4, <2>2, <3>1 DEF RefreshOK, Window
  <2>4. ASSUME p \in Validators PROVE ValidateOK(p)'
    <3>1. On(content.egress) \subseteq task'[p].todo /\ task'[p].cur = task[p].cur
        BY <1>4, <2>1, <2>2, <2>4, InspectorsAre DEF InspectTask, TaskSet, On, Config
    <3>2. task[p].cur = {}
      <4>1. pc[p] \notin {"route", "addr"}
          BY DEF LoadToInspect
      <4>2. QED
          BY <4>1 DEF Types, Shape
    <3>3. QED
        BY <1>2, <1>4, <2>2, <2>4, <3>1, <3>2 DEF ValidateOK
  <2>5. QED
      BY <1>1, <1>2, <2>3, <2>4, InspectStep
<1>5. QED
    BY <1>3, <1>4, LoadAlone

LEMMA InspectPick == ASSUME Types, InspectInv, NEW p \in Process, Pick(p) PROVE InspectInv'
<1>1. /\ pc[p] = "pick" /\ p \in Inspectors /\ UNCHANGED <<disk, content, world>> /\ Alone(p)
      /\ task[p] \in TaskSet /\ Shape(p)
    BY PickShape, InspectAlone DEF Types, file
<1>2. /\ \A e : Runtime(e)' = Runtime(e) /\ link' = link
      /\ task[p].cur = {}
    BY <1>1, SameRuntime DEF world, Shape
<1>3. ASSUME NEW e \in task[p].todo, Moves(p, PickTask(p, e), "route"),
             p \in Validators => link[e] = "up"
      PROVE  InspectInv'
  <2>1. pc'[p] = "route" /\ task'[p] = PickTask(p, e)
      BY <1>3, MoveAlone
  <2>2. /\ task'[p].cur = {e} /\ task'[p].todo = task[p].todo \ {e}
        /\ task'[p].conf = task[p].conf /\ task'[p].seen = task[p].seen
        /\ task'[p].still = task[p].still /\ task'[p].noted = task[p].noted
        /\ task'[p].warned = task[p].warned
      BY <1>1, <2>1 DEF PickTask, TaskSet
  <2>3. task'[p].todo \cup task'[p].cur = task[p].todo \cup task[p].cur
      BY <1>2, <1>3, <2>2
  <2>4. ASSUME p \in Refreshers PROVE RefreshOK(p)'
    <3>1. SUFFICES ASSUME task'[p].still PROVE RefreshOK(p)'
        BY DEF RefreshOK
    <3>2. /\ content = task[p].conf
          /\ \A f \in Planned(p) \ (task[p].todo \cup task[p].cur \cup task[p].noted) :
                 task[p].seen[f] = Runtime(f)
        BY <1>1, <2>2, <2>4, <3>1 DEF RefreshOK, InspectInv
    <3>3. Planned(p)' = Planned(p)
        BY <2>2 DEF Planned
    <3>4. \A f \in Planned(p)' \ (task'[p].todo \cup task'[p].cur \cup task'[p].noted) :
              task'[p].seen[f] = Runtime(f)'
        BY <1>2, <2>2, <2>3, <3>2, <3>3
    <3>5. QED
        BY <1>1, <2>1, <2>2, <3>2, <3>4 DEF RefreshOK, Window
  <2>5. ASSUME p \in Validators PROVE ValidateOK(p)'
    <3>1. SUFFICES ASSUME task'[p].still, ~task'[p].warned PROVE ValidateOK(p)'
        BY DEF ValidateOK
    <3>2. /\ content = task[p].conf /\ Valid(content)
          /\ \A f \in On(content.egress) \ (task[p].todo \cup task[p].cur) :
                /\ link[f] # "missing"
                /\ f \in Direct =>
                      link[f] = "up" /\ (f \in task[p].noted \/ Drift(content, f, Runtime(f)) = "ok")
        BY <1>1, <2>2, <2>5, <3>1 DEF ValidateOK, InspectInv
    <3>3. /\ content' = task'[p].conf /\ Valid(content')
          /\ \A f \in On(content'.egress) \ (task'[p].todo \cup task'[p].cur) :
                /\ link'[f] # "missing"
                /\ f \in Direct =>
                      link'[f] = "up" /\ (f \in task'[p].noted \/ Drift(content', f, Runtime(f)') = "ok")
        BY <1>1, <1>2, <2>2, <2>3, <3>2
    <3>4. link'[e] = "up" /\ task'[p].cur = {e}
        BY <1>2, <1>3, <2>2, <2>5
    <3>5. QED
        BY <2>1, <3>3, <3>4 DEF ValidateOK
  <2>6. QED
      BY <1>1, <2>4, <2>5, InspectStep
<1>4. ASSUME NEW e \in task[p].todo, Moves(p, PassTask(p, e), "pick"), p \in Validators
      PROVE  InspectInv'
  <2>1. pc'[p] = "pick" /\ task'[p] = PassTask(p, e)
      BY <1>4, MoveAlone
  <2>2. /\ task'[p].cur = {} /\ task'[p].todo = task[p].todo \ {e}
        /\ task'[p].conf = task[p].conf /\ task'[p].seen = task[p].seen
        /\ task'[p].still = task[p].still /\ task'[p].noted = task[p].noted
        /\ task'[p].warned = (task[p].warned \/ link[e] = "missing" \/ e \in Direct)
      BY <1>1, <1>2, <2>1 DEF PassTask, TaskSet
  <2>3. ValidateOK(p)'
    <3>1. SUFFICES ASSUME task'[p].still, ~task'[p].warned PROVE ValidateOK(p)'
        BY DEF ValidateOK
    <3>2. /\ content = task[p].conf /\ Valid(content)
          /\ \A f \in On(content.egress) \ task[p].todo :
                /\ link[f] # "missing"
                /\ f \in Direct =>
                      link[f] = "up" /\ (f \in task[p].noted \/ Drift(content, f, Runtime(f)) = "ok")
          /\ link[e] # "missing" /\ e \notin Direct
        BY <1>1, <1>2, <1>4, <2>2, <3>1 DEF ValidateOK, InspectInv
    <3>3. \A f \in On(content.egress) \ task'[p].todo :
                /\ link[f] # "missing"
                /\ f \in Direct =>
                      link[f] = "up" /\ (f \in task[p].noted \/ Drift(content, f, Runtime(f)) = "ok")
        BY <2>2, <3>2
    <3>4. QED
        BY <1>1, <1>2, <2>1, <2>2, <3>2, <3>3 DEF ValidateOK
  <2>4. QED
      BY <1>1, <1>4, <2>3, InspectorsAre, InspectStep
<1>5. ASSUME task[p].todo = {}, NEW l \in {"done", "reread"}, Moves(p, task[p], l),
             l = "reread" => p \in Refreshers,
             l = "done" /\ p \in Refreshers => Planned(p) = {}
      PROVE  InspectInv'
  <2>1. pc'[p] = l /\ task'[p] = task[p]
      BY <1>5, MoveAlone
  <2>2. ASSUME p \in Refreshers PROVE RefreshOK(p)'
    <3>1. ASSUME task[p].still
          PROVE  /\ content = task[p].conf
                 /\ \A e \in Planned(p) \ task[p].noted : task[p].seen[e] = Runtime(e)
        BY <1>1, <1>2, <1>5, <2>2, <3>1 DEF RefreshOK, InspectInv
    <3>2. ASSUME task[p].still, l = "done" PROVE NoDrift(content, task[p].noted)'
        BY <1>1, <1>5, <2>2, <3>1, <3>2 DEF NoDrift, Planned
    <3>3. Planned(p)' = Planned(p)
        BY <2>1 DEF Planned
    <3>4. QED
        BY <1>1, <1>2, <1>5, <2>1, <3>1, <3>2, <3>3 DEF RefreshOK, Window
  <2>3. ASSUME p \in Validators PROVE ValidateOK(p)'
      BY <1>1, <1>2, <1>5, <2>1, <2>3, InspectorsAre DEF ValidateOK, InspectInv
  <2>4. QED
      BY <1>1, <2>2, <2>3, InspectStep
<1>6. QED
    BY <1>3, <1>4, <1>5, PickShape

(* What the steps between two picks leave as it is.                        *)
SameTask(p) ==
    /\ task'[p].conf = task[p].conf /\ task'[p].todo = task[p].todo
    /\ task'[p].still = task[p].still

LEMMA InspectRouteOK ==
    ASSUME Types, InspectInv, NEW p \in Process, InspectRoute(p) PROVE InspectInv'
<1>1. /\ pc[p] = "route" /\ p \in Inspectors /\ UNCHANGED <<disk, content, world>> /\ Alone(p)
      /\ task[p] \in TaskSet /\ Shape(p)
    BY RouteShape, InspectAlone DEF Types, file
<1>2. \A e : Runtime(e)' = Runtime(e)
    BY <1>1, SameRuntime
<1>3. PICK e \in task[p].cur : e \in Direct /\ Moves(p, SeenTask(p, e), "addr")
    BY RouteShape
<1>4. task[p].cur = {e}
    BY <1>1 DEF Shape
<1>5. pc'[p] = "addr" /\ task'[p] = SeenTask(p, e)
    BY <1>3, MoveAlone
<1>6. /\ SameTask(p) /\ task'[p].cur = task[p].cur /\ task'[p].noted = task[p].noted
      /\ task'[p].warned = task[p].warned
      /\ task'[p].seen = [task[p].seen EXCEPT ![e] = Runtime(e)]
    BY <1>1, <1>5 DEF SeenTask, TaskSet, SameTask
<1>7. /\ task'[p].seen[e] = Runtime(e)
      /\ \A f \in Direct : f # e => task'[p].seen[f] = task[p].seen[f]
    BY <1>1, <1>3, <1>6 DEF TaskSet
<1>8. ASSUME p \in Refreshers PROVE RefreshOK(p)'
  <2>1. Planned(p)' = Planned(p) /\ Planned(p) \subseteq Direct
      BY <1>6 DEF Planned, SameTask
  <2>2. SUFFICES ASSUME task'[p].still PROVE RefreshOK(p)'
      BY DEF RefreshOK
  <2>3. /\ content = task[p].conf
        /\ \A f \in Planned(p) \ (task[p].todo \cup task[p].cur \cup task[p].noted) :
               task[p].seen[f] = Runtime(f)
      BY <1>1, <1>6, <1>8, <2>2 DEF RefreshOK, InspectInv, SameTask
  <2>4. \A f \in Planned(p)' \ (task'[p].todo \cup task'[p].cur \cup task'[p].noted) :
            task'[p].seen[f] = Runtime(f)'
      BY <1>2, <1>4, <1>6, <1>7, <2>1, <2>3 DEF SameTask
  <2>5. QED
      BY <1>1, <1>2, <1>4, <1>5, <1>6, <1>7, <2>3, <2>4 DEF RefreshOK, SameTask, Window
<1>9. ASSUME p \in Validators PROVE ValidateOK(p)'
  <2>1. SUFFICES ASSUME task'[p].still, ~task'[p].warned PROVE ValidateOK(p)'
      BY DEF ValidateOK
  <2>2. /\ content = task[p].conf /\ Valid(content) /\ link[e] = "up"
        /\ \A f \in On(content.egress) \ (task[p].todo \cup task[p].cur) :
              /\ link[f] # "missing"
              /\ f \in Direct =>
                    link[f] = "up" /\ (f \in task[p].noted \/ Drift(content, f, Runtime(f)) = "ok")
      BY <1>1, <1>4, <1>6, <1>9, <2>1 DEF ValidateOK, InspectInv, SameTask
  <2>3. UNCHANGED <<content, link>> /\ task'[p].todo = task[p].todo /\ task'[p].conf = task[p].conf
      BY <1>1, <1>6 DEF SameTask, world
  <2>4. QED
      BY <1>2, <1>4, <1>5, <1>6, <1>7, <2>2, <2>3 DEF ValidateOK
<1>10. QED
    BY <1>1, <1>8, <1>9, InspectStep

LEMMA InspectAddrOK ==
    ASSUME Types, InspectInv, NEW p \in Process, InspectAddr(p) PROVE InspectInv'
<1>1. /\ pc[p] = "addr" /\ p \in Inspectors /\ UNCHANGED <<disk, content, world>> /\ Alone(p)
      /\ task[p] \in TaskSet /\ Shape(p)
    BY AddrShape, InspectAlone DEF Types, file
<1>2. \A e : Runtime(e)' = Runtime(e)
    BY <1>1, SameRuntime
<1>3. PICK e \in task[p].cur, b \in BOOLEAN :
          /\ b = (task[p].warned \/ Drift(task[p].conf, e, Completed(p, e)) # "ok")
          /\ e \in Direct /\ Moves(p, DoneTask(p, e, Completed(p, e), b), "pick")
    BY AddrShape
<1>4. task[p].cur = {e}
    BY <1>1 DEF Shape
<1>5. pc'[p] = "pick" /\ task'[p] = DoneTask(p, e, Completed(p, e), b)
    BY <1>3, MoveAlone
<1>6. /\ SameTask(p) /\ task'[p].cur = {} /\ task'[p].noted = task[p].noted
      /\ task'[p].warned = b
      /\ task'[p].seen = [task[p].seen EXCEPT ![e] = Completed(p, e)]
    BY <1>1, <1>5 DEF DoneTask, TaskSet, SameTask
<1>7. /\ task'[p].seen[e] = Completed(p, e)
      /\ \A f \in Direct : f # e => task'[p].seen[f] = task[p].seen[f]
    BY <1>1, <1>3, <1>6 DEF TaskSet
<1>8. ASSUME task[p].seen[e] = Runtime(e) PROVE Completed(p, e) = Runtime(e)
  <2>1. Runtime(e) \in Pair
      BY <1>3, RuntimeType
  <2>2. [Runtime(e) EXCEPT !.source = Runtime(e).source] = Runtime(e)
      BY <2>1 DEF Pair
  <2>3. QED
      BY <1>8, <2>2 DEF Completed
<1>9. ASSUME p \in Refreshers PROVE RefreshOK(p)'
  <2>1. Planned(p)' = Planned(p) /\ Planned(p) \subseteq Direct
      BY <1>6 DEF Planned, SameTask
  <2>2. SUFFICES ASSUME task'[p].still PROVE RefreshOK(p)'
      BY DEF RefreshOK
  <2>3. /\ content = task[p].conf /\ task[p].seen[e] = Runtime(e)
        /\ \A f \in Planned(p) \ (task[p].todo \cup task[p].cur \cup task[p].noted) :
               task[p].seen[f] = Runtime(f)
      BY <1>1, <1>4, <1>6, <1>9, <2>2 DEF RefreshOK, InspectInv, SameTask
  <2>4. \A f \in Planned(p)' \ (task'[p].todo \cup task'[p].cur \cup task'[p].noted) :
            task'[p].seen[f] = Runtime(f)'
      BY <1>2, <1>4, <1>6, <1>7, <1>8, <2>1, <2>3 DEF SameTask
  <2>5. QED
      BY <1>1, <1>5, <1>6, <2>3, <2>4 DEF RefreshOK, SameTask, Window
<1>10. ASSUME p \in Validators PROVE ValidateOK(p)'
  <2>1. SUFFICES ASSUME task'[p].still, ~task'[p].warned PROVE ValidateOK(p)'
      BY DEF ValidateOK
  <2>2. /\ content = task[p].conf /\ Valid(content) /\ link[e] = "up"
        /\ \A f \in On(content.egress) \ (task[p].todo \cup task[p].cur) :
              /\ link[f] # "missing"
              /\ f \in Direct =>
                    link[f] = "up" /\ (f \in task[p].noted \/ Drift(content, f, Runtime(f)) = "ok")
        /\ task[p].seen[e] = Runtime(e)
      BY <1>1, <1>3, <1>4, <1>6, <1>10, <2>1 DEF ValidateOK, InspectInv, SameTask
  <2>3. Drift(content, e, Runtime(e)) = "ok"
      BY <1>3, <1>6, <1>8, <2>1, <2>2
  <2>4. QED
      BY <1>1, <1>2, <1>4, <1>5, <1>6, <2>2, <2>3 DEF ValidateOK, SameTask, world
<1>11. QED
    BY <1>1, <1>9, <1>10, InspectStep

LEMMA InspectFailsOK ==
    ASSUME Types, InspectInv, NEW p \in Process, InspectFails(p) PROVE InspectInv'
<1>1. /\ UNCHANGED <<disk, content, world>> /\ Alone(p) /\ task[p] \in TaskSet /\ Shape(p)
      /\ pc[p] \in {"route", "addr"}
    BY FailShape, InspectAlone DEF Types, file, InspectFails
<1>2. PICK e \in task[p].cur : Moves(p, FailTask(p, e), "pick")
    BY FailShape
<1>3. pc'[p] = "pick" /\ task'[p] = FailTask(p, e) /\ e \in Direct
    BY <1>1, <1>2, MoveAlone DEF TaskSet
<1>4. /\ SameTask(p) /\ task'[p].cur = {} /\ task'[p].noted = task[p].noted \cup {e}
      /\ task'[p].warned = task[p].warned
      /\ task'[p].seen = [task[p].seen EXCEPT ![e] = NoPair]
    BY <1>1, <1>3 DEF FailTask, TaskSet, SameTask
<1>5. \A f \in Direct : f # e => task'[p].seen[f] = task[p].seen[f]
    BY <1>1, <1>3, <1>4 DEF TaskSet
<1>6. task[p].cur = {e} /\ (\A f : Runtime(f)' = Runtime(f)) /\ link' = link
    BY <1>1, SameRuntime DEF Shape, world
<1>7. ASSUME p \in Refreshers PROVE RefreshOK(p)'
  <2>1. Planned(p)' = Planned(p) /\ Planned(p) \subseteq Direct
      BY <1>4 DEF Planned, SameTask
  <2>2. SUFFICES ASSUME task'[p].still PROVE RefreshOK(p)'
      BY DEF RefreshOK
  <2>3. /\ content = task[p].conf
        /\ \A f \in Planned(p) \ (task[p].todo \cup task[p].cur \cup task[p].noted) :
              task[p].seen[f] = Runtime(f)
      BY <1>1, <1>4, <1>7, <2>2 DEF RefreshOK, InspectInv, SameTask
  <2>4. \A f \in Planned(p)' \ (task'[p].todo \cup task'[p].cur \cup task'[p].noted) :
            task'[p].seen[f] = Runtime(f)'
      BY <1>4, <1>5, <1>6, <2>1, <2>3 DEF SameTask
  <2>5. QED
      BY <1>1, <1>3, <1>4, <2>3, <2>4 DEF RefreshOK, SameTask, Window
<1>8. ASSUME p \in Validators PROVE ValidateOK(p)'
  <2>1. SUFFICES ASSUME task'[p].still, ~task'[p].warned PROVE ValidateOK(p)'
      BY DEF ValidateOK
  <2>2. /\ content = task[p].conf /\ Valid(content) /\ link[e] = "up"
        /\ \A f \in On(content.egress) \ (task[p].todo \cup task[p].cur) :
              /\ link[f] # "missing"
              /\ f \in Direct =>
                    link[f] = "up" /\ (f \in task[p].noted \/ Drift(content, f, Runtime(f)) = "ok")
      BY <1>1, <1>4, <1>6, <1>8, <2>1 DEF ValidateOK, InspectInv, SameTask
  <2>3. \A f \in On(content.egress) \ task'[p].todo :
            /\ link[f] # "missing"
            /\ f \in Direct =>
                  link[f] = "up" /\ (f \in task'[p].noted \/ Drift(content, f, Runtime(f)) = "ok")
      BY <1>4, <1>6, <2>2 DEF SameTask
  <2>4. QED
      BY <1>1, <1>3, <1>4, <1>6, <2>2, <2>3 DEF ValidateOK, SameTask
<1>9. QED
    BY <1>1, <1>7, <1>8, InspectStep

LEMMA InspectReread == ASSUME Types, InspectInv, NEW p \in Process, Reread(p) PROVE InspectInv'
<1>1. /\ pc[p] = "reread" /\ p \in Refreshers /\ UNCHANGED <<disk, content, world>>
      /\ task[p] \in TaskSet /\ Shape(p)
    BY RereadShape DEF Types, file
<1>2. CASE Exit(p)
    BY <1>1, <1>2, ExitAlone, InspectOff
<1>3. CASE Moves(p, RereadTask(p), "truncate")
  <2>1. Alone(p) /\ pc'[p] = "truncate" /\ task'[p] = RereadTask(p)
      BY <1>3, MoveAlone
  <2>2. /\ task'[p].conf = Refreshed(p, content) /\ task'[p].still = task[p].still
        /\ task'[p].noted = task[p].noted
      BY <1>1, <2>1 DEF RereadTask, TaskSet
  <2>3. ASSUME task[p].still PROVE NoDrift(Refreshed(p, content), task[p].noted)
    <3>1. task[p].todo = {} /\ task[p].cur = {}
        BY <1>1 DEF Shape
    <3>2. /\ content = task[p].conf
          /\ \A e \in Planned(p) \ task[p].noted : task[p].seen[e] = Runtime(e)
        BY <1>1, <2>3, <3>1 DEF RefreshOK, InspectInv
    <3>3. QED
        BY <3>2, RefreshedNoDrift
  <2>4. \A e : Runtime(e)' = Runtime(e)
      BY <1>1, SameRuntime
  <2>5. task'[p].still => NoDrift(task[p].conf, task[p].noted)'
      BY <2>2, <2>3, <2>4 DEF NoDrift
  <2>6. RefreshOK(p)'
      BY <2>1, <2>5 DEF RefreshOK
  <2>7. QED
      BY <1>1, <2>1, <2>6, InspectorsAre, InspectStep
<1>4. QED
    BY <1>2, <1>3, RereadShape

(* The writer's own claim goes over to the file; all others are disturbed. *)
LEMMA InspectWrite == ASSUME Types, InspectInv, NEW p \in Process, Write(p) PROVE InspectInv'
<1>1. /\ pc[p] = "write" /\ p \in Writers /\ UNCHANGED world
      /\ pc' = [pc EXCEPT ![p] = "done"] /\ pc \in [Process -> Place] /\ task'[p] = task[p]
      /\ \A q \in Process : q # p => task'[q] = Noted(q)
      /\ disk' = "whole" => content' = task[p].conf
    BY WriteShape DEF Types
<1>2. ASSUME NEW q \in Inspectors, q # p PROVE RefreshOK(q)' /\ ValidateOK(q)'
    BY <1>1, <1>2, NotedKeeps, InspectorsAre
<1>3. ASSUME p \in Refreshers PROVE RefreshOK(p)'
  <2>1. \A e : Runtime(e)' = Runtime(e)
      BY <1>1, SameRuntime
  <2>2. task[p].still => NoDrift(task[p].conf, task[p].noted)
      BY <1>1, <1>3 DEF RefreshOK, InspectInv, Window
  <2>3. task[p].still /\ disk' = "whole" => NoDrift(content, task[p].noted)'
      BY <1>1, <2>1, <2>2 DEF NoDrift
  <2>4. pc'[p] = "done"
      BY <1>1
  <2>5. QED
      BY <1>1, <2>3, <2>4 DEF RefreshOK, Window
<1>4. p \notin Validators
    BY <1>1, InspectorsAre
<1>5. QED
    BY <1>2, <1>3, <1>4, InspectorsAre DEF InspectInv

LEMMA InspectTruncate == ASSUME Types, InspectInv, NEW p \in Process, Truncate(p) PROVE InspectInv'
<1>1. /\ Alone(p) /\ UNCHANGED <<content, world, task>> /\ disk' = "truncated"
      /\ pc[p] = "truncate" /\ pc'[p] = "write" /\ p \in Writers
    BY TruncateAlone
<1>2. ASSUME p \in Refreshers PROVE RefreshOK(p)'
  <2>1. \A e : Runtime(e)' = Runtime(e)
      BY <1>1, SameRuntime
  <2>2. task[p].still => NoDrift(task[p].conf, task[p].noted)
      BY <1>1, <1>2 DEF RefreshOK, InspectInv, Window
  <2>3. task[p].still => NoDrift(task[p].conf, task[p].noted)'
      BY <1>1, <2>1, <2>2 DEF NoDrift
  <2>4. QED
      BY <1>1, <2>3 DEF RefreshOK
<1>3. QED
    BY <1>1, <1>2, InspectorsAre, InspectStep

LEMMA InspectNext == Types /\ InspectInv /\ [Next]_vars => InspectInv'
<1> SUFFICES ASSUME Types, InspectInv, [Next]_vars PROVE InspectInv'
    OBVIOUS
<1>1. ASSUME NEW p \in Process, Start(p) \/ Step(p) \/ InspectFails(p) \/ Crash(p) PROVE InspectInv'
  <2>1. CASE \/ Start(p) \/ LoadFails(p) \/ End(p) \/ ReloadStop(p) \/ ReloadOnce(p)
             \/ ReloadStart(p)
      BY <2>1, PlainAlone, InspectOff DEF file
  <2>2. CASE LoadToInspect(p)
      BY <2>2, InspectLoad
  <2>3. CASE LoadToEdit(p)
    <3>1. p \notin Refreshers /\ p \notin Validators
        BY <2>3, EditAlone, FileAssumption DEF Writers
    <3>2. QED
        BY <2>3, <3>1, EditAlone, InspectStep DEF file
  <2>4. CASE Pick(p)
      BY <2>4, InspectPick
  <2>5. CASE InspectRoute(p)
      BY <2>5, InspectRouteOK
  <2>6. CASE InspectAddr(p)
      BY <2>6, InspectAddrOK
  <2>7. CASE InspectFails(p)
      BY <2>7, InspectFailsOK
  <2>8. CASE Reread(p)
      BY <2>8, InspectReread
  <2>9. CASE Truncate(p)
      BY <2>9, InspectTruncate
  <2>10. CASE Write(p)
      BY <2>10, InspectWrite
  <2>11. CASE Crash(p)
    <3>1. disk' = "whole" => disk = "whole"
        BY <2>11, CrashShape
    <3>2. QED
        BY <2>11, <3>1, CrashShape, CrashAlone, InspectOff
  <2>12. QED
      BY <1>1, <2>1, <2>2, <2>3, <2>4, <2>5, <2>6, <2>7, <2>8, <2>9, <2>10, <2>11 DEF Step
<1>2. CASE LoadToRun \/ Restart \/ StopService
    BY <1>2, ServiceAlone, InspectorsAre, InspectStep DEF file
<1>3. CASE Dhcp \/ LinkChanges
    BY <1>3, HostShape, NotedKeeps, InspectorsAre DEF InspectInv
<1>4. CASE UNCHANGED vars
    BY <1>4, OtherKeeps DEF vars, file, world, InspectInv
<1>5. QED
    BY <1>1, <1>2, <1>3, <1>4 DEF Next

LEMMA AlwaysInspect == Spec => []InspectInv
<1>1. Init => InspectInv
  <2> SUFFICES ASSUME Init PROVE InspectInv
      OBVIOUS
  <2>1. \A p \in Inspectors : pc[p] \in {"off", "load"}
      BY InspectorsAre DEF Init
  <2>2. QED
      BY <2>1, InspectorsAre DEF InspectInv, RefreshOK, ValidateOK, Window
<1>2. QED
    BY <1>1, AlwaysTypes, InspectNext, PTL DEF Spec

(* A refresh during which the host and the file keep still leaves no drift *)
(* for the next plan or for validate, save on an egress it could not       *)
(* inspect (direct_egress.rs:101-121, 180-192).                            *)
THEOREM DriftEnds == Spec => []RefreshEndsDrift
<1>1. InspectInv => RefreshEndsDrift
    BY DEF InspectInv, RefreshOK, RefreshEndsDrift, NoDrift
<1>2. QED
    BY <1>1, AlwaysInspect, PTL

(* A validation that warns of nothing, and during which the host and the   *)
(* file keep still: the file is accepted, and every enabled direct egress  *)
(* is up, and has its addresses unless a note says that they could not be  *)
(* inspected (validate.rs:220-275).                                        *)
THEOREM PassesAreTrue == Spec => []PassIsTrue
<1>1. Types /\ InspectInv => PassIsTrue
  <2> SUFFICES ASSUME Types, InspectInv, NEW p \in Validators, pc[p] = "done", ~task[p].warned,
                      task[p].still
               PROVE  /\ Valid(content)
                      /\ \A e \in On(content.egress) : link[e] # "missing"
                      /\ \A e \in Direct \cap On(content.egress) :
                            link[e] = "up" /\ (e \in task[p].noted \/ Drift(content, e, Runtime(e)) = "ok")
      BY DEF PassIsTrue
  <2>1. task[p].todo = {} /\ task[p].cur = {}
      BY InspectorsAre DEF Types, Shape
  <2>2. ValidateOK(p)
      BY DEF InspectInv
  <2>3. QED
      BY <2>1, <2>2 DEF ValidateOK
<1>2. QED
    BY <1>1, AlwaysTypes, AlwaysInspect, PTL

-----------------------------------------------------------------------------
(* What the editing scripts make of an accepted file.                      *)

LEMMA PresentOn ==
    ASSUME NEW D, NEW f \in [D -> Marking], NEW S
    PROVE  /\ Present(Set(f, S, "enabled")) = Present(f)
           /\ Present(Set(f, S, "disabled")) = Present(f)
           /\ On(Set(f, S, "enabled")) = On(f) \cup (S \cap Present(f))
           /\ On(Set(f, S, "disabled")) = On(f) \ S
           /\ On(f) \subseteq Present(f) /\ Present(f) \subseteq D
BY DEF Set, Present, On, Marking, Presence

LEMMA EnabledOn ==
    ASSUME NEW D, NEW f \in [D -> Marking], NEW x \in D
    PROVE  /\ Present([f EXCEPT ![x] = "enabled"]) = Present(f) \cup {x}
           /\ On([f EXCEPT ![x] = "enabled"]) = On(f) \cup {x}
BY DEF Present, On, Marking, Presence

LEMMA AddDomainValid ==
    ASSUME NEW c \in Config, NEW s \in Script, s.name = "add-domain", Valid(c), Accepts(s, c)
    PROVE  Valid(Edited(s, c)) <=> ~Overlooks(s, c)
<1> DEFINE d == Edited(s, c)
<1>1. /\ c.egress \in [Egress -> Marking] /\ c.policy \in [Policy -> Marking]
      /\ s.arg \in Policy
    BY NameAssumption DEF Config, Script, Marking
<1>2. /\ d.dns = c.dns /\ d.gateway = c.gateway /\ d.egress = c.egress
      /\ d.policy = [c.policy EXCEPT ![s.arg] = "enabled"]
    BY DEF Edited, Config
<1> HIDE DEF d
<1>3. Present(d.policy) = Present(c.policy) \cup {s.arg} /\ On(d.policy) = On(c.policy) \cup {s.arg}
    BY <1>1, <1>2, EnabledOn
<1>4. /\ EgressOf[s.arg] \in Present(c.egress)
      /\ \A q \in Declared(c.policy) \ {s.arg} : DomainOf[q] # DomainOf[s.arg]
      /\ Declared(c.policy) \subseteq On(c.policy)
    BY DEF Accepts, Declared, On
<1> DEFINE silent == On(c.policy) \ Declared(c.policy)
<1>5. /\ d.dns # "undeclared" /\ Present(d.egress) # {}
      /\ \A e \in Direct \cap Present(d.egress) : d.gateway[e] # NoAddr
      /\ \A e, f \in Tunnel \cap Present(d.egress) : e = f
      /\ \A q \in Present(d.policy) : EgressOf[q] \in Present(d.egress)
    BY <1>2, <1>3, <1>4 DEF Valid
<1>6. (\A q \in On(d.policy) : EgressOf[q] \in On(d.egress)) <=> EgressOf[s.arg] \in On(c.egress)
    BY <1>2, <1>3 DEF Valid
<1>7. (\A q, r \in On(d.policy) : DomainOf[q] = DomainOf[r] => q = r \/ DomainOf[q] = NoDomain)
         <=> ~SharesDomain({s.arg}, silent)
  <2>1. \A q, r \in On(c.policy) : DomainOf[q] = DomainOf[r] => q = r \/ DomainOf[q] = NoDomain
      BY DEF Valid
  <2>2. QED
      BY <1>3, <1>4, <2>1 DEF SharesDomain
<1>8. Valid(d) <=> EgressOf[s.arg] \in On(c.egress) /\ ~SharesDomain({s.arg}, silent)
    BY <1>5, <1>6, <1>7 DEF Valid
<1>9. QED
    BY <1>8 DEF Overlooks, d

LEMMA EnableWgValid ==
    ASSUME NEW c \in Config, NEW s \in Script, s.name = "enable-wg", Valid(c), Accepts(s, c)
    PROVE  Valid(Edited(s, c)) <=> ~Overlooks(s, c)
<1> DEFINE d == Edited(s, c)
           T == Through(s.arg) \cap Present(c.policy)
<1>1. /\ c.egress \in [Egress -> Marking] /\ c.policy \in [Policy -> Marking]
      /\ s.arg \in Egress /\ s.arg \in Present(c.egress)
    BY NameAssumption DEF Config, Script, Marking, Accepts
<1>2. /\ d.dns = c.dns /\ d.gateway = c.gateway
      /\ d.egress = [c.egress EXCEPT ![s.arg] = "enabled"]
      /\ d.policy = Set(c.policy, Through(s.arg), "enabled")
    BY DEF Edited, Config
<1> HIDE DEF d
<1>3. /\ Present(d.egress) = Present(c.egress) /\ On(d.egress) = On(c.egress) \cup {s.arg}
      /\ Present(d.policy) = Present(c.policy) /\ On(d.policy) = On(c.policy) \cup T
  <2>1. /\ Present(d.egress) = Present(c.egress) \cup {s.arg}
        /\ On(d.egress) = On(c.egress) \cup {s.arg}
      BY <1>1, <1>2, EnabledOn
  <2>2. Present(d.policy) = Present(c.policy) /\ On(d.policy) = On(c.policy) \cup T
      BY <1>1, <1>2, PresentOn
  <2>3. QED
      BY <1>1, <2>1, <2>2
<1>4. \A q \in T : EgressOf[q] = s.arg
    BY DEF Through
<1> HIDE DEF T
<1>5. Valid(d) <=> \A q, r \in On(c.policy) \cup T :
                      DomainOf[q] = DomainOf[r] => q = r \/ DomainOf[q] = NoDomain
    BY <1>2, <1>3, <1>4 DEF Valid
<1>6. \A q, r \in On(c.policy) : DomainOf[q] = DomainOf[r] => q = r \/ DomainOf[q] = NoDomain
    BY DEF Valid
<1>7. Valid(d) <=> ~SharesDomain(T, T \cup On(c.policy))
    BY <1>5, <1>6 DEF SharesDomain
<1>8. Overlooks(s, c) <=> SharesDomain(T, T \cup On(c.policy))
    BY DEF Overlooks, T
<1>9. QED
    BY <1>7, <1>8 DEF d

LEMMA DisableWgValid ==
    ASSUME NEW c \in Config, NEW s \in Script, s.name = "disable-wg", Valid(c)
    PROVE  Valid(Edited(s, c)) /\ ~Overlooks(s, c)
<1> DEFINE d == Edited(s, c)
<1>1. /\ c.egress \in [Egress -> Marking] /\ c.policy \in [Policy -> Marking]
    BY DEF Config, Marking
<1>2. /\ d.dns = c.dns /\ d.gateway = c.gateway
      /\ d.egress = Set(c.egress, {s.arg}, "disabled")
      /\ d.policy = Set(c.policy, Through(s.arg), "disabled")
    BY DEF Edited, Config
<1> HIDE DEF d
<1>3. /\ Present(d.egress) = Present(c.egress) /\ On(d.egress) = On(c.egress) \ {s.arg}
      /\ Present(d.policy) = Present(c.policy) /\ On(d.policy) = On(c.policy) \ Through(s.arg)
    BY <1>1, <1>2, PresentOn
<1>4. \A q \in On(d.policy) : q \in On(c.policy) /\ EgressOf[q] # s.arg
    BY <1>1, <1>3, PresentOn DEF Through
<1>5. Valid(d)
    BY <1>2, <1>3, <1>4 DEF Valid
<1>6. QED
    BY <1>5 DEF Overlooks, d

LEMMA SettingValid ==
    ASSUME NEW c \in Config, NEW s \in Script, s.name \in {"enable-apply", "enable-dns"}, Valid(c)
    PROVE  Valid(Edited(s, c)) /\ ~Overlooks(s, c)
<1> DEFINE d == Edited(s, c)
<1>1. /\ d.dns \in {c.dns, "hard"} /\ d.gateway = c.gateway /\ d.egress = c.egress
      /\ d.policy = c.policy
    BY DEF Edited, Config
<1> HIDE DEF d
<1>2. Valid(d)
    BY <1>1 DEF Valid
<1>3. QED
    BY <1>2 DEF Overlooks, d

LEMMA AmneziaValid ==
    ASSUME NEW c \in Config, NEW s \in Script,
           s.name \in {"enable-amnezia", "enable-amnezia-domain"}, Valid(c)
    PROVE  Valid(Edited(s, c)) <=> ~Overlooks(s, c)
<1> DEFINE d == Edited(s, c)
           kept == Set(Set(c.policy, Template, "disabled"), Revived, "enabled")
           stays == On(c.policy) \ (Template \cup ByAmnezia)
           revived == Revived \cap Present(c.policy)
           A == Added(s)
<1>1. /\ c.egress \in [Egress -> Marking] /\ c.policy \in [Policy -> Marking]
      /\ s.arg \in Tunnel /\ s.arg \in Egress
    BY NameAssumption DEF Config, Script, Marking
<1>2. /\ d.dns = c.dns /\ d.gateway = c.gateway
      /\ d.egress = [Set(c.egress, Retired, "disabled") EXCEPT ![s.arg] = "enabled"]
      /\ d.policy = [q \in Policy |-> IF q \in A THEN "enabled"
                                     ELSE IF q \in ByAmnezia THEN "absent" ELSE kept[q]]
    BY DEF Edited, Config
<1> HIDE DEF d
<1>3. Present(d.egress) = Present(c.egress) \cup {s.arg}
      /\ On(d.egress) = (On(c.egress) \ Retired) \cup {s.arg}
  <2> DEFINE off == Set(c.egress, Retired, "disabled")
  <2>1. off \in [Egress -> Marking]
      BY <1>1, SetType DEF Marking, Presence
  <2>2. Present(off) = Present(c.egress) /\ On(off) = On(c.egress) \ Retired
      BY <1>1, PresentOn
  <2> HIDE DEF off
  <2>3. d.egress = [off EXCEPT ![s.arg] = "enabled"]
      BY <1>2 DEF off
  <2>4. Present(d.egress) = Present(off) \cup {s.arg} /\ On(d.egress) = On(off) \cup {s.arg}
      BY <1>1, <2>1, <2>3 DEF Present, On, Marking, Presence
  <2>5. QED
      BY <2>2, <2>4
<1>4. /\ kept \in [Policy -> Marking] /\ Present(kept) = Present(c.policy)
      /\ On(kept) = (On(c.policy) \ Template) \cup revived
  <2> DEFINE f == Set(c.policy, Template, "disabled")
  <2>1. f \in [Policy -> Marking]
      BY <1>1, SetType DEF Marking, Presence
  <2>2. Present(f) = Present(c.policy) /\ On(f) = On(c.policy) \ Template
      BY <1>1, PresentOn
  <2> HIDE DEF f
  <2>3. Set(f, Revived, "enabled") \in [Policy -> Marking]
      BY <2>1, SetType DEF Marking, Presence
  <2>4. /\ Present(Set(f, Revived, "enabled")) = Present(f)
        /\ On(Set(f, Revived, "enabled")) = On(f) \cup (Revived \cap Present(f))
      BY <2>1, PresentOn
  <2>5. QED
      BY <2>2, <2>3, <2>4 DEF f
<1> HIDE DEF kept
<1>5. A \subseteq ByAmnezia /\ A \subseteq Policy /\ \A q \in A : EgressOf[q] = s.arg
    BY NameAssumption DEF Added, Through
<1>6. /\ \A q \in A, r \in A : DomainOf[q] = DomainOf[r] => q = r \/ DomainOf[q] = NoDomain
    BY <1>5, ScriptAssumption
<1> HIDE DEF A
<1>7. /\ Present(d.policy) = (Present(c.policy) \ ByAmnezia) \cup A
      /\ On(d.policy) = stays \cup revived \cup A
  <2>1. \A q \in Policy : d.policy[q] = IF q \in A THEN "enabled"
                                     ELSE IF q \in ByAmnezia THEN "absent" ELSE kept[q]
      BY <1>2
  <2>2. DOMAIN d.policy = Policy /\ DOMAIN kept = Policy
      BY <1>2, <1>4
  <2>3. Present(d.policy) = (Present(kept) \ ByAmnezia) \cup A
      BY <1>5, <2>1, <2>2 DEF Present
  <2>4. On(d.policy) = (On(kept) \ ByAmnezia) \cup A
      BY <1>5, <2>1, <2>2 DEF On
  <2>5. revived \cap ByAmnezia = {}
      BY ScriptAssumption
  <2>6. QED
      BY <1>4, <2>3, <2>4, <2>5
<1>8. \A q \in revived : EgressOf[q] \in Direct /\ DomainOf[q] = NoDomain
    BY ScriptAssumption
<1>9. stays \subseteq On(c.policy) /\ On(c.policy) \subseteq Present(c.policy)
      /\ On(c.egress) \subseteq Present(c.egress) /\ revived \subseteq Present(c.policy)
    BY <1>1, PresentOn
<1>10. Overlooks(s, c) <=>
          \/ (Tunnel \ {s.arg}) \cap Present(c.egress) # {}
          \/ \E q \in stays : EgressOf[q] \in Retired
          \/ \E q \in revived : EgressOf[q] \notin On(c.egress)
          \/ SharesDomain(A, stays)
    BY DEF Overlooks, A
<1> HIDE DEF stays, revived
<1>11. s.arg \notin Direct /\ s.arg \notin Retired /\ Direct \cap Retired = {}
    BY <1>1, ScriptAssumption, NameAssumption
<1>12. /\ d.dns # "undeclared" /\ Present(d.egress) # {}
       /\ \A e \in Direct \cap Present(d.egress) : d.gateway[e] # NoAddr
       /\ \A q \in Present(d.policy) : EgressOf[q] \in Present(d.egress)
    BY <1>2, <1>3, <1>5, <1>7, <1>11 DEF Valid
<1>13. (\A e, f \in Tunnel \cap Present(d.egress) : e = f)
          <=> (Tunnel \ {s.arg}) \cap Present(c.egress) = {}
    BY <1>1, <1>3
<1>14. (\A q \in On(d.policy) : EgressOf[q] \in On(d.egress))
          <=> /\ \A q \in stays : EgressOf[q] \notin Retired
              /\ \A q \in revived : EgressOf[q] \in On(c.egress)
  <2>1. \A q \in stays : EgressOf[q] \in On(c.egress)
      BY <1>9 DEF Valid
  <2>2. \A q \in stays : EgressOf[q] \in On(d.egress) <=> EgressOf[q] \notin Retired
      BY <1>3, <1>11, <2>1
  <2>3. \A q \in revived : EgressOf[q] \in On(d.egress) <=> EgressOf[q] \in On(c.egress)
      BY <1>3, <1>8, <1>11
  <2>4. \A q \in A : EgressOf[q] \in On(d.egress)
      BY <1>3, <1>5
  <2>5. QED
      BY <1>7, <2>2, <2>3, <2>4
<1>15. (\A q, r \in On(d.policy) : DomainOf[q] = DomainOf[r] => q = r \/ DomainOf[q] = NoDomain)
          <=> ~SharesDomain(A, stays)
  <2>1. \A q, r \in stays : DomainOf[q] = DomainOf[r] => q = r \/ DomainOf[q] = NoDomain
      BY <1>9 DEF Valid
  <2>2. QED
      BY <1>6, <1>7, <1>8, <2>1 DEF SharesDomain
<1>16. Valid(d) <=> ~Overlooks(s, c)
    BY <1>10, <1>12, <1>13, <1>14, <1>15 DEF Valid
<1>17. QED
    BY <1>16 DEF d

LEMMA EditedValid ==
    ASSUME NEW c \in Config, NEW s \in Script, Valid(c), Accepts(s, c)
    PROVE  Valid(Edited(s, c)) <=> ~Overlooks(s, c)
BY AddDomainValid, EnableWgValid, DisableWgValid, SettingValid, AmneziaValid DEF Script

(* A refresh only writes gateways that it has seen.                        *)
LEMMA RefreshedValid ==
    ASSUME Types, NEW p \in Process, NEW c \in Config, Valid(c) PROVE Valid(Refreshed(p, c))
<1> DEFINE d == Refreshed(p, c)
           update == {e \in Planned(p) \cap Present(c.egress) :
                         Drift(task[p].conf, e, task[p].seen[e]) = "drift"}
<1>1. /\ d.dns = c.dns /\ d.egress = c.egress /\ d.policy = c.policy
      /\ \A e \in Direct :
            d.gateway[e] = IF e \in update THEN task[p].seen[e].gateway ELSE c.gateway[e]
    BY DEF Refreshed, Config
<1> HIDE DEF d
<1>2. \A e \in update : task[p].seen[e].gateway # NoAddr
    BY DriftOf
<1>3. \A e \in Direct \cap Present(c.egress) : d.gateway[e] # NoAddr
    BY <1>1, <1>2 DEF Valid
<1>4. Valid(d)
    BY <1>1, <1>3 DEF Valid
<1>5. QED
    BY <1>4 DEF d

-----------------------------------------------------------------------------
(* What a writer is about to write.                                        *)

WriteOK(p) ==
    pc[p] \in Window /\ Valid(task[p].read) =>
        /\ p \in Editors => (Valid(task[p].conf) <=> ~Overlooks(task[p].script, task[p].read))
        /\ p \in Refreshers => Valid(task[p].conf)

WritesInv == \A p \in Writers : WriteOK(p)

LEMMA WritesSame ==
    ASSUME WritesInv,
           \A q \in Writers : pc'[q] \in Window =>
               /\ pc[q] \in Window /\ task'[q].conf = task[q].conf
               /\ task'[q].script = task[q].script /\ task'[q].read = task[q].read
    PROVE  WritesInv'
BY DEF WritesInv, WriteOK

LEMMA WritesAlone ==
    ASSUME WritesInv, NEW p \in Process, Alone(p), p \in Writers => WriteOK(p)'
    PROVE  WritesInv'
<1>1. \A q \in Writers : q # p => pc'[q] = pc[q] /\ task'[q] = task[q]
    BY WritersAre DEF Alone
<1>2. QED
    BY <1>1 DEF WritesInv, WriteOK

LEMMA WritesNext == Types /\ WritesInv /\ [Next]_vars => WritesInv'
<1> SUFFICES ASSUME Types, WritesInv, [Next]_vars PROVE WritesInv'
    OBVIOUS
<1>1. ASSUME NEW p \in Process, Start(p) \/ Step(p) \/ InspectFails(p) \/ Crash(p) PROVE WritesInv'
  <2>1. ASSUME Alone(p), pc'[p] \notin Window PROVE WritesInv'
      BY <2>1, WritesAlone DEF WriteOK
  <2>2. CASE \/ Start(p) \/ LoadFails(p) \/ End(p) \/ ReloadStop(p) \/ ReloadOnce(p)
             \/ ReloadStart(p) \/ Pick(p) \/ InspectRoute(p) \/ InspectAddr(p)
             \/ InspectFails(p) \/ Crash(p)
      BY <2>1, <2>2, PlainAlone, InspectAlone, CrashAlone DEF Window
  <2>3. CASE LoadToInspect(p)
    <3>1. Alone(p) /\ pc'[p] \in {"off", "again", "pick"}
        BY <2>3, LoadAlone
    <3>2. QED
        BY <2>1, <3>1 DEF Window
  <2>4. CASE LoadToEdit(p)
    <3>1. task[p] \in TaskSet /\ task \in [Process -> TaskSet] /\ content \in Config
        BY DEF Types
    <3>2. /\ Alone(p) /\ p \in Editors /\ task'[p].script = task[p].script
          /\ task'[p].conf = Edited(task[p].script, content)
        BY <2>4, EditAlone
    <3>3. task'[p].read = content
        BY <2>4, <3>1 DEF LoadToEdit, TaskSet
    <3>4. Accepts(task[p].script, content) /\ task[p].script \in Script
        BY <2>4, <3>1, <3>2 DEF LoadToEdit, Unusable, TaskSet
    <3>5. p \notin Refreshers
        BY <3>2, WritersAre
    <3>6. WriteOK(p)'
        BY <3>1, <3>2, <3>3, <3>4, <3>5, EditedValid DEF WriteOK
    <3>7. QED
        BY <3>2, <3>6, WritesAlone
  <2>5. CASE Reread(p)
    <3>1. CASE Exit(p)
        BY <2>1, <3>1, ExitAlone DEF Window
    <3>2. CASE Moves(p, RereadTask(p), "truncate")
      <4>1. Alone(p) /\ task'[p] = RereadTask(p)
          BY <3>2, MoveAlone
      <4>2. task[p] \in TaskSet /\ content \in Config /\ p \notin Editors
          BY <2>5, RereadShape, WritersAre DEF Types
      <4>3. task'[p].conf = Refreshed(p, content) /\ task'[p].read = content
          BY <4>1, <4>2 DEF RereadTask, TaskSet
      <4>4. WriteOK(p)'
          BY <4>2, <4>3, RefreshedValid DEF WriteOK
      <4>5. QED
          BY <4>1, <4>4, WritesAlone
    <3>3. QED
        BY <2>5, <3>1, <3>2, RereadShape
  <2>6. CASE Truncate(p)
    <3>1. Alone(p) /\ UNCHANGED task /\ pc[p] = "truncate" /\ p \in Writers
        BY <2>6, TruncateAlone
    <3>2. WriteOK(p)'
        BY <3>1 DEF WriteOK, WritesInv, Window
    <3>3. QED
        BY <3>1, <3>2, WritesAlone
  <2>7. CASE Write(p)
    <3>1. /\ pc' = [pc EXCEPT ![p] = "done"] /\ pc \in [Process -> Place]
          /\ \A q \in Process : q # p => task'[q] = Noted(q)
        BY <2>7, WriteShape DEF Types
    <3>2. ASSUME NEW q \in Writers, pc'[q] \in Window
          PROVE  /\ pc[q] \in Window /\ task'[q].conf = task[q].conf
                 /\ task'[q].script = task[q].script /\ task'[q].read = task[q].read
      <4>1. q # p /\ pc'[q] = pc[q] /\ task'[q] = Noted(q)
          BY <3>1, <3>2, WritersAre DEF Window
      <4>2. task[q] \in TaskSet
          BY WritersAre DEF Types
      <4>3. Noted(q).conf = task[q].conf /\ Noted(q).script = task[q].script
            /\ Noted(q).read = task[q].read
          BY <4>2 DEF Noted, TaskSet
      <4>4. QED
          BY <3>2, <4>1, <4>3
    <3>3. QED
        BY <3>2, WritesSame
  <2>8. QED
      BY <1>1, <2>2, <2>3, <2>4, <2>5, <2>6, <2>7 DEF Step
<1>2. CASE LoadToRun \/ Restart \/ StopService
    BY <1>2, ServiceAlone, WritersAre, WritesAlone DEF Process
<1>3. CASE Dhcp \/ LinkChanges
  <2>1. UNCHANGED pc /\ \A q \in Process : task'[q] = Noted(q)
      BY <1>3, HostShape
  <2>2. \A q \in Writers : task[q] \in TaskSet
      BY WritersAre DEF Types
  <2>3. \A q \in Writers : /\ Noted(q).conf = task[q].conf /\ Noted(q).script = task[q].script
                            /\ Noted(q).read = task[q].read
      BY <2>2 DEF Noted, TaskSet
  <2>4. QED
      BY <2>1, <2>3, WritersAre, WritesSame
<1>4. CASE UNCHANGED vars
    BY <1>4, WritesSame DEF vars
<1>5. QED
    BY <1>1, <1>2, <1>3, <1>4 DEF Next

(* What the scripts and a refresh write is accepted by Config::validate if *)
(* what they read was, except exactly where a script overlooks what        *)
(* config.rs:329-406 rejects: for every file, egress, policy and domain.   *)
THEOREM WritersStayValid == Spec => []WritersKeepValid
<1>1. Init => WritesInv
  <2> SUFFICES ASSUME Init PROVE WritesInv
      OBVIOUS
  <2>1. \A p \in Writers : pc[p] \in {"off", "load"}
      BY WritersAre DEF Init
  <2>2. QED
      BY <2>1 DEF WritesInv, WriteOK, Window
<1>2. WritesInv => WritersKeepValid
    BY WritersAre DEF WritesInv, WriteOK, WritersKeepValid, Window
<1>3. QED
    BY <1>1, <1>2, AlwaysTypes, WritesNext, PTL DEF Spec

=============================================================================
