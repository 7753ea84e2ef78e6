---------------------------- MODULE HostDns_proofs ----------------------------
(***************************************************************************)
(* What the host DNS scripts give back, proved for any links, settings,    *)
(* number of snapshots and interruptions.                                  *)
(***************************************************************************)
EXTENDS HostDns, TLAPS

-----------------------------------------------------------------------------
(* Settings and commands.                                                  *)

LEMMA FieldIs ==
    /\ DOMAIN Field = 1..3
    /\ \A n \in DOMAIN Field : Field[n] \in {"dns", "domain", "route"}
    /\ Field[1] = "dns" /\ Field[2] = "domain" /\ Field[3] = "route"
BY DEF Field

LEMMA CommandIs ==
    ASSUME NEW c \in Command
    PROVE  Link[c[1]] \in Links /\ Field[c[2]] \in {"dns", "domain", "route"}
BY FieldIs DEF Command, Links

(* Two settings that agree in each field are the same.                     *)
LEMMA SameSetting ==
    ASSUME NEW s \in Setting, NEW n \in Noted,
           \A f \in {"dns", "domain", "route"} : n[f] \in {"unread", s[f]},
           n \in Setting
    PROVE  s = n
<1>1. n.dns = s.dns /\ n.domain = s.domain /\ n.route = s.route
    BY DEF Setting
<1>2. QED
    BY <1>1 DEF Setting

(* Writing what was noted, but for "unread", gives a setting.              *)
LEMMA SetField ==
    ASSUME NEW s \in Setting, NEW n \in Noted, NEW f \in {"dns", "domain", "route"},
           n[f] # "unread"
    PROVE  [s EXCEPT ![f] = n[f]] \in Setting
<1>1. CASE f = "dns"
    BY <1>1 DEF Setting, Noted
<1>2. CASE f = "domain"
    BY <1>2 DEF Setting, Noted
<1>3. CASE f = "route"
    BY <1>3 DEF Setting, Noted
<1>4. QED
    BY <1>1, <1>2, <1>3

LEMMA PointedIs == Pointed \in Setting /\ Pointed \in Noted
BY DEF Pointed, Setting, Noted

(* While a snapshot is restored, the commands are for its links.           *)
Types ==
    /\ TypeOK
    /\ run.at = "restore" => run.todo \subseteq Commands(DOMAIN snaps[run.snap].links)

LEMMA ElementIs == ASSUME NEW S, NEW s \in Seq(S), NEW k \in DOMAIN s PROVE s[k] \in S
OBVIOUS

LEMMA PositionIs == ASSUME NEW S, NEW s \in Seq(S) PROVE DOMAIN s \subseteq Nat
OBVIOUS

LEMMA SnapIs ==
    ASSUME TypeOK, NEW k \in DOMAIN snaps
    PROVE  /\ snaps[k].whole \in BOOLEAN
           /\ snaps[k].links \in [DOMAIN snaps[k].links -> Noted]
           /\ DOMAIN snaps[k].links \subseteq Links
<1>1. snaps[k] \in Snapshot
    BY ElementIs DEF TypeOK
<1>2. snaps[k].links \in PartialOf(Noted) /\ snaps[k].whole \in BOOLEAN
    BY <1>1 DEF Snapshot
<1>3. QED
    BY <1>2 DEF PartialOf

LEMMA BeforeIs ==
    ASSUME TypeOK, NEW k \in DOMAIN before
    PROVE  /\ before[k] \in [DOMAIN before[k] -> Setting]
           /\ DOMAIN before[k] \subseteq Links
<1>1. before[k] \in PartialOf(Setting)
    BY DEF TypeOK
<1>2. QED
    BY <1>1 DEF PartialOf

LEMMA ValueIs ==
    ASSUME Types, run.at \in {"point", "repoint", "restore"}, NEW c \in run.todo
    PROVE  \E n \in Noted : \A f \in {"dns", "domain", "route"} : Value(Link[c[1]], f) = n[f]
<1>1. CASE run.at = "restore"
  <2>1. run.snap \in DOMAIN snaps /\ Link[c[1]] \in DOMAIN snaps[run.snap].links
      BY <1>1 DEF Types, TypeOK, Commands
  <2>2. snaps[run.snap].links[Link[c[1]]] \in Noted
      BY <2>1, SnapIs DEF Types
  <2>3. QED
      BY <1>1, <2>2 DEF Value
<1>2. CASE run.at # "restore"
    BY <1>2, PointedIs DEF Value
<1>3. QED
    BY <1>1, <1>2

-----------------------------------------------------------------------------
(* The types, action by action.                                            *)

LEMMA InitTypes == Init => Types
BY LinkAssumption DEF Init, Types, TypeOK, Idle, Run

LEMMA CommandsIn == \A S : Commands(S) \in SUBSET Command
BY DEF Commands

(* A script begins.                                                        *)
Begun(s, a, todo, k) == [script |-> s, at |-> a, todo |-> todo, snap |-> k,
                         result |-> "none", calm |-> TRUE]

LEMMA BegunIs ==
    ASSUME NEW s, NEW a, NEW todo, NEW k, Begin(s, a, todo, k)
    PROVE  run' = Begun(s, a, todo, k) /\ run.at = "idle" /\ Event /\ UNCHANGED <<host, snaps>>
BY DEF Begin, Idle, Begun

LEMMA PresentLinks ==
    ASSUME TypeOK
    PROVE  /\ [l \in present |-> links[l]] \in PartialOf(Setting)
           /\ [l \in present |-> links[l]] \in PartialOf(Noted)
<1>1. [l \in present |-> links[l]] \in [present -> Setting]
    BY DEF TypeOK
<1>2. Setting \subseteq Noted
    BY DEF Setting, Noted
<1>3. [l \in present |-> links[l]] \in [present -> Noted]
    BY <1>1, <1>2
<1>4. present \in SUBSET Links
    BY DEF TypeOK
<1>5. QED
    BY <1>1, <1>3, <1>4 DEF PartialOf

LEMMA EventIs == TypeOK /\ Event => events' \in 0..MaxEvents
BY LinkAssumption DEF TypeOK, Event

LEMMA BeginApplyTypes == Types /\ BeginApply => Types'
<1>1. SUFFICES ASSUME Types, BeginApply PROVE Types'
    OBVIOUS
<1>2. before' \in Seq(PartialOf(Setting)) /\ Len(before') = Len(before) + 1
    BY <1>1, PresentLinks DEF Types, TypeOK, BeginApply
<1>3. /\ run' = Begun("apply", "snapshot", {}, Len(snaps) + 1)
      /\ UNCHANGED <<host, snaps>> /\ run.at = "idle" /\ events' \in 0..MaxEvents
    BY <1>1, EventIs, BegunIs DEF Types, BeginApply
<1>4. run' \in Run /\ run'.at = "snapshot" /\ run'.snap = Len(snaps) + 1
  <2>1. Len(snaps) + 1 \in Nat
      BY <1>1 DEF Types, TypeOK
  <2> DEFINE k == Len(snaps) + 1
  <2>2. k \in Nat /\ run' = Begun("apply", "snapshot", {}, k)
      BY <1>3, <2>1
  <2> HIDE DEF k
  <2>3. run' \in Run /\ run'.at = "snapshot" /\ run'.snap = k
      BY <2>2 DEF Begun, Run
  <2>4. QED
      BY <2>3 DEF k
<1>5. QED
    BY <1>1, <1>2, <1>3, <1>4 DEF Types, TypeOK, host

LEMMA BeginRollbackTypes == Types /\ BeginRollback => Types'
<1>1. SUFFICES ASSUME Types, BeginRollback PROVE Types'
    OBVIOUS
<1>2. PICK script \in {"rollback", "rollback --repair"} :
          \/ \E k \in DOMAIN snaps :
                Begin(script, "restore", Commands(DOMAIN snaps[k].links), k)
          \/ Begin(script, "repair", {}, 0)
    BY <1>1 DEF BeginRollback
<1>3. DOMAIN snaps \subseteq Nat
    BY <1>1, PositionIs DEF Types, TypeOK
<1>4. /\ run' \in Run /\ run'.at \in {"restore", "repair"}
      /\ run'.at = "restore" => /\ run'.snap \in DOMAIN snaps
                                /\ run'.todo = Commands(DOMAIN snaps[run'.snap].links)
      /\ UNCHANGED <<host, snaps, before>> /\ run.at = "idle" /\ Event
  <2>1. ASSUME NEW k \in DOMAIN snaps,
               Begin(script, "restore", Commands(DOMAIN snaps[k].links), k)
        PROVE  /\ run' \in Run /\ run'.at = "restore" /\ run'.snap = k
               /\ run'.todo = Commands(DOMAIN snaps[k].links)
               /\ UNCHANGED <<host, snaps>> /\ run.at = "idle" /\ Event
    <3> DEFINE T == Commands(DOMAIN snaps[k].links)
    <3>1. T \in SUBSET Command /\ k \in Nat
        BY <1>3, CommandsIn
    <3> HIDE DEF T
    <3>2. /\ run' = Begun(script, "restore", T, k)
          /\ UNCHANGED <<host, snaps>> /\ run.at = "idle" /\ Event
        BY <2>1, BegunIs DEF T
    <3>3. run' \in Run /\ run'.at = "restore" /\ run'.snap = k /\ run'.todo = T
        BY <3>1, <3>2 DEF Begun, Run
    <3>4. QED
        BY <3>2, <3>3 DEF T
  <2>2. ASSUME Begin(script, "repair", {}, 0)
        PROVE  /\ run' \in Run /\ run'.at = "repair"
               /\ UNCHANGED <<host, snaps>> /\ run.at = "idle" /\ Event
    <3>1. /\ run' = Begun(script, "repair", {}, 0)
          /\ UNCHANGED <<host, snaps>> /\ run.at = "idle" /\ Event
        BY <2>2, BegunIs
    <3>2. QED
        BY <3>1 DEF Begun, Run
  <2>3. QED
      BY <1>1, <1>2, <2>1, <2>2 DEF BeginRollback
<1>5. QED
    BY <1>1, <1>4, EventIs DEF Types, TypeOK, host

LEMMA BeginRepairTypes == Types /\ BeginRepair => Types'
<1>1. SUFFICES ASSUME Types, BeginRepair PROVE Types'
    OBVIOUS
<1>2. /\ UNCHANGED <<host, snaps, before>> /\ run.at = "idle" /\ Event
      /\ run' = Begun("repair", "repair", {}, 0)
    BY <1>1, BegunIs DEF BeginRepair
<1>3. run' \in Run /\ run'.at = "repair"
    BY <1>2 DEF Begun, Run
<1>4. QED
    BY <1>1, <1>2, <1>3, EventIs DEF Types, TypeOK, host

LEMMA SafeStopTypes == Types /\ SafeStop => Types'
<1>1. SUFFICES ASSUME Types, SafeStop PROVE Types'
    OBVIOUS
<1>2. QED
    BY <1>1, EventIs DEF Types, TypeOK, SafeStop

LEMMA TakeSnapshotTypes == Types /\ TakeSnapshot => Types'
<1>1. SUFFICES ASSUME Types, TakeSnapshot PROVE Types'
    OBVIOUS
<1>2. PICK n \in PartialOf(Noted), w \in BOOLEAN :
          snaps' = Append(snaps, [links |-> n, whole |-> w])
  <2>1. CASE snaps' = Append(snaps, [links |-> [l \in present |-> links[l]],
                                     whole |-> run.calm])
      BY <1>1, <2>1, PresentLinks DEF Types, TypeOK, Run
  <2>2. ASSUME NEW m \in present, NEW f \in DOMAIN Unread,
               snaps' = Append(snaps, [links |-> [[l \in present |-> links[l]]
                                                      EXCEPT ![m][f] = Unread[f]],
                                       whole |-> FALSE])
        PROVE  \E n \in PartialOf(Noted), w \in BOOLEAN :
                  snaps' = Append(snaps, [links |-> n, whole |-> w])
    <3>1. [l \in present |-> links[l]] \in [present -> Noted] /\ present \in SUBSET Links
        BY <1>1 DEF Types, TypeOK, Setting, Noted
    <3>2. [[l \in present |-> links[l]][m] EXCEPT ![f] = Unread[f]] \in Noted
        BY <3>1 DEF Unread, Noted
    <3>3. [[l \in present |-> links[l]] EXCEPT ![m][f] = Unread[f]] \in [present -> Noted]
        BY <3>1, <3>2
    <3>4. QED
        BY <2>2, <3>1, <3>3 DEF PartialOf
  <2>3. QED
      BY <1>1, <2>1, <2>2 DEF TakeSnapshot
<1>3. /\ snaps' \in Seq(Snapshot)
      /\ Len(snaps') = Len(snaps) + 1
    BY <1>1, <1>2 DEF Types, TypeOK, Snapshot
<1>4. /\ run.at = "snapshot" /\ run' = [run EXCEPT !.at = "links", !.todo = {}]
      /\ UNCHANGED <<host, before>> /\ events' \in 0..MaxEvents
    BY <1>1, LinkAssumption DEF Types, TypeOK, TakeSnapshot, Go, Event
<1>5. run' \in Run /\ run'.at = "links" /\ run'.snap = run.snap
    BY <1>1, <1>4 DEF Types, TypeOK, Run
<1>6. QED
    BY <1>1, <1>3, <1>4, <1>5 DEF Types, TypeOK, host

LEMMA ChooseLinksTypes == Types /\ ChooseLinks => Types'
<1>1. SUFFICES ASSUME Types, ChooseLinks PROVE Types'
    OBVIOUS
<1>2. /\ UNCHANGED <<host, snaps, before, events>> /\ run.at \in {"links", "relinks"}
      /\ run' = [run EXCEPT !.at = IF run.at = "links" THEN "point" ELSE "repoint",
                            !.todo = Commands(present)]
    BY <1>1 DEF ChooseLinks, Go
<1>3. /\ run' \in Run /\ run'.snap = run.snap
      /\ (run'.at = "point" /\ run.at = "links") \/ run'.at = "repoint"
    BY <1>1, <1>2, CommandsIn DEF Types, TypeOK, Run
<1>4. QED
    BY <1>1, <1>2, <1>3 DEF Types, TypeOK, host

(* rollback_now.                                                           *)
LEMMA UndoTypes ==
    ASSUME Types, run.at = "point", Undo
    PROVE  /\ run' \in Run /\ run'.at = "restore" /\ run'.snap = run.snap
           /\ run'.todo = Commands(DOMAIN snaps[run.snap].links)
BY CommandsIn DEF Types, TypeOK, Run, Undo

LEMMA FailedTypes ==
    ASSUME Types, run.at \in {"point", "repoint", "restore"}, CommandFailed,
           UNCHANGED <<present, proxy, net, snaps, before>>, links' \in [Links -> Setting],
           events' \in 0..MaxEvents
    PROVE  Types'
<1>1. CASE run.at = "point"
    BY <1>1, UndoTypes DEF Types, TypeOK, CommandFailed
<1>2. CASE run.at # "point"
  <2>1. /\ run' \in Run /\ run'.snap = run.snap /\ run'.result = "failed"
        /\ (run'.at = "check" /\ run.at = "restore") \/ run'.at = "ended"
    <3>1. run \in Run
        BY DEF Types, TypeOK
    <3>2. PICK l \in {"check", "ended"} :
              /\ run' = [run EXCEPT !.calm = FALSE, !.todo = {}, !.result = "failed", !.at = l]
              /\ l = "check" => run.at = "restore"
        BY <1>2, <3>1 DEF Run, CommandFailed
    <3>3. QED
        BY <3>1, <3>2 DEF Run
  <2>2. QED
      BY <1>2, <2>1 DEF Types, TypeOK
<1>3. QED
    BY <1>1, <1>2

LEMMA RunCommandTypes == Types /\ RunCommand => Types'
<1>1. SUFFICES ASSUME Types, RunCommand PROVE Types'
    OBVIOUS
<1>2. /\ UNCHANGED <<present, proxy, net, snaps, before, events>>
      /\ run.at \in {"point", "repoint", "restore"}
    BY <1>1 DEF RunCommand
<1>3. PICK c \in run.todo :
          \/ /\ links' = IF Value(Link[c[1]], Field[c[2]]) = "unread" THEN links
                         ELSE [links EXCEPT ![Link[c[1]]][Field[c[2]]] =
                                               Value(Link[c[1]], Field[c[2]])]
             /\ Go(run.at, run.todo \ {c})
          \/ /\ Go(run.at, {d \in run.todo : d[1] # c[1]})
             /\ UNCHANGED links
          \/ CommandFailed /\ UNCHANGED links
    BY <1>1 DEF RunCommand
<1>4. c \in Command /\ Link[c[1]] \in Links /\ Field[c[2]] \in {"dns", "domain", "route"}
    BY <1>1, CommandIs DEF Types, TypeOK, Run
<1>5. links' \in [Links -> Setting]
  <2>1. PICK n \in Noted : Value(Link[c[1]], Field[c[2]]) = n[Field[c[2]]]
      BY <1>1, <1>2, <1>4, ValueIs
  <2>2. n[Field[c[2]]] # "unread" =>
            [links[Link[c[1]]] EXCEPT ![Field[c[2]]] = n[Field[c[2]]]] \in Setting
      BY <1>1, <1>4, SetField DEF Types, TypeOK
  <2>3. QED
      BY <1>1, <1>3, <1>4, <2>1, <2>2 DEF Types, TypeOK
<1>6. CASE CommandFailed
    BY <1>1, <1>2, <1>5, <1>6, FailedTypes DEF Types, TypeOK
<1>7. CASE \E T \in SUBSET run.todo : Go(run.at, T)
  <2>1. /\ run' \in Run /\ run'.at = run.at /\ run'.snap = run.snap
        /\ run'.todo \subseteq run.todo
      BY <1>1, <1>7 DEF Types, TypeOK, Run, Go
  <2>2. QED
      BY <1>1, <1>2, <1>5, <2>1 DEF Types, TypeOK
<1>8. QED
    BY <1>3, <1>6, <1>7

LEMMA TestApplyTypes == Types /\ TestApply => Types'
<1>1. SUFFICES ASSUME Types, TestApply PROVE Types'
    OBVIOUS
<1>2. UNCHANGED <<links, present, proxy, net, snaps, before, events>> /\ run.at = "point"
    BY <1>1 DEF TestApply, host
<1>3. CASE Undo
    BY <1>1, <1>2, <1>3, UndoTypes DEF Types, TypeOK
<1>4. CASE EndWith("applied")
  <2>1. run' \in Run /\ run'.at = "ended" /\ run'.result = "applied"
      BY <1>1, <1>4 DEF Types, TypeOK, Run, EndWith
  <2>2. QED
      BY <1>1, <1>2, <2>1 DEF Types, TypeOK
<1>5. QED
    BY <1>1, <1>3, <1>4 DEF TestApply

LEMMA EndedTypes ==
    ASSUME Types, RestoreDone \/ Check \/ RestartProxy \/ TestRepair \/ End
    PROVE  Types'
<1>1. /\ UNCHANGED <<links, present, net, snaps, before, events>> /\ proxy' \in BOOLEAN
      /\ run.at # "snapshot"
    BY DEF Types, TypeOK, RestoreDone, Check, RestartProxy, TestRepair, End, host
<1>2. /\ run' \in Run
      /\ \/ run'.at = "ended" /\ run'.result # "restored"
         \/ /\ run'.at \in {"ended", "check"} /\ run'.snap = run.snap
            /\ run.at \in {"restore", "check"}
         \/ run'.at \in {"repair", "relinks", "idle"}
  <2>1. CASE RestoreDone
    <3>1. run \in Run /\ run.at = "restore"
        BY <2>1 DEF Types, TypeOK, RestoreDone
    <3>2. CASE EndWith("restored")
        BY <3>1, <3>2 DEF Run, EndWith
    <3>3. CASE Go("check", {})
        BY <3>1, <3>3 DEF Run, Go
    <3>4. QED
        BY <2>1, <3>2, <3>3 DEF RestoreDone
  <2>2. CASE Check
    <3>1. run \in Run /\ run.at = "check"
        BY <2>2 DEF Types, TypeOK, Check
    <3>2. CASE EndWith("restored")
        BY <3>1, <3>2 DEF Run, EndWith
    <3>3. CASE Go("repair", {})
        BY <3>1, <3>3 DEF Run, Go
    <3>4. QED
        BY <2>2, <3>2, <3>3 DEF Check
  <2>3. CASE RestartProxy
    <3>1. run \in Run /\ run.at = "repair"
        BY <2>3 DEF Types, TypeOK, RestartProxy
    <3>2. CASE EndWith("failed")
        BY <3>1, <3>2 DEF Run, EndWith
    <3>3. CASE Go("relinks", {})
        BY <3>1, <3>3 DEF Run, Go
    <3>4. QED
        BY <2>3, <3>2, <3>3 DEF RestartProxy
  <2>4. CASE TestRepair
    <3>1. run \in Run /\ \E r \in {"repaired", "failed"} : EndWith(r)
        BY <2>4 DEF Types, TypeOK, TestRepair
    <3>2. QED
        BY <3>1 DEF Run, EndWith
  <2>5. CASE End
      BY <2>5 DEF End, Idle, Run
  <2>6. QED
      BY <2>1, <2>2, <2>3, <2>4, <2>5
<1>3. QED
    BY <1>1, <1>2 DEF Types, TypeOK

Elsewhere == LinkGoes \/ LinkComes \/ ProxyDies \/ ProxyStarts \/ NetChanges

(* What happens to a script while the host changes.                        *)
LEMMA DisturbIs ==
    ASSUME Types, Elsewhere
    PROVE  /\ run' \in Run /\ run'.at = run.at /\ run'.snap = run.snap
           /\ run'.todo = run.todo /\ run'.result = run.result /\ run'.script = run.script
           /\ UNCHANGED <<snaps, before>>
           /\ run'.calm /\ run.at # "idle" =>
                 /\ run.calm /\ UNCHANGED <<links, present, net>> /\ proxy' = TRUE
<1>1. CASE ProxyStarts
    BY <1>1 DEF Types, TypeOK, ProxyStarts
<1>2. CASE ~ProxyStarts
  <2>1. run' = [run EXCEPT !.calm = run.at = "idle"] /\ UNCHANGED <<snaps, before>>
      BY <1>2 DEF Elsewhere, LinkGoes, LinkComes, ProxyDies, NetChanges, Disturb
  <2>2. QED
      BY <2>1 DEF Types, TypeOK, Run
<1>3. QED
    BY <1>1, <1>2

LEMMA ElsewhereTypes == Types /\ Elsewhere => Types'
<1>1. SUFFICES ASSUME Types, Elsewhere PROVE Types'
    OBVIOUS
<1>2. /\ links' \in [Links -> Setting] /\ present' \subseteq Links
      /\ proxy' \in BOOLEAN /\ net' \in BOOLEAN
    BY <1>1, LinkAssumption
    DEF Types, TypeOK, Elsewhere, LinkGoes, LinkComes, ProxyDies, ProxyStarts, NetChanges
<1>3. events' \in 0..MaxEvents
    BY <1>1, EventIs
    DEF Types, TypeOK, Elsewhere, LinkGoes, LinkComes, ProxyDies, ProxyStarts, NetChanges, Disturb
<1>4. QED
    BY <1>1, <1>2, <1>3, DisturbIs DEF Types, TypeOK

LEMMA CommandFailsTypes == Types /\ CommandFails => Types'
BY EventIs, FailedTypes DEF Types, TypeOK, CommandFails, host

LEMMA KillTypes == Types /\ Kill => Types'
<1>1. SUFFICES ASSUME Types, Kill PROVE Types'
    OBVIOUS
<1>2. /\ before' \in Seq(PartialOf(Setting)) /\ Len(before') = Len(snaps)
    BY <1>1 DEF Types, TypeOK, Kill
<1>3. run' \in Run /\ run'.at = "idle"
    BY <1>1 DEF Kill, Idle, Run
<1>4. QED
    BY <1>1, <1>2, <1>3, EventIs DEF Types, TypeOK, Kill, host

LEMMA NextTypes == Types /\ [Next]_vars => Types'
<1>1. Types /\ UNCHANGED vars => Types'
    BY DEF Types, TypeOK, vars, host
<1>2. QED
    BY <1>1, BeginApplyTypes, BeginRollbackTypes, BeginRepairTypes, SafeStopTypes,
       TakeSnapshotTypes, ChooseLinksTypes, RunCommandTypes, TestApplyTypes, EndedTypes,
       ElsewhereTypes, CommandFailsTypes, KillTypes
    DEF Next, Elsewhere

(* The scripts keep to their steps, there is one snapshot for each apply   *)
(* that has come to take one, and a script that restores uses one of them. *)
THEOREM ScriptTypes == Spec => []TypeOK
<1>1. Types => TypeOK
    BY DEF Types
<1>2. QED
    BY <1>1, InitTypes, NextTypes, PTL DEF Spec

-----------------------------------------------------------------------------
(* What the scripts know while nothing has happened to them.               *)

(* A whole snapshot is what the links had when its apply began.            *)
SnapsOK == \A k \in DOMAIN snaps : snaps[k].whole => snaps[k].links = before[k]
FreshOK == run.at = "snapshot" /\ run.calm => before[run.snap] = [l \in present |-> links[l]]

(* Every link of snapshot s that is there has what s noted of it, but for  *)
(* the commands T.                                                         *)
GivenBack(s, T) ==
    \A c \in Command \ T :
        Link[c[1]] \in present \cap DOMAIN s =>
            s[Link[c[1]]][Field[c[2]]] \in {"unread", links[Link[c[1]]][Field[c[2]]]}

RestoreOK ==
    run.calm =>
        /\ run.at = "restore" => GivenBack(snaps[run.snap].links, run.todo)
        /\ run.at = "check" \/ (run.at = "ended" /\ run.result = "restored") =>
              GivenBack(snaps[run.snap].links, {})

(* Every link that is there points at the proxy, but for the commands T.   *)
PointedAt(T) ==
    \A c \in Command \ T :
        Link[c[1]] \in present => links[Link[c[1]]][Field[c[2]]] = Pointed[Field[c[2]]]

RepairOK ==
    run.calm =>
        /\ run.at \in {"relinks", "repoint"} => proxy /\ net
        /\ run.at = "repoint" => PointedAt(run.todo)
        /\ run.at = "ended" /\ run.script = "apply" /\ net => Works

Fixed == Links \ Optional \subseteq present

ScriptInv == Types /\ SnapsOK /\ FreshOK /\ RestoreOK /\ RepairOK /\ Fixed

-----------------------------------------------------------------------------
LEMMA CommandFor ==
    ASSUME NEW l \in Links, NEW f \in {"dns", "domain", "route"}
    PROVE  \E c \in Command : Link[c[1]] = l /\ Field[c[2]] = f
<1>1. PICK i \in DOMAIN Link : Link[i] = l
    BY DEF Links
<1>2. PICK j \in DOMAIN Field : Field[j] = f
    BY FieldIs
<1>3. <<i, j>> \in Command /\ <<i, j>>[1] = i /\ <<i, j>>[2] = j
    BY <1>1, <1>2 DEF Command
<1>4. QED
    BY <1>1, <1>2, <1>3

(* A name resolves where all the links point at an active proxy.           *)
LEMMA PointedWorks == ASSUME Types, Fixed, PointedAt({}), proxy, net PROVE Works
<1>1. PICK l \in present : TRUE
    BY LinkAssumption DEF Fixed
<1>2. \A m \in present : m \in Links /\ links[m].dns = "proxy" /\ links[m].domain = "all"
  <2>1. ASSUME NEW m \in present, NEW f \in {"dns", "domain", "route"}
        PROVE  m \in Links /\ links[m][f] = Pointed[f]
    <3>1. m \in Links
        BY DEF Types, TypeOK
    <3>2. PICK c \in Command : Link[c[1]] = m /\ Field[c[2]] = f
        BY <3>1, CommandFor
    <3>3. QED
        BY <3>1, <3>2 DEF PointedAt
  <2>2. QED
      BY <2>1 DEF Pointed
<1>3. QED
    BY <1>1, <1>2 DEF Works

(* Works depends on the host only, and a proxy that starts does no harm.   *)
LEMMA WorksStays ==
    ASSUME Works, UNCHANGED <<links, present, net>>, proxy => proxy'
    PROVE  Works'
BY DEF Works

LEMMA InitGives == Init => ScriptInv
<1>1. SUFFICES ASSUME Init PROVE ScriptInv
    OBVIOUS
<1>2. run.at = "idle" /\ DOMAIN snaps = {} /\ Fixed
    BY <1>1 DEF Init, Idle, Fixed
<1>3. QED
    BY <1>1, <1>2, InitTypes DEF ScriptInv, SnapsOK, FreshOK, RestoreOK, RepairOK

(* A step at which a script begins, is interrupted or goes on to repair,   *)
(* and says nothing of what it has done.                                   *)
LEMMA QuietGives ==
    ASSUME ScriptInv, Types', UNCHANGED <<snaps, before, present>>,
           run'.at \in {"idle", "links", "point", "repair"} \/ ~run'.calm
    PROVE  ScriptInv'
BY DEF ScriptInv, SnapsOK, FreshOK, RestoreOK, RepairOK, Fixed

LEMMA BeginApplyGives == ASSUME ScriptInv, BeginApply PROVE ScriptInv'
<1>1. Types'
    BY BeginApplyTypes DEF ScriptInv
<1>2. /\ run' = Begun("apply", "snapshot", {}, Len(snaps) + 1) /\ run.at = "idle"
      /\ UNCHANGED <<host, snaps>>
      /\ before' = Append(before, [l \in present |-> links[l]])
    BY BegunIs DEF BeginApply
<1>3. /\ Len(before) = Len(snaps) /\ before \in Seq(PartialOf(Setting))
      /\ DOMAIN snaps = DOMAIN before
    BY <1>2 DEF ScriptInv, Types, TypeOK
<1> DEFINE b == [l \in present |-> links[l]]
<1>4. before' = Append(before, b)
    BY <1>2
<1> HIDE DEF b
<1>5. before'[Len(snaps) + 1] = b /\ \A k \in DOMAIN snaps : before'[k] = before[k]
    BY <1>3, <1>4
<1>6. run'.at = "snapshot" /\ run'.snap = Len(snaps) + 1
    BY <1>2 DEF Begun
<1>7. SnapsOK' /\ FreshOK' /\ Fixed'
  <2>1. /\ snaps' = snaps /\ present' = present /\ links' = links
        /\ \A k \in DOMAIN snaps : snaps[k].whole => snaps[k].links = before'[k]
      BY <1>2, <1>5 DEF ScriptInv, SnapsOK, host
  <2>2. SnapsOK' /\ Fixed'
      BY <2>1 DEF ScriptInv, SnapsOK, Fixed
  <2>3. FreshOK'
      BY <1>5, <1>6, <2>1 DEF FreshOK, b
  <2>4. QED
      BY <2>2, <2>3
<1>8. RestoreOK' /\ RepairOK'
    BY <1>6 DEF RestoreOK, RepairOK
<1>9. QED
    BY <1>1, <1>7, <1>8 DEF ScriptInv

(* A restore begins.                                                       *)
LEMMA RestoreBegins ==
    ASSUME ScriptInv, Types', UNCHANGED <<host, snaps, before>>, run'.at = "restore",
           run'.todo = Commands(DOMAIN snaps[run'.snap].links)
    PROVE  ScriptInv'
<1>1. GivenBack(snaps[run.snap].links, run.todo)'
    BY DEF GivenBack, Commands
<1>2. RestoreOK' /\ RepairOK' /\ FreshOK'
    BY <1>1 DEF RestoreOK, RepairOK, FreshOK
<1>3. QED
    BY <1>2 DEF ScriptInv, SnapsOK, Fixed, host

LEMMA BeginRollbackGives == ASSUME ScriptInv, BeginRollback PROVE ScriptInv'
<1>1. Types'
    BY BeginRollbackTypes DEF ScriptInv
<1>2. PICK script \in {"rollback", "rollback --repair"} :
          \/ \E k \in DOMAIN snaps :
                Begin(script, "restore", Commands(DOMAIN snaps[k].links), k)
          \/ Begin(script, "repair", {}, 0)
    BY DEF BeginRollback
<1>3. UNCHANGED before
    BY DEF BeginRollback
<1>4. ASSUME NEW k \in DOMAIN snaps,
             Begin(script, "restore", Commands(DOMAIN snaps[k].links), k)
      PROVE  ScriptInv'
  <2>1. /\ run' = Begun(script, "restore", Commands(DOMAIN snaps[k].links), k)
        /\ UNCHANGED <<host, snaps>>
      BY <1>4, BegunIs
  <2>2. run'.at = "restore" /\ run'.snap = k /\ run'.todo = Commands(DOMAIN snaps[k].links)
      BY <2>1 DEF Begun
  <2>3. QED
      BY <1>1, <1>3, <2>1, <2>2, RestoreBegins
<1>5. ASSUME Begin(script, "repair", {}, 0) PROVE ScriptInv'
  <2>1. run' = Begun(script, "repair", {}, 0) /\ UNCHANGED <<host, snaps>>
      BY <1>5, BegunIs
  <2>2. run'.at = "repair"
      BY <2>1 DEF Begun
  <2>3. QED
      BY <1>1, <1>3, <2>1, <2>2, QuietGives DEF host
<1>6. QED
    BY <1>2, <1>4, <1>5

LEMMA BeginRepairGives == ASSUME ScriptInv, BeginRepair PROVE ScriptInv'
<1>1. run' = Begun("repair", "repair", {}, 0) /\ UNCHANGED <<host, snaps, before>>
    BY BegunIs DEF BeginRepair
<1>2. run'.at = "repair"
    BY <1>1 DEF Begun
<1>3. QED
    BY <1>1, <1>2, BeginRepairTypes, QuietGives DEF ScriptInv, host

LEMMA SafeStopGives == ASSUME ScriptInv, SafeStop PROVE ScriptInv'
BY SafeStopTypes, QuietGives DEF ScriptInv, SafeStop

LEMMA TakeSnapshotGives == ASSUME ScriptInv, TakeSnapshot PROVE ScriptInv'
<1>1. Types'
    BY TakeSnapshotTypes DEF ScriptInv
<1>2. /\ run.at = "snapshot" /\ run'.at = "links" /\ UNCHANGED <<host, before>>
      /\ Len(before) = Len(snaps) + 1 /\ run.snap = Len(snaps) + 1
      /\ snaps \in Seq(Snapshot)
    BY DEF ScriptInv, Types, TypeOK, Run, TakeSnapshot, Go
<1>3. PICK n, w :
          /\ w \in BOOLEAN
          /\ snaps' = Append(snaps, [links |-> n, whole |-> w])
          /\ w => run.calm /\ n = [l \in present |-> links[l]]
  <2>1. CASE snaps' = Append(snaps, [links |-> [l \in present |-> links[l]],
                                     whole |-> run.calm])
    <3>1. run.calm \in BOOLEAN
        BY DEF ScriptInv, Types, TypeOK, Run
    <3>2. QED
        BY <2>1, <3>1
  <2>2. CASE \E n : snaps' = Append(snaps, [links |-> n, whole |-> FALSE])
      BY <2>2
  <2>3. QED
      BY <2>1, <2>2 DEF TakeSnapshot
<1>4. w => n = before[run.snap]
    BY <1>2, <1>3 DEF ScriptInv, FreshOK
<1>5. ASSUME NEW k \in DOMAIN snaps', snaps'[k].whole PROVE snaps'[k].links = before[k]
  <2>1. CASE k \in DOMAIN snaps
    <3>1. snaps'[k] = snaps[k]
        BY <1>2, <1>3, <2>1
    <3>2. QED
        BY <1>5, <2>1, <3>1 DEF ScriptInv, SnapsOK
  <2>2. CASE k \notin DOMAIN snaps
    <3>1. k = Len(snaps) + 1 /\ snaps'[k] = [links |-> n, whole |-> w]
        BY <1>2, <1>3, <2>2
    <3>2. QED
        BY <1>2, <1>4, <1>5, <3>1
  <2>3. QED
      BY <2>1, <2>2
<1>6. SnapsOK'
    BY <1>2, <1>5 DEF SnapsOK
<1>7. FreshOK' /\ RestoreOK' /\ RepairOK'
    BY <1>2 DEF FreshOK, RestoreOK, RepairOK
<1>8. QED
    BY <1>1, <1>2, <1>6, <1>7 DEF ScriptInv, Fixed, host

LEMMA ChooseLinksGives == ASSUME ScriptInv, ChooseLinks PROVE ScriptInv'
<1>1. Types'
    BY ChooseLinksTypes DEF ScriptInv
<1>2. UNCHANGED <<host, snaps, before>> /\ run \in Run
    BY DEF ScriptInv, Types, TypeOK, ChooseLinks
<1>3. CASE run.at = "links"
  <2>1. run'.at = "point"
      BY <1>2, <1>3 DEF ChooseLinks, Go, Run
  <2>2. QED
      BY <1>1, <1>2, <2>1, QuietGives DEF host
<1>4. CASE run.at = "relinks"
  <2>1. run'.at = "repoint" /\ run'.todo = Commands(present) /\ run'.calm = run.calm
      BY <1>2, <1>4 DEF ChooseLinks, Go, Run
  <2>2. PointedAt(run.todo)'
      BY <1>2, <2>1 DEF PointedAt, Commands, host
  <2>3. RepairOK' /\ RestoreOK' /\ FreshOK'
      BY <1>2, <1>4, <2>1, <2>2 DEF ScriptInv, RepairOK, RestoreOK, FreshOK, host
  <2>4. QED
      BY <1>1, <1>2, <2>3 DEF ScriptInv, SnapsOK, Fixed, host
<1>5. QED
    BY <1>3, <1>4 DEF ChooseLinks

(* A command that fails begins rollback_now, or something has happened.    *)
LEMMA FailedGives ==
    ASSUME ScriptInv, Types', CommandFailed, run.at \in {"point", "repoint", "restore"},
           UNCHANGED <<host, snaps, before>>
    PROVE  ScriptInv'
<1>1. CASE run.at = "point"
  <2>1. /\ run'.at = "restore" /\ run'.snap = run.snap
        /\ run'.todo = Commands(DOMAIN snaps[run.snap].links)
      BY <1>1, UndoTypes DEF ScriptInv, CommandFailed
  <2>2. QED
      BY <2>1, RestoreBegins
<1>2. CASE run.at # "point"
  <2>1. ~run'.calm
      BY <1>2 DEF ScriptInv, Types, TypeOK, Run, CommandFailed
  <2>2. QED
      BY <2>1, QuietGives DEF host
<1>3. QED
    BY <1>1, <1>2

LEMMA TestApplyGives == ASSUME ScriptInv, TestApply PROVE ScriptInv'
<1>1. Types'
    BY TestApplyTypes DEF ScriptInv
<1>2. UNCHANGED <<host, snaps, before>> /\ run \in Run /\ run.at = "point"
    BY DEF ScriptInv, Types, TypeOK, TestApply
<1>3. CASE Undo
  <2>1. /\ run'.at = "restore" /\ run'.snap = run.snap
        /\ run'.todo = Commands(DOMAIN snaps[run.snap].links)
      BY <1>2, <1>3, UndoTypes DEF ScriptInv
  <2>2. QED
      BY <1>1, <1>2, <2>1, RestoreBegins
<1>4. CASE EndWith("applied") /\ Works
  <2>1. run'.at = "ended" /\ run'.result = "applied"
      BY <1>2, <1>4 DEF EndWith, Run
  <2>2. Works'
      BY <1>2, <1>4, WorksStays DEF host
  <2>3. RepairOK' /\ RestoreOK' /\ FreshOK'
      BY <2>1, <2>2 DEF RepairOK, RestoreOK, FreshOK
  <2>4. QED
      BY <1>1, <1>2, <2>3 DEF ScriptInv, SnapsOK, Fixed, host
<1>5. QED
    BY <1>3, <1>4 DEF TestApply

LEMMA RestoreDoneGives == ASSUME ScriptInv, RestoreDone PROVE ScriptInv'
<1>1. Types'
    BY EndedTypes DEF ScriptInv
<1>2. /\ UNCHANGED <<host, snaps, before>> /\ run \in Run
      /\ run.at = "restore" /\ run.todo = {}
    BY DEF ScriptInv, Types, TypeOK, RestoreDone
<1>3. /\ (run'.at = "ended" /\ run.script = "rollback") \/ run'.at = "check"
      /\ run'.snap = run.snap /\ run'.calm = run.calm /\ run'.script = run.script
  <2>1. CASE run.script = "rollback"
      BY <1>2, <2>1 DEF RestoreDone, EndWith, Run
  <2>2. CASE run.script # "rollback"
      BY <1>2, <2>2 DEF RestoreDone, Go, Run
  <2>3. QED
      BY <2>1, <2>2
<1>4. run.calm => GivenBack(snaps[run.snap].links, {})
    BY <1>2 DEF ScriptInv, RestoreOK
<1>5. RestoreOK'
    BY <1>2, <1>3, <1>4 DEF RestoreOK, GivenBack, host
<1>6. FreshOK' /\ RepairOK'
    BY <1>3 DEF FreshOK, RepairOK
<1>7. QED
    BY <1>1, <1>2, <1>5, <1>6 DEF ScriptInv, SnapsOK, Fixed, host

LEMMA CheckGives == ASSUME ScriptInv, Check PROVE ScriptInv'
<1>1. Types'
    BY EndedTypes DEF ScriptInv
<1>2. UNCHANGED <<host, snaps, before>> /\ run \in Run /\ run.at = "check"
    BY DEF ScriptInv, Types, TypeOK, Check
<1>3. CASE ~Works
  <2>1. run'.at = "repair"
      BY <1>2, <1>3 DEF Check, Go, Run
  <2>2. QED
      BY <1>1, <1>2, <2>1, QuietGives DEF host
<1>4. CASE Works
  <2>1. run'.at = "ended" /\ run'.snap = run.snap /\ run'.calm = run.calm
      BY <1>2, <1>4 DEF Check, EndWith, Run
  <2>2. Works'
      BY <1>2, <1>4, WorksStays DEF host
  <2>3. RestoreOK'
      BY <1>2, <2>1 DEF ScriptInv, RestoreOK, GivenBack, host
  <2>4. FreshOK' /\ RepairOK'
      BY <2>1, <2>2 DEF FreshOK, RepairOK
  <2>5. QED
      BY <1>1, <1>2, <2>3, <2>4 DEF ScriptInv, SnapsOK, Fixed, host
<1>5. QED
    BY <1>3, <1>4

LEMMA RestartProxyGives == ASSUME ScriptInv, RestartProxy PROVE ScriptInv'
<1>1. Types'
    BY EndedTypes DEF ScriptInv
<1>2. /\ UNCHANGED <<links, present, net, snaps, before>> /\ run \in Run
      /\ run.at = "repair" /\ proxy' = TRUE
    BY DEF ScriptInv, Types, TypeOK, RestartProxy
<1>3. \/ run'.at = "relinks" /\ net
      \/ run'.at = "ended" /\ run'.result = "failed" /\ ~net
  <2>1. CASE net
      BY <1>2, <2>1 DEF RestartProxy, Go, Run
  <2>2. CASE ~net
      BY <1>2, <2>2 DEF RestartProxy, EndWith, Run
  <2>3. QED
      BY <2>1, <2>2
<1>4. FreshOK' /\ RestoreOK' /\ RepairOK'
    BY <1>2, <1>3 DEF FreshOK, RestoreOK, RepairOK
<1>5. QED
    BY <1>1, <1>2, <1>4 DEF ScriptInv, SnapsOK, Fixed

LEMMA TestRepairGives == ASSUME ScriptInv, TestRepair PROVE ScriptInv'
<1>1. Types'
    BY EndedTypes DEF ScriptInv
<1>2. /\ UNCHANGED <<host, snaps, before>> /\ run \in Run
      /\ run.at = "repoint" /\ run.todo = {}
    BY DEF ScriptInv, Types, TypeOK, TestRepair
<1>3. run'.at = "ended" /\ run'.result \in {"repaired", "failed"} /\ run'.calm = run.calm
    BY <1>2 DEF TestRepair, EndWith, Run
<1>4. run.calm => Works
  <2>1. run.calm => PointedAt({}) /\ proxy /\ net
      BY <1>2 DEF ScriptInv, RepairOK
  <2>2. QED
      BY <2>1, PointedWorks DEF ScriptInv
<1>5. run'.calm => Works'
    BY <1>2, <1>3, <1>4, WorksStays DEF host
<1>6. FreshOK' /\ RestoreOK' /\ RepairOK'
    BY <1>3, <1>5 DEF FreshOK, RestoreOK, RepairOK
<1>7. QED
    BY <1>1, <1>2, <1>6 DEF ScriptInv, SnapsOK, Fixed, host

LEMMA EndGives == ASSUME ScriptInv, End PROVE ScriptInv'
<1>1. run'.at = "idle" /\ UNCHANGED <<host, snaps, before>>
    BY DEF End, Idle
<1>2. QED
    BY <1>1, EndedTypes, QuietGives DEF ScriptInv, host

LEMMA CommandFailsGives == ASSUME ScriptInv, CommandFails PROVE ScriptInv'
BY CommandFailsTypes, FailedGives DEF ScriptInv, CommandFails

LEMMA KillGives == ASSUME ScriptInv, Kill PROVE ScriptInv'
<1>1. Types' /\ run'.at = "idle" /\ UNCHANGED <<host, snaps>>
    BY KillTypes DEF ScriptInv, Kill, Idle
<1>2. \A k \in DOMAIN snaps : before'[k] = before[k]
    BY DEF ScriptInv, Types, TypeOK, Kill
<1>3. SnapsOK'
    BY <1>1, <1>2 DEF ScriptInv, SnapsOK
<1>4. FreshOK' /\ RestoreOK' /\ RepairOK'
    BY <1>1 DEF FreshOK, RestoreOK, RepairOK
<1>5. QED
    BY <1>1, <1>3, <1>4 DEF ScriptInv, Fixed, host

LEMMA ElsewhereGives == ASSUME ScriptInv, Elsewhere PROVE ScriptInv'
<1>1. Types'
    BY ElsewhereTypes DEF ScriptInv
<1>2. /\ run'.at = run.at /\ run'.snap = run.snap /\ run'.todo = run.todo
      /\ run'.result = run.result /\ run'.script = run.script
      /\ UNCHANGED <<snaps, before>>
      /\ run'.calm /\ run.at # "idle" =>
             run.calm /\ UNCHANGED <<links, present, net>> /\ proxy' = TRUE
    BY DisturbIs DEF ScriptInv
<1>3. Fixed'
    BY DEF ScriptInv, Fixed, Elsewhere, LinkGoes, LinkComes, ProxyDies, ProxyStarts, NetChanges
<1>4. FreshOK' /\ RestoreOK'
    BY <1>2 DEF ScriptInv, FreshOK, RestoreOK, GivenBack
<1>5. RepairOK'
  <2>1. SUFFICES ASSUME run'.calm PROVE RepairOK'
      BY DEF RepairOK
  <2>2. CASE run.at = "idle"
      BY <1>2, <2>2 DEF RepairOK
  <2>3. CASE run.at # "idle"
    <3>1. Works => Works'
        BY <1>2, <2>1, <2>3, WorksStays
    <3>2. PointedAt(run.todo) => PointedAt(run.todo)'
        BY <1>2, <2>1, <2>3 DEF PointedAt
    <3>3. QED
        BY <1>2, <2>1, <2>3, <3>1, <3>2 DEF ScriptInv, RepairOK
  <2>4. QED
      BY <2>2, <2>3
<1>6. QED
    BY <1>1, <1>2, <1>3, <1>4, <1>5 DEF ScriptInv, SnapsOK

(* The same after a step, for the commands T that are then left.           *)
BackAfter(T) ==
    \A c \in Command \ T :
        Link[c[1]] \in present \cap DOMAIN snaps[run.snap].links =>
            snaps[run.snap].links[Link[c[1]]][Field[c[2]]]
                \in {"unread", links'[Link[c[1]]][Field[c[2]]]}

PointedAfter(T) ==
    \A c \in Command \ T :
        Link[c[1]] \in present => links'[Link[c[1]]][Field[c[2]]] = Pointed[Field[c[2]]]

(* A command that runs is one less to run, and settles its field.          *)
LEMMA RunCommandGives == ASSUME ScriptInv, RunCommand PROVE ScriptInv'
<1>1. Types'
    BY RunCommandTypes DEF ScriptInv
<1>2. /\ UNCHANGED <<present, proxy, net, snaps, before>> /\ run \in Run
      /\ run.at \in {"point", "repoint", "restore"}
    BY DEF ScriptInv, Types, TypeOK, RunCommand
<1>3. PICK c \in run.todo :
          \/ /\ links' = IF Value(Link[c[1]], Field[c[2]]) = "unread" THEN links
                         ELSE [links EXCEPT ![Link[c[1]]][Field[c[2]]] =
                                               Value(Link[c[1]], Field[c[2]])]
             /\ Go(run.at, run.todo \ {c})
          \/ /\ Link[c[1]] \notin present
             /\ Go(run.at, {d \in run.todo : d[1] # c[1]})
             /\ UNCHANGED links
          \/ CommandFailed /\ UNCHANGED links
    BY DEF RunCommand
<1>4. CASE CommandFailed /\ UNCHANGED links
    BY <1>1, <1>2, <1>4, FailedGives DEF host
<1> DEFINE l == Link[c[1]]
           f == Field[c[2]]
           v == Value(l, f)
<1>5. l \in Links /\ f \in {"dns", "domain", "route"}
    BY <1>2, CommandIs DEF Run
<1>6. ASSUME NEW T \in SUBSET run.todo, Go(run.at, T),
             run.at = "restore" => BackAfter(T), run.at = "repoint" => PointedAfter(T)
      PROVE  ScriptInv'
  <2>1. /\ run'.at = run.at /\ run'.todo = T /\ run'.calm = run.calm /\ run'.snap = run.snap
        /\ run'.result = run.result /\ run'.script = run.script
      BY <1>2, <1>6 DEF Go, Run
  <2>2. run.at = "restore" => GivenBack(snaps[run.snap].links, run.todo)'
      BY <1>2, <1>6, <2>1 DEF GivenBack, BackAfter
  <2>3. run.at = "repoint" => PointedAt(run.todo)'
      BY <1>2, <1>6, <2>1 DEF PointedAt, PointedAfter
  <2>4. RestoreOK'
      BY <1>2, <2>1, <2>2 DEF RestoreOK
  <2>5. RepairOK' /\ FreshOK'
      BY <1>2, <2>1, <2>3 DEF ScriptInv, RepairOK, FreshOK
  <2>6. QED
      BY <1>1, <1>2, <2>4, <2>5 DEF ScriptInv, SnapsOK, Fixed
<1>7. CASE ~run.calm
  <2>1. CASE \E T : Go(run.at, T)
    <3>1. ~run'.calm
        BY <1>2, <1>7, <2>1 DEF Go, Run
    <3>2. QED
        BY <1>1, <1>2, <3>1, QuietGives
  <2>2. QED
      BY <1>3, <1>4, <2>1
<1>8. CASE /\ run.calm
           /\ links' = IF v = "unread" THEN links ELSE [links EXCEPT ![l][f] = v]
           /\ Go(run.at, run.todo \ {c})
  <2>1. ASSUME NEW d \in Command
        PROVE  LET m == Link[d[1]]
                   g == Field[d[2]]
               IN links'[m][g] = IF v # "unread" /\ m = l /\ g = f THEN v ELSE links[m][g]
    <3> DEFINE m == Link[d[1]]
               g == Field[d[2]]
    <3>1. m \in Links /\ g \in {"dns", "domain", "route"} /\ links \in [Links -> Setting]
        BY CommandIs DEF ScriptInv, Types, TypeOK
    <3>2. links[l] \in Setting
        BY <1>5, <3>1
    <3>3. DOMAIN links[l] = {"dns", "domain", "route"}
        BY <3>2 DEF Setting
    <3>4. CASE v = "unread"
        BY <1>8, <3>4
    <3>5. CASE v # "unread" /\ m # l
        BY <1>5, <1>8, <3>1, <3>5
    <3>6. CASE v # "unread" /\ m = l
      <4>1. links'[m] = [links[l] EXCEPT ![f] = v]
          BY <1>5, <1>8, <3>1, <3>6
      <4> HIDE DEF v, l, f
      <4>2. QED
          BY <4>1, <3>1, <3>3, <3>6
    <3>7. QED
        BY <3>4, <3>5, <3>6
  <2>2. run.at = "restore" => BackAfter(run.todo \ {c})
    <3>1. SUFFICES ASSUME run.at = "restore", NEW d \in Command \ (run.todo \ {c}),
                          Link[d[1]] \in present \cap DOMAIN snaps[run.snap].links
                   PROVE  snaps[run.snap].links[Link[d[1]]][Field[d[2]]]
                              \in {"unread", links'[Link[d[1]]][Field[d[2]]]}
        BY DEF BackAfter
    <3>2. v = snaps[run.snap].links[l][f]
        BY <3>1 DEF Value
    <3>3. CASE d = c
        BY <2>1, <3>2, <3>3
    <3>4. CASE d # c
      <4>1. snaps[run.snap].links[Link[d[1]]][Field[d[2]]]
                \in {"unread", links[Link[d[1]]][Field[d[2]]]}
          BY <1>8, <3>1, <3>4 DEF ScriptInv, RestoreOK, GivenBack
      <4>2. QED
          BY <2>1, <3>2, <4>1
    <3>5. QED
        BY <3>3, <3>4
  <2>3. run.at = "repoint" => PointedAfter(run.todo \ {c})
    <3>1. SUFFICES ASSUME run.at = "repoint", NEW d \in Command \ (run.todo \ {c}),
                          Link[d[1]] \in present
                   PROVE  links'[Link[d[1]]][Field[d[2]]] = Pointed[Field[d[2]]]
        BY DEF PointedAfter
    <3>2. v = Pointed[f] /\ v # "unread"
        BY <1>5, <3>1 DEF Value, Pointed
    <3>3. CASE d = c
        BY <2>1, <3>2, <3>3
    <3>4. CASE d # c
      <4>1. links[Link[d[1]]][Field[d[2]]] = Pointed[Field[d[2]]]
          BY <1>8, <3>1, <3>4 DEF ScriptInv, RepairOK, PointedAt
      <4>2. QED
          BY <2>1, <3>2, <4>1
    <3>5. QED
        BY <3>3, <3>4
  <2>4. QED
      BY <1>6, <1>8, <2>2, <2>3
<1>9. CASE /\ run.calm /\ l \notin present /\ UNCHANGED links
           /\ Go(run.at, {d \in run.todo : d[1] # c[1]})
  <2> DEFINE T == {d \in run.todo : d[1] # c[1]}
  <2>1. \A d \in Command \ T : Link[d[1]] \in present => d \in Command \ run.todo
      BY <1>9
  <2>2. run.at = "restore" => BackAfter(T)
      BY <1>9, <2>1 DEF ScriptInv, RestoreOK, GivenBack, BackAfter
  <2>3. run.at = "repoint" => PointedAfter(T)
      BY <1>9, <2>1 DEF ScriptInv, RepairOK, PointedAt, PointedAfter
  <2>4. QED
      BY <1>6, <1>9, <2>2, <2>3
<1>10. QED
    BY <1>3, <1>4, <1>7, <1>8, <1>9

LEMMA NextGives == ScriptInv /\ [Next]_vars => ScriptInv'
<1>1. ASSUME ScriptInv, UNCHANGED vars PROVE ScriptInv'
  <2>1. Types'
      BY <1>1, NextTypes DEF ScriptInv
  <2>2. Works => Works'
      BY <1>1, WorksStays DEF vars, host
  <2>3. QED
      BY <1>1, <2>1, <2>2
      DEF ScriptInv, SnapsOK, FreshOK, RestoreOK, RepairOK, GivenBack, PointedAt, Fixed, vars, host
<1>2. QED
    BY <1>1, BeginApplyGives, BeginRollbackGives, BeginRepairGives, SafeStopGives,
       TakeSnapshotGives, ChooseLinksGives, RunCommandGives, TestApplyGives, RestoreDoneGives,
       CheckGives, RestartProxyGives, TestRepairGives, EndGives, CommandFailsGives, KillGives,
       ElsewhereGives
    DEF Next, Elsewhere

(* host-dns-rollback.sh, and rollback_now of host-dns-apply.sh, give every *)
(* link the settings it had when the apply of the snapshot began, if they  *)
(* restore a whole snapshot undisturbed (README.md:457, 505-512).          *)
THEOREM RollbackRestores == Spec => []RollbackGivesBack
<1>1. ScriptInv => RollbackGivesBack
  <2>1. SUFFICES ASSUME ScriptInv, run.at = "ended", run.result = "restored", run.calm,
                        snaps[run.snap].whole,
                        NEW l \in present \cap DOMAIN before[run.snap]
                 PROVE  links[l] = before[run.snap][l]
      BY DEF RollbackGivesBack
  <2>2. run.snap \in DOMAIN snaps /\ run.snap \in DOMAIN before
      BY <2>1 DEF ScriptInv, Types, TypeOK
  <2>3. snaps[run.snap].links = before[run.snap]
      BY <2>1, <2>2 DEF ScriptInv, SnapsOK
  <2>4. l \in Links /\ links[l] \in Setting /\ before[run.snap][l] \in Setting
      BY <2>1, <2>2, BeforeIs DEF ScriptInv, Types, TypeOK
  <2>5. ASSUME NEW f \in {"dns", "domain", "route"}
        PROVE  before[run.snap][l][f] \in {"unread", links[l][f]}
    <3>1. PICK c \in Command : Link[c[1]] = l /\ Field[c[2]] = f
        BY <2>4, CommandFor
    <3>2. GivenBack(before[run.snap], {})
        BY <2>1, <2>3 DEF ScriptInv, RestoreOK
    <3>3. QED
        BY <2>1, <3>1, <3>2 DEF GivenBack
  <2>6. before[run.snap][l] \in Noted
      BY <2>4 DEF Setting, Noted
  <2>7. QED
      BY <2>4, <2>5, <2>6, SameSetting
<1>2. QED
    BY <1>1, InitGives, NextGives, PTL DEF Spec

(* host-dns-apply.sh leaves a host on which names resolve, unless          *)
(* something has happened since its rollback_now began, or servers do not  *)
(* answer (README.md:481).                                                 *)
THEOREM ApplyRecovers == Spec => []FailedApplyRecovers
<1>1. ScriptInv => FailedApplyRecovers
    BY DEF ScriptInv, RepairOK, FailedApplyRecovers
<1>2. QED
    BY <1>1, InitGives, NextGives, PTL DEF Spec
=============================================================================
