------------------------------ MODULE HostDns ------------------------------
(***************************************************************************)
(* The scripts that point the host's resolver at the DNS proxy and back,   *)
(* by the method "resolved": host-dns-apply.sh with its rollback_now,      *)
(* host-dns-runtime-snapshot.sh, -restore.sh and -repair.sh,               *)
(* host-dns-rollback.sh and host-dns-safe-stop.sh.  An operator runs one   *)
(* script at a time; each resolvectl command is one step, and between two  *)
(* of them a link goes or comes, the proxy dies, the network is lost, a    *)
(* command fails or the script is killed.                                  *)
(***************************************************************************)
EXTENDS Naturals, Sequences

CONSTANTS
    Link,         \* links whose resolver settings the scripts change, in order
    Optional,     \* those that may go and come (amn0)
    Own,          \* Own[l]: the settings of link l without eve-net
    MaxEvents     \* bound on scripts run, faults and changes of the host

(* Per link: the servers, whether every domain is routed to them ("~."),   *)
(* whether the link is a default route for queries.                        *)
Setting == [dns : {"own", "proxy", "none"}, domain : {"own", "all", "none"},
            route : {"yes", "no"}]
Pointed == [dns |-> "proxy", domain |-> "all", route |-> "yes"]
Unread  == [dns |-> "none", domain |-> "none", route |-> "unread"]
Noted   == [dns : {"own", "proxy", "none"}, domain : {"own", "all", "none"},
            route : {"yes", "no", "unread"}]

Links == {Link[i] : i \in DOMAIN Link}

(* Settings of some of the links, and a snapshot file of them with (not in *)
(* the code) whether it says what the links had when the apply began.      *)
PartialOf(V) == UNION {[S -> V] : S \in SUBSET Links}
Snapshot     == [links : PartialOf(Noted), whole : BOOLEAN]

ASSUME LinkAssumption ==
    /\ Link \in Seq(Links)
    /\ Optional \subseteq Links /\ Optional # Links
    /\ Own \in [Links -> Setting]
    /\ MaxEvents \in Nat

VARIABLES
    links,      \* links[l]: the settings systemd-resolved has for l
    present,    \* the links that exist
    proxy,      \* eve-net-dns-proxy.service is active
    net,        \* servers in the Internet answer
    snaps,      \* the snapshot files, from the oldest to the latest
    before,     \* (history) the settings when the apply of each snapshot began
    run,        \* the script that runs
    events      \* events so far

host == <<links, present, proxy, net>>
vars == <<host, snaps, before, run, events>>

(* Where the script is, the resolvectl commands it still has to run, the   *)
(* snapshot it uses, its result, and (not in the code) whether nothing has *)
(* happened since it, or its rollback, began.                              *)
Idle == [script |-> "none", at |-> "idle", todo |-> {}, snap |-> 0,
         result |-> "none", calm |-> TRUE]

(* A name resolves, by the links systemd-resolved asks: those all domains  *)
(* are routed to or, failing these, the default ones.                      *)
Works ==
    LET served == {l \in present : links[l].dns # "none"}
        all    == {l \in served : links[l].domain = "all"}
        asked  == IF all # {} THEN all ELSE {l \in served : links[l].route = "yes"}
    IN net /\ \E l \in asked : links[l].dns = "own" \/ proxy

CanaryPasses == proxy /\ net

-----------------------------------------------------------------------------
Go(at, todo) == run' = [run EXCEPT !.at = at, !.todo = todo]
EndWith(r)   == run' = [run EXCEPT !.at = "ended", !.result = r]
Event        == events < MaxEvents /\ events' = events + 1

(* dns, domain and default-route for each of the links S; a command is     *)
(* given by the positions of its link and of its field, in this order.     *)
Field       == <<"dns", "domain", "route">>
Command     == (DOMAIN Link) \X (DOMAIN Field)
Commands(S) == {c \in Command : Link[c[1]] \in S}
Before(c, d) == c[1] < d[1] \/ (c[1] = d[1] /\ c[2] <= d[2])

Begin(script, at, todo, snap) ==
    /\ run.at = "idle"
    /\ Event
    /\ run' = [Idle EXCEPT !.script = script, !.at = at, !.todo = todo, !.snap = snap]
    /\ UNCHANGED <<host, snaps>>

(* host-dns-apply.sh goes on only with an active proxy that answers.       *)
BeginApply ==
    /\ CanaryPasses
    /\ Begin("apply", "snapshot", {}, Len(snaps) + 1)
    /\ before' = Append(before, [l \in present |-> links[l]])

(* The latest snapshot, or one that is named; with --repair also none.     *)
BeginRollback ==
    /\ \E script \in {"rollback", "rollback --repair"} :
          \/ \E k \in DOMAIN snaps :
                Begin(script, "restore", Commands(DOMAIN snaps[k].links), k)
          \/ /\ snaps = <<>> /\ script = "rollback --repair"
             /\ Begin(script, "repair", {}, 0)
    /\ UNCHANGED before

BeginRepair == Begin("repair", "repair", {}, 0) /\ UNCHANGED before

(* safe-stop looks at resolv.conf and NetworkManager, where nothing shows  *)
(* of the settings of a link, and stops the proxy.                         *)
SafeStop ==
    /\ run.at = "idle"
    /\ Event
    /\ proxy' = FALSE
    /\ UNCHANGED <<links, present, net, snaps, before, run>>

-----------------------------------------------------------------------------
(* Variant: one file, which each apply writes anew.                        *)
TakeOneSnapshot ==
    /\ run.at = "snapshot"
    /\ snaps' = <<[links |-> [l \in present |-> links[l]], whole |-> run.calm]>>
    /\ Go("links", {})
    /\ UNCHANGED <<host, before, events>>

(* host-dns-runtime-snapshot.sh: where a command of it fails, it notes no  *)
(* servers, no domains, or nothing about the default route.                *)
TakeSnapshot ==
    /\ run.at = "snapshot"
    /\ \/ /\ UNCHANGED events
          /\ snaps' = Append(snaps, [links |-> [l \in present |-> links[l]],
                                     whole |-> run.calm])
       \/ /\ Event
          /\ \E m \in present, f \in DOMAIN Unread :
                snaps' = Append(snaps, [links |-> [[l \in present |-> links[l]]
                                                      EXCEPT ![m][f] = Unread[f]],
                                        whole |-> FALSE])
    /\ Go("links", {})
    /\ UNCHANGED <<host, before>>

(* Apply and repair find out for themselves which links there are.         *)
ChooseLinks ==
    /\ run.at \in {"links", "relinks"}
    /\ Go(IF run.at = "links" THEN "point" ELSE "repoint", Commands(present))
    /\ UNCHANGED <<host, snaps, before, events>>

(* rollback_now; the snapshot is restored first.                           *)
Undo ==
    run' = [run EXCEPT !.at = "restore", !.result = "undo", !.calm = TRUE,
                       !.todo = Commands(DOMAIN snaps[run.snap].links)]

(* A resolvectl command failed.  restore.sh stops, which rollback_now      *)
(* disregards (|| true) and host-dns-rollback.sh does not (set -e).        *)
CommandFailed ==
    IF run.at = "point" THEN Undo
    ELSE run' = [run EXCEPT
                   !.calm = FALSE, !.todo = {}, !.result = "failed",
                   !.at = IF @ = "restore" /\ run.script = "apply" THEN "check" ELSE "ended"]

(* Variant: an empty list of domains is not passed on (no [""]).           *)
ValueUnlessEmpty(l, f) ==
    IF run.at # "restore" THEN Pointed[f]
    ELSE IF snaps[run.snap].links[l][f] = "none" THEN links[l][f]
    ELSE snaps[run.snap].links[l][f]

Value(l, f) == IF run.at = "restore" THEN snaps[run.snap].links[l][f] ELSE Pointed[f]

(* restore.sh skips a link that is missing when its turn comes, and a      *)
(* default route of which nothing is noted.                                *)
RunCommand ==
    /\ run.at \in {"point", "repoint", "restore"}
    /\ \E c \in run.todo :
          LET l == Link[c[1]]
              f == Field[c[2]]
          IN /\ \A d \in run.todo : Before(c, d)
             /\ \/ /\ l \in present
                   /\ links' = IF Value(l, f) = "unread" THEN links
                               ELSE [links EXCEPT ![l][f] = Value(l, f)]
                   /\ Go(run.at, run.todo \ {c})
                \/ /\ l \notin present /\ run.at = "restore" /\ f = "dns"
                   /\ Go(run.at, {d \in run.todo : d[1] # c[1]})
                   /\ UNCHANGED links
                \/ /\ l \notin present /\ ~(run.at = "restore" /\ f = "dns")
                   /\ CommandFailed
                   /\ UNCHANGED links
    /\ UNCHANGED <<present, proxy, net, snaps, before, events>>

(* The canary and getent decide whether the apply stays.                   *)
TestApply ==
    /\ run.at = "point" /\ run.todo = {}
    /\ IF CanaryPasses /\ Works THEN EndWith("applied") ELSE Undo
    /\ UNCHANGED <<host, snaps, before, events>>

RestoreDone ==
    /\ run.at = "restore" /\ run.todo = {}
    /\ IF run.script = "rollback" THEN EndWith("restored") ELSE Go("check", {})
    /\ UNCHANGED <<host, snaps, before, events>>

(* Variant: what the restore has left is not tested.                       *)
CheckForgotten ==
    /\ run.at = "check"
    /\ EndWith("restored")
    /\ UNCHANGED <<host, snaps, before, events>>

(* host_dns_ok; if not, runtime repair.                                    *)
Check ==
    /\ run.at = "check"
    /\ IF Works THEN EndWith("restored") ELSE Go("repair", {})
    /\ UNCHANGED <<host, snaps, before, events>>

(* host-dns-runtime-repair.sh restarts the proxy, tests it, points the     *)
(* links at it and tests again; any failure ends it.                       *)
RestartProxy ==
    /\ run.at = "repair"
    /\ proxy' = TRUE
    /\ IF net THEN Go("relinks", {}) ELSE EndWith("failed")
    /\ UNCHANGED <<links, present, net, snaps, before, events>>

TestRepair ==
    /\ run.at = "repoint" /\ run.todo = {}
    /\ EndWith(IF Works THEN "repaired" ELSE "failed")
    /\ UNCHANGED <<host, snaps, before, events>>

End ==
    /\ run.at = "ended"
    /\ run' = Idle
    /\ UNCHANGED <<host, snaps, before, events>>

-----------------------------------------------------------------------------
(* What happens meanwhile.                                                 *)

Disturb == Event /\ run' = [run EXCEPT !.calm = run.at = "idle"]

LinkGoes ==
    /\ Disturb
    /\ \E l \in Optional \cap present : present' = present \ {l}
    /\ UNCHANGED <<links, proxy, net, snaps, before>>

(* A link that comes has the settings its own software gives it.           *)
LinkComes ==
    /\ Disturb
    /\ \E l \in Optional \ present :
          present' = present \cup {l} /\ links' = [links EXCEPT ![l] = Own[l]]
    /\ UNCHANGED <<proxy, net, snaps, before>>

ProxyDies ==
    /\ proxy /\ proxy' = FALSE
    /\ Disturb
    /\ UNCHANGED <<links, present, net, snaps, before>>

(* By systemd (Restart=on-failure) or by systemctl.                        *)
ProxyStarts ==
    /\ ~proxy /\ proxy' = TRUE
    /\ UNCHANGED <<links, present, net, snaps, before, run, events>>

NetChanges ==
    /\ net' = ~net
    /\ Disturb
    /\ UNCHANGED <<links, present, proxy, snaps, before>>

CommandFails ==
    /\ run.at \in {"point", "repoint", "restore"} /\ run.todo # {}
    /\ Event
    /\ CommandFailed
    /\ UNCHANGED <<host, snaps, before>>

(* A script is interrupted; before its snapshot is written, it leaves none.*)
Kill ==
    /\ run.at \notin {"idle", "ended"}
    /\ Event
    /\ run' = Idle
    /\ before' = IF run.at = "snapshot" THEN SubSeq(before, 1, Len(snaps)) ELSE before
    /\ UNCHANGED <<host, snaps>>

-----------------------------------------------------------------------------
Init ==
    /\ links = Own /\ present \in {Links, Links \ Optional}
    /\ proxy = TRUE /\ net = TRUE
    /\ snaps = <<>> /\ before = <<>>
    /\ run = Idle
    /\ events = 0

Next ==
    \/ BeginApply \/ BeginRollback \/ BeginRepair \/ SafeStop
    \/ TakeSnapshot \/ ChooseLinks \/ RunCommand \/ TestApply
    \/ RestoreDone \/ Check \/ RestartProxy \/ TestRepair \/ End
    \/ LinkGoes \/ LinkComes \/ ProxyDies \/ ProxyStarts \/ NetChanges
    \/ CommandFails \/ Kill

Spec == Init /\ [][Next]_vars

-----------------------------------------------------------------------------
(* Properties.                                                             *)

Run == [script : {"none", "apply", "rollback", "rollback --repair", "repair"},
        at : {"idle", "snapshot", "links", "point", "restore", "check",
              "repair", "relinks", "repoint", "ended"},
        todo : SUBSET Command, snap : Nat, calm : BOOLEAN,
        result : {"none", "undo", "failed", "applied", "restored", "repaired"}]

(* The type invariant; there is a snapshot for each apply but one that is  *)
(* still to take its own, and one wherever a script uses it.               *)
TypeOK ==
    /\ links \in [Links -> Setting] /\ present \subseteq Links
    /\ proxy \in BOOLEAN /\ net \in BOOLEAN /\ events \in 0..MaxEvents
    /\ snaps \in Seq(Snapshot)
    /\ before \in Seq(PartialOf(Setting))
    /\ Len(before) = Len(snaps) + (IF run.at = "snapshot" THEN 1 ELSE 0)
    /\ run \in Run
    /\ run.at = "snapshot" => run.snap = Len(before)
    /\ run.at \in {"links", "point", "restore", "check"} => run.snap \in DOMAIN snaps
    /\ run.at = "ended" /\ run.result = "restored" => run.snap \in DOMAIN snaps

(* A rollback, and a failed apply, that restored a snapshot undisturbed,   *)
(* give every link that was there the settings it had when the apply of    *)
(* that snapshot began, whatever scripts have been applied, killed or      *)
(* rolled back since (README.md:457, 505-512); only a snapshot with a      *)
(* failed reading, or a link that has appeared since, is excepted.         *)
RollbackGivesBack ==
    run.at = "ended" /\ run.result = "restored" /\ run.calm /\ snaps[run.snap].whole =>
        \A l \in present \cap DOMAIN before[run.snap] : links[l] = before[run.snap][l]

(* An apply that fails leaves the host with names that resolve, by its old *)
(* settings or, where these do not do, by the repaired path through the    *)
(* proxy, if nothing more goes wrong (README.md:481).                      *)
FailedApplyRecovers ==
    run.at = "ended" /\ run.script = "apply" /\ run.calm /\ net => Works
=============================================================================
