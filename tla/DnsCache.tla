------------------------------ MODULE DnsCache ------------------------------
(***************************************************************************)
(* The DNS cache file of eve-net, src/dns_cache.rs.  Four programs share   *)
(* it without a lock: the reconcile, which resolves the domains of its     *)
(* policies, dns-refresh and dns-prune, which timers start, and the DNS    *)
(* proxy.  Each loads the whole file, changes one entry (or drops some)    *)
(* and writes the whole file back; a resolution waits for a DNS lookup in  *)
(* between, and fs::write first truncates the file, then fills it.         *)
(*                                                                         *)
(* An operation is modelled with dns_cache.enabled and write access        *)
(* (--apply); the clock only moves forward.                                *)
(***************************************************************************)
EXTENDS Naturals

CONSTANTS
    Domain,       \* normalized domain names
    Ip,           \* addresses
    Configured,   \* domains of all policies of the configuration
    Enabled,      \* domains of the enabled ones
    Old,          \* entries a file from before may hold: a set of caches
    Replies,      \* what a lookup may answer: sets of addresses, {} or an error as {}
    NoEntry,      \* "no entry": not a member of Entry
    NoDomain,     \* "no domain": not a member of Domain
    Ttl,          \* dns_cache.ttl_sec
    Grace,        \* dns_cache.stale_grace_sec
    Mode,         \* dns_cache.unresolved_domain_mode
    FailClosedUnresolved,  \* dns_cache.fail_closed_unresolved
    Runtimes,     \* reconciles, each resolving one domain after the other
    Refreshers,   \* processes of dns-refresh
    Proxies,      \* the DNS proxy, storing one answer after the other
    Pruners,      \* processes of dns-prune
    Begin,        \* the time at which the programs are first looked at
    Faults,       \* processes are killed, and saving fails
    MaxTime,      \* bound on the clock
    MaxEvents     \* bound on operations and faults

Resolvers == Runtimes \cup Refreshers
Process   == Resolvers \cup Proxies \cup Pruners
Time      == 0..MaxTime
Entry     == [ips : SUBSET Ip, at : Time, expires : 0..(MaxTime + Ttl), error : BOOLEAN]
Cache     == [Domain -> Entry \cup {NoEntry}]
Blank     == [d \in Domain |-> NoEntry]

ASSUME DomainAssumption ==
    /\ Enabled \subseteq Configured /\ Configured \subseteq Domain
    /\ NoDomain \notin Domain /\ NoEntry \notin Entry
    /\ Old \subseteq Cache
    /\ \A c \in Old, d \in Domain :
          c[d] # NoEntry => c[d].at <= Begin /\ c[d].expires <= c[d].at + Ttl
    /\ Replies \subseteq SUBSET Ip

ASSUME SettingAssumption ==
    /\ Ttl \in Nat /\ Grace \in Nat /\ MaxTime \in Nat /\ MaxEvents \in Nat
    /\ Mode \in {"soft_fail_closed_l3", "allow_stale", "hard_fail_closed_dns_required"}
    /\ FailClosedUnresolved \in BOOLEAN
    /\ Begin \in Time /\ Faults \in BOOLEAN

ASSUME ProcessAssumption ==
    /\ Runtimes \cap Refreshers = {} /\ Proxies \cap Resolvers = {}
    /\ Pruners \cap (Resolvers \cup Proxies) = {}

VARIABLES
    disk,     \* the file: "absent", "readable", "truncated" or "corrupt"
    entries,  \* the entries of a readable file
    now,      \* the clock, in seconds
    events,   \* operations and faults so far
    pc,       \* pc[p]: what p does next
    task,     \* task[p]: the local variables of p's operation
    answers,  \* (history) what lookups and upstreams answered, and when
    kept      \* (history) kept[d]: newest resolved_at_epoch saved for d, plus 1

file    == <<disk, entries>>
history == <<answers, kept>>
vars    == <<file, now, events, pc, task, history>>

Source == {"none", "live", "fresh", "stale", "empty", "error"}

(* The domain in hand, those a refresh has still to do, the cache loaded   *)
(* and the time of loading it, and the resolution: addresses and source.   *)
Task  == [dom : Domain \cup {NoDomain}, todo : SUBSET Domain, mem : Cache, at : Time,
          ips : SUBSET Ip, source : Source]
Fresh == [dom |-> NoDomain, todo |-> {}, mem |-> Blank, at |-> 0, ips |-> {}, source |-> "none"]

-----------------------------------------------------------------------------
Goto(p, l) == pc' = [pc EXCEPT ![p] = l]
Event      == events < MaxEvents /\ events' = events + 1

(* The operation ends with this resolution.                                *)
Return(p, source, ips) ==
    /\ task' = [task EXCEPT ![p].source = source, ![p].ips = ips]
    /\ Goto(p, "done")

Answered(d, ips) == answers' = answers \cup {[dom |-> d, ips |-> ips, time |-> now]}

(* resolve_for_runtime; refresh_domain_policies, whose domains come in the *)
(* order of their names, here in any; upsert_live_ips_from_proxy;          *)
(* prune_cache_to_configured_domains.                                      *)
Start(p) ==
    /\ pc[p] = "idle"
    /\ Event
    /\ \/ /\ p \in Runtimes
          /\ \E d \in Enabled : task' = [task EXCEPT ![p].todo = {d}]
       \/ /\ p \in Refreshers
          /\ task' = [task EXCEPT ![p].todo = Enabled]
       \/ /\ p \in Proxies
          /\ \E d \in Enabled : task' = [task EXCEPT ![p].dom = d]
       \/ /\ p \in Pruners
          /\ UNCHANGED task
    /\ Goto(p, "load")
    /\ UNCHANGED <<file, now, history>>

(* Variant: a file that does not parse counts as an empty cache.           *)
ReadableOrEmpty == disk \in {"absent", "readable", "truncated", "corrupt"}

Readable == disk \in {"absent", "readable"}
Loaded   == IF disk = "readable" THEN entries ELSE Blank

(* load_cache_or_empty fails on a file that does not parse, and with it    *)
(* the operation, whichever it is.                                         *)
LoadFails(p) ==
    /\ pc[p] = "load"
    /\ ~Readable
    /\ Return(p, "error", {})
    /\ UNCHANGED <<file, now, events, history>>

(* Variant: an entry is looked up again a second before it expires.       *)
IsFreshEarly(e) == e # NoEntry /\ e.expires > now + 1 /\ e.ips # {}

IsFresh(e) == e # NoEntry /\ e.expires > now /\ e.ips # {}

(* The next domain of a resolver: a reconcile is content with a fresh      *)
(* entry, otherwise the domain is looked up.                               *)
LoadToResolve(p) ==
    /\ pc[p] = "load" /\ p \in Resolvers
    /\ Readable
    /\ \E d \in task[p].todo :
          LET t == [task[p] EXCEPT !.dom = d, !.todo = @ \ {d}, !.mem = Loaded, !.at = now]
              e == Loaded[d]
          IN IF p \in Runtimes /\ IsFresh(e)
             THEN /\ task' = [task EXCEPT ![p] = [t EXCEPT !.source = "fresh", !.ips = e.ips]]
                  /\ Goto(p, "done")
             ELSE /\ task' = [task EXCEPT ![p] = t]
                  /\ Goto(p, "lookup")
    /\ UNCHANGED <<file, now, events, history>>

(* Variant: an entry is also kept through its grace as fresh.              *)
ExpiresWithGrace(t) == t + Ttl + Grace

Expires(t) == t + Ttl

LiveEntry(ips, t) == [ips |-> ips, at |-> t, expires |-> Expires(t), error |-> FALSE]

(* The proxy stores an upstream's answer, which it has just received: its  *)
(* clock is read after the answer, a resolver's before its lookup.         *)
LoadToStore(p) ==
    /\ pc[p] = "load" /\ p \in Proxies
    /\ Readable
    /\ \E ips \in Replies \ {{}} :
          /\ Answered(task[p].dom, ips)
          /\ task' = [task EXCEPT
                ![p].mem = [Loaded EXCEPT ![task[p].dom] = LiveEntry(ips, now)],
                ![p].at = now, ![p].ips = ips, ![p].source = "live"]
    /\ Goto(p, "truncate")
    /\ UNCHANGED <<file, now, events, kept>>

Pruned(c) == [d \in Domain |-> IF d \in Configured THEN c[d] ELSE NoEntry]

LoadToPrune(p) ==
    /\ pc[p] = "load" /\ p \in Pruners
    /\ Readable
    /\ task' = [task EXCEPT ![p].mem = Pruned(Loaded), ![p].at = now]
    /\ Goto(p, IF Pruned(Loaded) = Loaded THEN "done" ELSE "truncate")
    /\ UNCHANGED <<file, now, events, history>>

-----------------------------------------------------------------------------
(* The lookup, and what becomes of the entry.                              *)

LookupAnswers(p) ==
    /\ pc[p] = "lookup"
    /\ \E ips \in Replies \ {{}} :
          /\ Answered(task[p].dom, ips)
          /\ task' = [task EXCEPT ![p].mem[task[p].dom] = LiveEntry(ips, task[p].at),
                                  ![p].ips = ips, ![p].source = "live"]
    /\ Goto(p, "truncate")
    /\ UNCHANGED <<file, now, events, kept>>

(* What follows a domain in a refresh: the next domain.                    *)
NextDomain(p) == Goto(p, IF task[p].todo = {} THEN "done" ELSE "load")

StaleAllowed == Mode = "allow_stale" \/ ~FailClosedUnresolved

(* Variant: a failed lookup renews the entry it falls back to.             *)
LookupFailsRenewing(p) ==
    /\ pc[p] = "lookup" /\ {} \in Replies
    /\ LET d == task[p].dom
           e == task[p].mem[d]
           usable == StaleAllowed /\ e.expires + Grace >= task[p].at /\ e.ips # {}
       IN /\ e # NoEntry
          /\ task' = [task EXCEPT
                ![p].mem[d] = [e EXCEPT !.error = TRUE, !.expires = Expires(task[p].at)],
                ![p].source = IF usable THEN "stale" ELSE "empty",
                ![p].ips = IF usable THEN e.ips ELSE {}]
          /\ Goto(p, "truncate")
    /\ UNCHANGED <<file, now, events, history>>

(* fallback_after_live_failure: the entry is saved with the error, its     *)
(* addresses are used where stale ones are allowed and within their grace. *)
LookupFails(p) ==
    /\ pc[p] = "lookup" /\ {} \in Replies
    /\ LET d == task[p].dom
           e == task[p].mem[d]
           usable == StaleAllowed /\ e.expires + Grace >= task[p].at /\ e.ips # {}
       IN \/ /\ e # NoEntry
             /\ task' = [task EXCEPT ![p].mem[d] = [e EXCEPT !.error = TRUE],
                                     ![p].source = IF usable THEN "stale" ELSE "empty",
                                     ![p].ips = IF usable THEN e.ips ELSE {}]
             /\ Goto(p, "truncate")
          \/ /\ e = NoEntry
             /\ task' = [task EXCEPT ![p].source = "empty", ![p].ips = {}]
             /\ NextDomain(p)
    /\ UNCHANGED <<file, now, events, history>>

-----------------------------------------------------------------------------
(* save_cache.                                                             *)

Truncate(p) ==
    /\ pc[p] = "truncate"
    /\ disk' = "truncated" /\ entries' = Blank
    /\ Goto(p, "write")
    /\ UNCHANGED <<now, events, task, history>>

Newer(m, n) == IF m > n THEN m ELSE n

(* Where another process has written since the file was truncated, the     *)
(* longer of the two texts shows behind the shorter one: unless this one   *)
(* is as long as what it overwrites, the file is a mixture.                *)
Write(p) ==
    /\ pc[p] = "write"
    /\ LET mem == task[p].mem
       IN \/ /\ disk' = "readable" /\ entries' = mem
             /\ kept' = [d \in Domain |->
                            IF mem[d] = NoEntry THEN kept[d] ELSE Newer(kept[d], mem[d].at + 1)]
          \/ /\ disk = "corrupt" \/ (disk = "readable" /\ entries # mem)
             /\ disk' = "corrupt" /\ entries' = Blank
             /\ UNCHANGED kept
    /\ NextDomain(p)
    /\ UNCHANGED <<now, events, task, answers>>

(* A process that fails or is killed while it writes leaves the file as it *)
(* is, or has overwritten the beginning of what another one wrote.         *)
Torn(p) ==
    \/ UNCHANGED file
    \/ pc[p] = "write" /\ disk = "readable" /\ disk' = "corrupt" /\ entries' = Blank

(* The file cannot be opened, or the disk is full: the operation fails,    *)
(* whatever it had found.                                                  *)
SaveFails(p) ==
    /\ Faults /\ Event
    /\ pc[p] \in {"truncate", "write"}
    /\ Torn(p)
    /\ Return(p, "error", {})
    /\ UNCHANGED <<now, history>>

End(p) ==
    /\ pc[p] = "done"
    /\ Goto(p, "idle")
    /\ task' = [task EXCEPT ![p] = Fresh]
    /\ UNCHANGED <<file, now, events, history>>

Crash(p) ==
    /\ Faults /\ Event
    /\ pc[p] # "idle"
    /\ Torn(p)
    /\ Goto(p, "idle")
    /\ task' = [task EXCEPT ![p] = Fresh]
    /\ UNCHANGED <<now, history>>

Tick ==
    /\ now < MaxTime
    /\ now' = now + 1
    /\ UNCHANGED <<file, events, pc, task, history>>

-----------------------------------------------------------------------------
(* A file from before holds what lookups answered when its entries say.    *)
Init ==
    /\ \/ disk = "absent" /\ entries = Blank
       \/ disk = "readable" /\ entries \in Old
    /\ answers = {[dom |-> d, ips |-> entries[d].ips, time |-> entries[d].at] :
                     d \in {x \in Domain : entries[x] # NoEntry}}
    /\ kept = [d \in Domain |-> IF entries[d] = NoEntry THEN 0 ELSE entries[d].at + 1]
    /\ now = Begin /\ events = 0
    /\ pc = [p \in Process |-> "idle"]
    /\ task = [p \in Process |-> Fresh]

Next ==
    \/ \E p \in Process :
          \/ Start(p) \/ LoadFails(p) \/ LoadToResolve(p) \/ LoadToStore(p) \/ LoadToPrune(p)
          \/ LookupAnswers(p) \/ LookupFails(p)
          \/ Truncate(p) \/ Write(p) \/ SaveFails(p) \/ End(p) \/ Crash(p)
    \/ Tick

Spec == Init /\ [][Next]_vars

-----------------------------------------------------------------------------
(* Properties.                                                             *)

(* The type invariant; no entry outlives its window (dns_cache.rs:95).     *)
TypeOK ==
    /\ disk \in {"absent", "readable", "truncated", "corrupt"}
    /\ entries \in Cache
    /\ now \in Time /\ events \in 0..MaxEvents
    /\ pc \in [Process -> {"idle", "load", "lookup", "truncate", "write", "done"}]
    /\ task \in [Process -> Task]
    /\ answers \subseteq [dom : Domain, ips : SUBSET Ip, time : Time]
    /\ kept \in [Domain -> 0..(MaxTime + 1)]

(* Whatever is lost, overwritten or torn: the addresses a resolution gives *)
(* are those of one live answer for that domain, obtained less than ttl    *)
(* seconds before it or, where stale addresses are allowed, no more than   *)
(* ttl and grace (dns_cache.rs:74-86, 141-160).                            *)
AnswersAreRecent ==
    \A p \in Resolvers : pc[p] \in {"truncate", "write", "done"} /\ task[p].ips # {} =>
        \E a \in answers :
            /\ a.dom = task[p].dom /\ a.ips = task[p].ips
            /\ CASE task[p].source = "live"  -> a.time >= task[p].at
                 [] task[p].source = "fresh" -> a.time + Ttl > task[p].at
                 [] task[p].source = "stale" -> /\ StaleAllowed
                                                /\ a.time + Ttl + Grace >= task[p].at
                 [] OTHER -> FALSE

(* README.md:105 "live DNS success: cache updated": what was saved for a   *)
(* domain that a policy names is not undone by a later save of anything    *)
(* older.                                                                  *)
UpdatesKept ==
    disk = "readable" =>
        \A d \in Configured : kept[d] > 0 => entries[d] # NoEntry /\ entries[d].at + 1 >= kept[d]
=============================================================================
