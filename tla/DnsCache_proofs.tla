--------------------------- MODULE DnsCache_proofs ---------------------------
(***************************************************************************)
(* Proofs about DnsCache: its type invariant; that addresses are those of  *)
(* a recent live answer, whoever writes the file in between; and that      *)
(* until two programs race the newest answers are kept and the file        *)
(* implements CacheStore.                                                  *)
(***************************************************************************)
EXTENDS SharedCache, TLAPS

Place == {"idle", "load", "lookup", "truncate", "write", "done"}

-----------------------------------------------------------------------------
(* The type invariant.                                                     *)

LEMMA BlankType == Blank \in Cache
BY DEF Blank, Cache

LEMMA FreshType == Fresh \in Task
BY BlankType, SettingAssumption DEF Fresh, Task, Time, Source

LEMMA LoadedType == TypeOK => Loaded \in Cache
BY BlankType DEF TypeOK, Loaded

LEMMA LiveType ==
    ASSUME NEW ips \in SUBSET Ip, NEW t \in Time
    PROVE  LiveEntry(ips, t) \in Entry /\ LiveEntry(ips, t) # NoEntry
<1>1. t + Ttl \in 0..(MaxTime + Ttl)
    BY SettingAssumption DEF Time
<1>2. LiveEntry(ips, t) \in Entry
    BY <1>1 DEF LiveEntry, Entry, Expires
<1>3. QED
    BY <1>2, DomainAssumption

LEMMA PrunedType == ASSUME NEW c \in Cache PROVE Pruned(c) \in Cache
BY DEF Pruned, Cache

LEMMA CacheUpdate ==
    ASSUME NEW c \in Cache, NEW d, NEW e \in Entry
    PROVE  [c EXCEPT ![d] = e] \in Cache
BY DEF Cache

(* An operation ends with a resolution.                                    *)
LEMMA ReturnType ==
    ASSUME TypeOK, NEW p \in Process, NEW ips \in SUBSET Ip, NEW s \in Source, Return(p, s, ips)
    PROVE  /\ pc' \in [Process -> Place] /\ task' \in [Process -> Task]
           /\ pc'[p] = "done" /\ task'[p].ips = ips /\ task'[p].source = s
           /\ task'[p].mem = task[p].mem /\ task'[p].at = task[p].at
           /\ task'[p].dom = task[p].dom
           /\ \A q \in Process : q # p => pc'[q] = pc[q] /\ task'[q] = task[q]
BY DEF TypeOK, Return, Goto, Place, Task

LEMMA GotoType ==
    ASSUME TypeOK, NEW p \in Process, NEW l \in Place, Goto(p, l)
    PROVE  /\ pc' \in [Process -> Place] /\ pc'[p] = l
           /\ \A q \in Process : q # p => pc'[q] = pc[q]
BY DEF TypeOK, Goto, Place

LEMMA EventType == TypeOK /\ Event => events' \in 0..MaxEvents
BY SettingAssumption DEF TypeOK, Event

LEMMA StartType == ASSUME TypeOK, NEW p \in Process, Start(p) PROVE TypeOK'
<1>1. pc' \in [Process -> Place]
    BY GotoType DEF Start, Place
<1>2. task' \in [Process -> Task]
    BY DomainAssumption DEF Start, TypeOK, Task
<1>3. QED
    BY <1>1, <1>2, EventType DEF Start, TypeOK, file, history, Place

LEMMA LoadFailsType == ASSUME TypeOK, NEW p \in Process, LoadFails(p) PROVE TypeOK'
<1>1. Return(p, "error", {}) /\ "error" \in Source /\ {} \in SUBSET Ip
    BY DEF LoadFails, Source
<1>2. QED
    BY <1>1, ReturnType DEF LoadFails, TypeOK, file, history, Place

LEMMA LoadToResolveType ==
    ASSUME TypeOK, NEW p \in Process, LoadToResolve(p) PROVE TypeOK'
<1>1. PICK d \in task[p].todo :
          LET t == [task[p] EXCEPT !.dom = d, !.todo = @ \ {d}, !.mem = Loaded, !.at = now]
              e == Loaded[d]
          IN IF p \in Runtimes /\ IsFresh(e)
             THEN /\ task' = [task EXCEPT ![p] = [t EXCEPT !.source = "fresh", !.ips = e.ips]]
                  /\ Goto(p, "done")
             ELSE /\ task' = [task EXCEPT ![p] = t]
                  /\ Goto(p, "lookup")
    BY DEF LoadToResolve
<1> DEFINE t == [task[p] EXCEPT !.dom = d, !.todo = @ \ {d}, !.mem = Loaded, !.at = now]
           e == Loaded[d]
<1>2. task[p] \in Task /\ Loaded \in Cache /\ now \in Time /\ d \in Domain
    BY LoadedType DEF TypeOK, Task
<1>3. t \in Task
    BY <1>2 DEF Task
<1>4. CASE p \in Runtimes /\ IsFresh(e)
  <2>1. e \in Entry
      BY <1>2, <1>4 DEF IsFresh, Cache
  <2>2. e.ips \in SUBSET Ip /\ "fresh" \in Source
      BY <2>1 DEF Entry, Source
  <2>3. task' = [task EXCEPT ![p] = [t EXCEPT !.source = "fresh", !.ips = e.ips]]
      BY <1>1, <1>4
  <2> HIDE DEF t, e
  <2>4. [t EXCEPT !.source = "fresh", !.ips = e.ips] \in Task
      BY <1>3, <2>2 DEF Task
  <2>5. pc' \in [Process -> Place]
      BY <1>1, <1>4, GotoType DEF Place, t, e
  <2>6. QED
      BY <2>3, <2>4, <2>5 DEF LoadToResolve, TypeOK, file, history, Place
<1>5. CASE ~(p \in Runtimes /\ IsFresh(e))
  <2>1. task' = [task EXCEPT ![p] = t] /\ Goto(p, "lookup")
      BY <1>1, <1>5
  <2> HIDE DEF t, e
  <2>2. QED
      BY <1>3, <2>1, GotoType DEF LoadToResolve, TypeOK, file, history, Place
<1>6. QED
    BY <1>4, <1>5

LEMMA AnsweredType ==
    ASSUME TypeOK, NEW d \in Domain, NEW ips \in SUBSET Ip, Answered(d, ips)
    PROVE  answers' \subseteq [dom : Domain, ips : SUBSET Ip, time : Time]
BY DEF TypeOK, Answered

LEMMA LoadToStoreType ==
    ASSUME TypeOK, NEW p \in Process, LoadToStore(p), task[p].dom \in Domain PROVE TypeOK'
<1>1. PICK ips \in Replies \ {{}} :
          /\ Answered(task[p].dom, ips)
          /\ task' = [task EXCEPT
                ![p].mem = [Loaded EXCEPT ![task[p].dom] = LiveEntry(ips, now)],
                ![p].at = now, ![p].ips = ips, ![p].source = "live"]
    BY DEF LoadToStore
<1> DEFINE m == [Loaded EXCEPT ![task[p].dom] = LiveEntry(ips, now)]
<1>2. ips \in SUBSET Ip /\ now \in Time /\ "live" \in Source
    BY DomainAssumption DEF TypeOK, Source
<1>3. m \in Cache
    BY <1>2, LiveType, LoadedType, CacheUpdate
<1>4. task' = [task EXCEPT ![p].mem = m, ![p].at = now, ![p].ips = ips, ![p].source = "live"]
    BY <1>1
<1> HIDE DEF m
<1>5. task' \in [Process -> Task]
  <2>1. task[p] \in Task /\ DOMAIN task = Process
      BY DEF TypeOK
  <2>2. task' = [task EXCEPT ![p] = [task[p] EXCEPT !.mem = m, !.at = now, !.ips = ips, !.source = "live"]]
      BY <1>4, <2>1
  <2>3. [task[p] EXCEPT !.mem = m, !.at = now, !.ips = ips, !.source = "live"] \in Task
      BY <1>2, <1>3, <2>1 DEF Task
  <2>4. QED
      BY <2>2, <2>3 DEF TypeOK
<1>6. answers' \subseteq [dom : Domain, ips : SUBSET Ip, time : Time]
    BY <1>1, <1>2, AnsweredType
<1>7. QED
    BY <1>5, <1>6, GotoType DEF LoadToStore, TypeOK, file, Place

LEMMA LoadToPruneType == ASSUME TypeOK, NEW p \in Process, LoadToPrune(p) PROVE TypeOK'
<1> DEFINE m == Pruned(Loaded)
<1>1. m \in Cache /\ now \in Time
    BY LoadedType, PrunedType DEF TypeOK
<1>2. /\ task' = [task EXCEPT ![p].mem = m, ![p].at = now]
      /\ Goto(p, IF m = Loaded THEN "done" ELSE "truncate")
    BY DEF LoadToPrune
<1> HIDE DEF m
<1>3. task' \in [Process -> Task]
  <2>1. task \in [Process -> Task] /\ task[p] \in Task
      BY DEF TypeOK
  <2>2. [task[p] EXCEPT !.mem = m, !.at = now] \in Task
      BY <1>1, <2>1 DEF Task
  <2>3. task' = [task EXCEPT ![p] = [task[p] EXCEPT !.mem = m, !.at = now]]
      BY <1>2, <2>1
  <2>4. QED
      BY <2>1, <2>2, <2>3
<1>4. pc' \in [Process -> Place]
    BY <1>2, GotoType DEF Place
<1>5. QED
    BY <1>3, <1>4 DEF LoadToPrune, TypeOK, file, history, Place

LEMMA LookupAnswersType ==
    ASSUME TypeOK, NEW p \in Process, LookupAnswers(p), task[p].dom \in Domain PROVE TypeOK'
<1>1. PICK ips \in Replies \ {{}} :
          /\ Answered(task[p].dom, ips)
          /\ task' = [task EXCEPT ![p].mem[task[p].dom] = LiveEntry(ips, task[p].at),
                                  ![p].ips = ips, ![p].source = "live"]
    BY DEF LookupAnswers
<1> DEFINE e == LiveEntry(ips, task[p].at)
<1>2. ips \in SUBSET Ip /\ task[p] \in Task /\ task[p].at \in Time /\ "live" \in Source
    BY DomainAssumption DEF TypeOK, Task, Source
<1>3. e \in Entry
    BY <1>2, LiveType
<1> HIDE DEF e
<1>4. task' \in [Process -> Task]
    BY <1>1, <1>2, <1>3 DEF TypeOK, Task, Cache, e
<1>5. answers' \subseteq [dom : Domain, ips : SUBSET Ip, time : Time]
    BY <1>1, <1>2, AnsweredType
<1>6. QED
    BY <1>4, <1>5, GotoType DEF LookupAnswers, TypeOK, file, Place

LEMMA LookupFailsType ==
    ASSUME TypeOK, NEW p \in Process, LookupFails(p), task[p].dom \in Domain PROVE TypeOK'
<1> DEFINE d == task[p].dom
           e == task[p].mem[d]
           usable == StaleAllowed /\ e.expires + Grace >= task[p].at /\ e.ips # {}
<1>1. /\ pc' \in [Process -> Place] /\ task[p] \in Task /\ e \in Entry \cup {NoEntry}
  <2>1. \E l \in Place : Goto(p, l)
      BY DEF LookupFails, NextDomain, Place
  <2>2. task[p] \in Task /\ pc' \in [Process -> Place]
      BY <2>1, GotoType DEF TypeOK
  <2>3. QED
      BY <2>2 DEF Task, Cache
<1>2. CASE e # NoEntry
  <2> DEFINE n == [e EXCEPT !.error = TRUE]
             s == IF usable THEN "stale" ELSE "empty"
             i == IF usable THEN e.ips ELSE {}
  <2>1. task' = [task EXCEPT ![p].mem[d] = n, ![p].source = s, ![p].ips = i]
      BY <1>2, Zenon DEF LookupFails
  <2>2. n \in Entry /\ s \in Source /\ i \in SUBSET Ip
      BY <1>1, <1>2 DEF Entry, Source
  <2> HIDE DEF n, s, i, e
  <2> DEFINE t == [task[p] EXCEPT !.mem = [task[p].mem EXCEPT ![d] = n], !.source = s, !.ips = i]
  <2>3. task' \in [Process -> Task]
    <3>1. task \in [Process -> Task] /\ task[p].mem \in Cache
        BY <1>1 DEF TypeOK, Task
    <3>2. [task[p].mem EXCEPT ![d] = n] \in Cache
        BY <2>2, <3>1, CacheUpdate
    <3>3. t \in Task
        BY <1>1, <2>2, <3>2 DEF Task
    <3>4. task' = [task EXCEPT ![p] = t]
        BY <2>1, <3>1
    <3>5. QED
        BY <3>1, <3>3, <3>4
  <2>4. QED
      BY <1>1, <2>3 DEF LookupFails, TypeOK, file, history, Place
<1>3. CASE e = NoEntry
  <2>1. task' = [task EXCEPT ![p].source = "empty", ![p].ips = {}]
      BY <1>3, Zenon DEF LookupFails
  <2>2. "empty" \in Source /\ {} \in SUBSET Ip
      BY DEF Source
  <2>3. [task[p] EXCEPT !.source = "empty", !.ips = {}] \in Task
      BY <1>1, <2>2 DEF Task
  <2>4. task' \in [Process -> Task]
    <3>1. task \in [Process -> Task]
        BY DEF TypeOK
    <3>2. task' = [task EXCEPT ![p] = [task[p] EXCEPT !.source = "empty", !.ips = {}]]
        BY <2>1, <3>1
    <3>3. QED
        BY <2>3, <3>1, <3>2
  <2>5. QED
      BY <1>1, <2>4 DEF LookupFails, TypeOK, file, history, Place
<1>4. QED
    BY <1>2, <1>3

LEMMA WriteType ==
    ASSUME TypeOK, NEW p \in Process, Truncate(p) \/ Write(p) PROVE TypeOK'
<1>1. pc' \in [Process -> Place]
    BY GotoType DEF Truncate, Write, NextDomain, Place
<1>2. CASE Truncate(p)
    BY <1>1, <1>2, BlankType DEF Truncate, TypeOK, history, Place
<1>3. CASE Write(p)
  <2>1. task[p].mem \in Cache
      BY DEF TypeOK, Task
  <2>2. /\ entries' \in Cache /\ disk' \in {"readable", "corrupt"}
        /\ kept' = kept \/ kept' = [d \in Domain |->
                IF task[p].mem[d] = NoEntry THEN kept[d]
                ELSE Newer(kept[d], task[p].mem[d].at + 1)]
      BY <1>3, <2>1, BlankType DEF Write
  <2>3. ASSUME NEW d \in Domain, task[p].mem[d] # NoEntry
        PROVE  Newer(kept[d], task[p].mem[d].at + 1) \in 0..(MaxTime + 1)
    <3>1. task[p].mem[d].at \in Time
        BY <2>1, <2>3 DEF Cache, Entry
    <3>2. QED
        BY <3>1, SettingAssumption DEF TypeOK, Newer, Time
  <2>4. kept' \in [Domain -> 0..(MaxTime + 1)]
      BY <2>2, <2>3 DEF TypeOK
  <2>5. QED
      BY <1>1, <1>3, <2>2, <2>4 DEF Write, TypeOK, Place
<1>4. QED
    BY <1>2, <1>3

LEMMA StopType ==
    ASSUME TypeOK, NEW p \in Process, SaveFails(p) \/ End(p) \/ Crash(p) PROVE TypeOK'
<1>1. CASE SaveFails(p)
  <2>1. Return(p, "error", {}) /\ "error" \in Source /\ {} \in SUBSET Ip
      BY <1>1 DEF SaveFails, Source
  <2>2. QED
      BY <1>1, <2>1, ReturnType, EventType, BlankType
      DEF SaveFails, Torn, TypeOK, file, history, Place
<1>2. CASE End(p) \/ Crash(p)
  <2>1. pc' \in [Process -> Place] /\ task' \in [Process -> Task]
      BY <1>2, GotoType, FreshType DEF End, Crash, TypeOK, Place
  <2>2. events' \in 0..MaxEvents
      BY <1>2, EventType DEF End, Crash, TypeOK
  <2>3. QED
      BY <1>2, <2>1, <2>2, BlankType DEF End, Crash, Torn, TypeOK, file, history, Place
<1>3. QED
    BY <1>1, <1>2

LEMMA TickType == TypeOK /\ Tick => TypeOK'
BY SettingAssumption DEF TypeOK, Tick, Time, file, history

-----------------------------------------------------------------------------
(* An entry e of domain d is backed by the answers A of the time n: a live *)
(* answer gave its addresses no earlier than it says, and it expires ttl   *)
(* after that at the latest.                                               *)
BackedBy(d, e, A, n) ==
    e # NoEntry =>
        /\ e.at <= n /\ e.expires <= e.at + Ttl
        /\ \E a \in A : a.dom = d /\ a.ips = e.ips /\ a.time >= e.at

Backed(c, A, n) == \A d \in Domain : BackedBy(d, c[d], A, n)

(* The resolution in t has addresses of a recent answer, or none.          *)
GoodAnswer(t, A) ==
    t.ips # {} =>
        \E a \in A :
            /\ a.dom = t.dom /\ a.ips = t.ips
            /\ \/ t.source = "live"  /\ a.time >= t.at
               \/ t.source = "fresh" /\ a.time + Ttl > t.at
               \/ t.source = "stale" /\ StaleAllowed /\ a.time + Ttl + Grace >= t.at

Ended == {"truncate", "write", "done"}

(* What holds of a process, whoever else writes the file: its domain is    *)
(* one, its clock is not ahead, the cache it holds is backed.              *)
ProcessInv(p) ==
    /\ pc[p] = "lookup" \/ (pc[p] # "idle" /\ p \in Proxies) => task[p].dom \in Domain
    /\ task[p].at <= now
    /\ Backed(task[p].mem, answers, now)
    /\ p \in Resolvers /\ pc[p] \in Ended => GoodAnswer(task[p], answers)

RecentInv ==
    /\ TypeOK
    /\ Backed(entries, answers, now)
    /\ \A p \in Process : ProcessInv(p)

LEMMA BackedGrows ==
    ASSUME NEW c \in Cache, NEW A, NEW B, A \subseteq B, NEW m \in Time, NEW n \in Time, m <= n,
           Backed(c, A, m)
    PROVE  Backed(c, B, n)
<1>1. SUFFICES ASSUME NEW d \in Domain, c[d] # NoEntry PROVE BackedBy(d, c[d], B, n)
    BY DEF Backed, BackedBy
<1>2. c[d].at \in Time
    BY <1>1 DEF Cache, Entry
<1>3. c[d].at <= n
    BY <1>1, <1>2 DEF Backed, BackedBy, Time
<1>4. QED
    BY <1>1, <1>3 DEF Backed, BackedBy

LEMMA BackedBlank == ASSUME NEW A, NEW n PROVE Backed(Blank, A, n)
BY DEF Backed, BackedBy, Blank

LEMMA BackedLive ==
    ASSUME NEW c \in Cache, NEW A, NEW n \in Time, Backed(c, A, n),
           NEW d \in Domain, NEW ips \in SUBSET Ip, NEW t \in Time, t <= n,
           [dom |-> d, ips |-> ips, time |-> n] \in A
    PROVE  Backed([c EXCEPT ![d] = LiveEntry(ips, t)], A, n)
<1> DEFINE e == LiveEntry(ips, t)
<1>1. e.at = t /\ e.expires = t + Ttl /\ e.ips = ips
    BY DEF LiveEntry, Expires
<1>2. BackedBy(d, e, A, n)
    BY <1>1, SettingAssumption DEF BackedBy, Time
<1> HIDE DEF e
<1>3. \A x \in Domain : [c EXCEPT ![d] = e][x] = IF x = d THEN e ELSE c[x]
    BY DEF Cache
<1>4. QED
    BY <1>2, <1>3 DEF Backed, e

(* The step of p to a place of its own leaves what the others know.        *)
LEMMA OthersKnow ==
    ASSUME RecentInv, TypeOK', NEW p \in Process, answers \subseteq answers', now' = now,
           \A q \in Process : q # p => pc'[q] = pc[q] /\ task'[q] = task[q],
           ProcessInv(p)', Backed(entries', answers', now')
    PROVE  RecentInv'
<1>1. SUFFICES ASSUME NEW q \in Process, q # p PROVE ProcessInv(q)'
    BY DEF RecentInv
<1>2. ProcessInv(q) /\ pc'[q] = pc[q] /\ task'[q] = task[q]
      /\ task[q].mem \in Cache /\ now \in Time /\ now <= now
    BY <1>1 DEF RecentInv, TypeOK, Task, Time
<1>3. Backed(task'[q].mem, answers', now')
    BY <1>2, BackedGrows DEF ProcessInv
<1>4. GoodAnswer(task[q], answers) => GoodAnswer(task[q], answers')
    BY DEF GoodAnswer
<1>5. QED
    BY <1>2, <1>3, <1>4 DEF ProcessInv

LEMMA EntriesKept ==
    ASSUME RecentInv, answers \subseteq answers', now' = now, entries' = entries \/ entries' = Blank
    PROVE  Backed(entries', answers', now')
<1>1. entries \in Cache /\ now \in Time /\ now <= now /\ Backed(entries, answers, now)
    BY DEF RecentInv, TypeOK, Time
<1>2. QED
    BY <1>1, BackedGrows, BackedBlank

LEMMA LoadedBacked == RecentInv => Backed(Loaded, answers, now)
BY BackedBlank DEF RecentInv, Loaded

LEMMA StartRecent ==
    ASSUME RecentInv, TypeOK', NEW p \in Process, Start(p) PROVE RecentInv'
<1>1. /\ UNCHANGED <<entries, now, answers>> /\ pc'[p] = "load" /\ TypeOK
      /\ \A q \in Process : q # p => pc'[q] = pc[q]
    BY GotoType DEF Start, file, history, RecentInv, Place
<1>2. /\ task'[p].mem = task[p].mem /\ task'[p].at = task[p].at
      /\ p \in Proxies => task'[p].dom \in Domain
      /\ \A q \in Process : q # p => task'[q] = task[q]
    BY <1>1, ProcessAssumption, DomainAssumption DEF Start, TypeOK, Task, Resolvers
<1>3. ProcessInv(p)'
    BY <1>1, <1>2 DEF RecentInv, ProcessInv, Ended
<1>4. QED
    BY <1>1, <1>2, <1>3, EntriesKept, OthersKnow

LEMMA ErrorRecent ==
    ASSUME RecentInv, TypeOK', NEW p \in Process, LoadFails(p) \/ SaveFails(p) PROVE RecentInv'
<1>1. /\ UNCHANGED <<now, answers>> /\ TypeOK /\ Return(p, "error", {})
      /\ entries' = entries \/ entries' = Blank
      /\ pc[p] # "idle"
    BY DEF LoadFails, SaveFails, Torn, file, history, RecentInv
<1>2. "error" \in Source /\ {} \in SUBSET Ip
    BY DEF Source
<1>3. /\ pc'[p] = "done" /\ task'[p].ips = {}
      /\ task'[p].mem = task[p].mem /\ task'[p].at = task[p].at /\ task'[p].dom = task[p].dom
      /\ \A q \in Process : q # p => pc'[q] = pc[q] /\ task'[q] = task[q]
    BY <1>1, <1>2, ReturnType
<1>4. ProcessInv(p)'
    BY <1>1, <1>3 DEF RecentInv, ProcessInv, GoodAnswer
<1>5. QED
    BY <1>1, <1>3, <1>4, EntriesKept, OthersKnow

LEMMA StopRecent ==
    ASSUME RecentInv, TypeOK', NEW p \in Process, End(p) \/ Crash(p) PROVE RecentInv'
<1>1. /\ UNCHANGED <<now, answers>> /\ TypeOK /\ Goto(p, "idle")
      /\ entries' = entries \/ entries' = Blank
      /\ task' = [task EXCEPT ![p] = Fresh]
    BY DEF End, Crash, Torn, file, history, RecentInv
<1>2. /\ pc'[p] = "idle" /\ task'[p] = Fresh
      /\ \A q \in Process : q # p => pc'[q] = pc[q] /\ task'[q] = task[q]
    BY <1>1, GotoType DEF TypeOK, Place
<1>3. Fresh.mem = Blank /\ Fresh.at = 0 /\ Fresh.ips = {}
    BY DEF Fresh
<1>4. ProcessInv(p)'
    BY <1>1, <1>2, <1>3, BackedBlank DEF ProcessInv, TypeOK, Time, Ended
<1>5. QED
    BY <1>1, <1>2, <1>4, EntriesKept, OthersKnow

LEMMA WriteRecent ==
    ASSUME RecentInv, TypeOK', NEW p \in Process, Truncate(p) \/ Write(p) PROVE RecentInv'
<1>1. /\ UNCHANGED <<now, answers, task>> /\ TypeOK
      /\ pc[p] \in {"truncate", "write"} /\ pc'[p] \in {"write", "load", "done"}
      /\ \A q \in Process : q # p => pc'[q] = pc[q]
    BY GotoType DEF Truncate, Write, NextDomain, history, RecentInv, Place
<1>2. Backed(entries', answers', now')
    BY <1>1, BackedBlank DEF Truncate, Write, RecentInv, ProcessInv
<1>3. ProcessInv(p)'
    BY <1>1 DEF RecentInv, ProcessInv, Ended
<1>4. QED
    BY <1>1, <1>2, <1>3, OthersKnow

LEMMA LoadToPruneRecent ==
    ASSUME RecentInv, TypeOK', NEW p \in Process, LoadToPrune(p) PROVE RecentInv'
<1> DEFINE m == Pruned(Loaded)
<1>1. /\ UNCHANGED <<entries, now, answers>> /\ TypeOK /\ p \notin Resolvers /\ p \notin Proxies
      /\ task' = [task EXCEPT ![p].mem = m, ![p].at = now]
      /\ Goto(p, IF m = Loaded THEN "done" ELSE "truncate")
    BY ProcessAssumption DEF LoadToPrune, file, history, RecentInv
<1>2. Backed(m, answers, now)
    BY LoadedBacked DEF Pruned, Backed, BackedBy
<1> HIDE DEF m
<1>3. /\ task'[p].mem = m /\ task'[p].at = now /\ now <= now
      /\ pc'[p] \in {"done", "truncate"}
      /\ \A q \in Process : q # p => pc'[q] = pc[q] /\ task'[q] = task[q]
    BY <1>1, GotoType DEF TypeOK, Task, Time, Place
<1>4. ProcessInv(p)'
    BY <1>1, <1>2, <1>3 DEF ProcessInv
<1>5. QED
    BY <1>1, <1>3, <1>4, EntriesKept, OthersKnow

LEMMA TickRecent == ASSUME RecentInv, TypeOK', Tick PROVE RecentInv'
<1>1. /\ UNCHANGED <<entries, pc, task, answers>>
      /\ now \in Time /\ now' \in Time /\ now' = now + 1 /\ now <= now' /\ TypeOK
    BY DEF Tick, file, history, RecentInv, TypeOK, Time
<1>2. Backed(entries', answers', now')
    BY <1>1, BackedGrows DEF RecentInv, TypeOK
<1>3. ASSUME NEW p \in Process PROVE ProcessInv(p)'
  <2>1. task[p].mem \in Cache /\ task[p].at \in Time /\ ProcessInv(p)
      BY DEF RecentInv, TypeOK, Task
  <2>2. Backed(task[p].mem, answers', now')
      BY <1>1, <2>1, BackedGrows DEF ProcessInv
  <2>3. task[p].at <= now'
      BY <1>1, <2>1 DEF ProcessInv, Time
  <2>4. QED
      BY <1>1, <2>1, <2>2, <2>3 DEF ProcessInv
<1>4. QED
    BY <1>2, <1>3 DEF RecentInv

(* A fresh entry was answered less than ttl ago.                           *)
LEMMA LoadToResolveRecent ==
    ASSUME RecentInv, TypeOK', NEW p \in Process, LoadToResolve(p) PROVE RecentInv'
<1>1. PICK d \in task[p].todo :
          LET t == [task[p] EXCEPT !.dom = d, !.todo = @ \ {d}, !.mem = Loaded, !.at = now]
              e == Loaded[d]
          IN IF p \in Runtimes /\ IsFresh(e)
             THEN /\ task' = [task EXCEPT ![p] = [t EXCEPT !.source = "fresh", !.ips = e.ips]]
                  /\ Goto(p, "done")
             ELSE /\ task' = [task EXCEPT ![p] = t]
                  /\ Goto(p, "lookup")
    BY DEF LoadToResolve
<1> DEFINE t == [task[p] EXCEPT !.dom = d, !.todo = @ \ {d}, !.mem = Loaded, !.at = now]
           e == Loaded[d]
<1>2. /\ UNCHANGED <<entries, now, answers>> /\ TypeOK /\ p \notin Proxies
      /\ Loaded \in Cache /\ Backed(Loaded, answers, now) /\ now \in Time /\ now <= now
      /\ answers \subseteq [dom : Domain, ips : SUBSET Ip, time : Time]
    BY LoadedType, LoadedBacked, ProcessAssumption
    DEF LoadToResolve, file, history, RecentInv, TypeOK, Time
<1>3. d \in Domain /\ task[p] \in Task
    BY <1>2 DEF TypeOK, Task
<1>4. t.dom = d /\ t.mem = Loaded /\ t.at = now
    BY <1>3 DEF Task
<1>5. CASE p \in Runtimes /\ IsFresh(e)
  <2> DEFINE n == [t EXCEPT !.source = "fresh", !.ips = e.ips]
  <2>1. task' = [task EXCEPT ![p] = n] /\ Goto(p, "done")
      BY <1>1, <1>5
  <2>2. n.dom = d /\ n.mem = Loaded /\ n.at = now /\ n.source = "fresh" /\ n.ips = e.ips
      BY <1>3, <1>4 DEF Task
  <2>3. PICK a \in answers : a.dom = d /\ a.ips = e.ips /\ a.time >= e.at
      BY <1>2, <1>3, <1>5 DEF Backed, BackedBy, IsFresh
  <2>4. a.time + Ttl > now
    <3>1. e.expires <= e.at + Ttl /\ e.expires > now /\ e \in Entry
        BY <1>2, <1>3, <1>5 DEF Backed, BackedBy, IsFresh, Cache
    <3>2. e.at \in Nat /\ e.expires \in Nat /\ a.time \in Nat /\ now \in Nat
        BY <1>2, <3>1 DEF Entry, Time
    <3>3. QED
        BY <2>3, <3>1, <3>2, SettingAssumption
  <2> HIDE DEF n, t, e
  <2>5. GoodAnswer(n, answers)
      BY <2>2, <2>3, <2>4 DEF GoodAnswer
  <2>6. /\ task'[p] = n /\ pc'[p] = "done"
        /\ \A q \in Process : q # p => pc'[q] = pc[q] /\ task'[q] = task[q]
      BY <1>2, <2>1, GotoType DEF TypeOK, Place
  <2>7. ProcessInv(p)'
      BY <1>2, <2>2, <2>5, <2>6 DEF ProcessInv
  <2>8. QED
      BY <1>2, <2>6, <2>7, EntriesKept, OthersKnow
<1>6. CASE ~(p \in Runtimes /\ IsFresh(e))
  <2>1. task' = [task EXCEPT ![p] = t] /\ Goto(p, "lookup")
      BY <1>1, <1>6
  <2> HIDE DEF t, e
  <2>2. /\ task'[p] = t /\ pc'[p] = "lookup"
        /\ \A q \in Process : q # p => pc'[q] = pc[q] /\ task'[q] = task[q]
      BY <1>2, <2>1, GotoType DEF TypeOK, Place
  <2>3. ProcessInv(p)'
      BY <1>2, <1>3, <1>4, <2>2 DEF ProcessInv, Ended
  <2>4. QED
      BY <1>2, <2>2, <2>3, EntriesKept, OthersKnow
<1>7. QED
    BY <1>5, <1>6

(* A live answer of now.                                                   *)
LEMMA LiveRecent ==
    ASSUME RecentInv, TypeOK', NEW p \in Process, NEW c \in Cache, NEW ips \in SUBSET Ip,
           NEW t \in Time, t <= now, task[p].dom \in Domain, Backed(c, answers, now),
           Answered(task[p].dom, ips), UNCHANGED <<entries, now>>,
           pc'[p] = "truncate",
           task'[p].mem = [c EXCEPT ![task[p].dom] = LiveEntry(ips, t)],
           task'[p].dom = task[p].dom, task'[p].at = t,
           task'[p].ips = ips, task'[p].source = "live",
           \A q \in Process : q # p => pc'[q] = pc[q] /\ task'[q] = task[q]
    PROVE  RecentInv'
<1> DEFINE a == [dom |-> task[p].dom, ips |-> ips, time |-> now]
<1>1. answers' = answers \cup {a} /\ now \in Time /\ now <= now /\ TypeOK
    BY DEF Answered, RecentInv, TypeOK, Time
<1>2. Backed(c, answers', now)
    BY <1>1, BackedGrows
<1>3. a \in answers'
    BY <1>1
<1>4. Backed(task'[p].mem, answers', now)
  <2>1. Backed([c EXCEPT ![task[p].dom] = LiveEntry(ips, t)], answers', now)
      BY <1>1, <1>2, <1>3, BackedLive
  <2>2. QED
      BY <2>1
<1>5. GoodAnswer(task'[p], answers')
    BY <1>1, <1>3 DEF GoodAnswer, Time
<1>6. ProcessInv(p)'
    BY <1>4, <1>5 DEF ProcessInv
<1>7. QED
    BY <1>1, <1>6, EntriesKept, OthersKnow

LEMMA LoadToStoreRecent ==
    ASSUME RecentInv, TypeOK', NEW p \in Process, LoadToStore(p) PROVE RecentInv'
<1>1. PICK ips \in Replies \ {{}} :
          /\ Answered(task[p].dom, ips)
          /\ task' = [task EXCEPT
                ![p].mem = [Loaded EXCEPT ![task[p].dom] = LiveEntry(ips, now)],
                ![p].at = now, ![p].ips = ips, ![p].source = "live"]
    BY DEF LoadToStore
<1> DEFINE m == [Loaded EXCEPT ![task[p].dom] = LiveEntry(ips, now)]
<1>2. /\ UNCHANGED <<entries, now>> /\ TypeOK /\ Goto(p, "truncate") /\ pc[p] = "load"
      /\ ips \in SUBSET Ip /\ Loaded \in Cache /\ Backed(Loaded, answers, now)
      /\ now \in Time /\ now <= now /\ p \in Proxies
    BY LoadedType, LoadedBacked, DomainAssumption
    DEF LoadToStore, file, RecentInv, TypeOK, Time
<1>3. task[p].dom \in Domain
    BY <1>2 DEF RecentInv, ProcessInv
<1>4. task' = [task EXCEPT ![p].mem = m, ![p].at = now, ![p].ips = ips, ![p].source = "live"]
    BY <1>1
<1>5. /\ task'[p].mem = m /\ task'[p].dom = task[p].dom /\ task'[p].at = now
      /\ task'[p].ips = ips /\ task'[p].source = "live"
      /\ \A q \in Process : q # p => task'[q] = task[q]
  <2> HIDE DEF m
  <2>1. task[p] \in Task /\ DOMAIN task = Process
      BY <1>2 DEF TypeOK
  <2>2. task' = [task EXCEPT ![p] = [task[p] EXCEPT !.mem = m, !.at = now, !.ips = ips, !.source = "live"]]
      BY <1>4, <2>1
  <2>3. QED
      BY <2>1, <2>2 DEF Task
<1>6. pc'[p] = "truncate" /\ \A q \in Process : q # p => pc'[q] = pc[q]
    BY <1>2, GotoType DEF Place
<1>7. QED
    BY <1>1, <1>2, <1>3, <1>5, <1>6, LiveRecent

LEMMA LookupAnswersRecent ==
    ASSUME RecentInv, TypeOK', NEW p \in Process, LookupAnswers(p) PROVE RecentInv'
<1>1. PICK ips \in Replies \ {{}} :
          /\ Answered(task[p].dom, ips)
          /\ task' = [task EXCEPT ![p].mem[task[p].dom] = LiveEntry(ips, task[p].at),
                                  ![p].ips = ips, ![p].source = "live"]
    BY DEF LookupAnswers
<1> DEFINE e == LiveEntry(ips, task[p].at)
<1>2. /\ UNCHANGED <<entries, now>> /\ TypeOK /\ Goto(p, "truncate") /\ pc[p] = "lookup"
      /\ ips \in SUBSET Ip /\ task[p] \in Task
    BY DomainAssumption DEF LookupAnswers, file, RecentInv, TypeOK
<1>3. /\ task[p].dom \in Domain /\ task[p].at \in Time /\ task[p].at <= now
      /\ task[p].mem \in Cache /\ Backed(task[p].mem, answers, now)
    BY <1>2 DEF RecentInv, ProcessInv, Task
<1>4. /\ task'[p].mem = [task[p].mem EXCEPT ![task[p].dom] = e]
      /\ task'[p].dom = task[p].dom /\ task'[p].at = task[p].at
      /\ task'[p].ips = ips /\ task'[p].source = "live"
      /\ \A q \in Process : q # p => task'[q] = task[q]
  <2>1. task' = [task EXCEPT ![p].mem[task[p].dom] = e, ![p].ips = ips, ![p].source = "live"]
      BY <1>1
  <2> HIDE DEF e
  <2>2. QED
      BY <1>2, <2>1 DEF TypeOK, Task, Cache
<1>5. pc'[p] = "truncate" /\ \A q \in Process : q # p => pc'[q] = pc[q]
    BY <1>2, GotoType DEF Place
<1>6. QED
    BY <1>1, <1>2, <1>3, <1>4, <1>5, LiveRecent

(* A stale answer is within its grace, and stale ones are allowed.         *)
LEMMA LookupFailsRecent ==
    ASSUME RecentInv, TypeOK', NEW p \in Process, LookupFails(p) PROVE RecentInv'
<1> DEFINE d == task[p].dom
           e == task[p].mem[d]
           usable == StaleAllowed /\ e.expires + Grace >= task[p].at /\ e.ips # {}
<1>1. /\ UNCHANGED <<entries, now, answers>> /\ TypeOK /\ pc[p] = "lookup"
      /\ pc'[p] \in {"truncate", "done", "load"}
      /\ \A q \in Process : q # p => pc'[q] = pc[q]
  <2>1. \E l \in {"truncate", "done", "load"} : Goto(p, l)
      BY DEF LookupFails, NextDomain
  <2>2. TypeOK /\ {"truncate", "done", "load"} \subseteq Place
      BY DEF RecentInv, Place
  <2>3. pc'[p] \in {"truncate", "done", "load"} /\ \A q \in Process : q # p => pc'[q] = pc[q]
      BY <2>1, <2>2, GotoType
  <2>4. QED
      BY <2>2, <2>3 DEF LookupFails, file, history
<1>2. /\ task[p] \in Task /\ d \in Domain /\ task[p].mem \in Cache /\ task[p].at \in Time
      /\ task[p].at <= now /\ Backed(task[p].mem, answers, now)
      /\ e \in Entry \cup {NoEntry}
  <2>1. task[p] \in Task /\ d \in Domain /\ task[p].at <= now /\ Backed(task[p].mem, answers, now)
      BY <1>1 DEF RecentInv, ProcessInv, TypeOK
  <2>2. QED
      BY <2>1 DEF Task, Cache
<1>3. CASE e # NoEntry
  <2> DEFINE n == [e EXCEPT !.error = TRUE]
             s == IF usable THEN "stale" ELSE "empty"
             i == IF usable THEN e.ips ELSE {}
  <2>1. task' = [task EXCEPT ![p].mem[d] = n, ![p].source = s, ![p].ips = i]
      BY <1>3, Zenon DEF LookupFails
  <2>2. e \in Entry /\ n.at = e.at /\ n.expires = e.expires /\ n.ips = e.ips
      BY <1>2, <1>3 DEF Entry
  <2>3. BackedBy(d, n, answers, now)
    <3>1. BackedBy(d, e, answers, now)
        BY <1>2 DEF Backed
    <3>2. QED
        BY <1>3, <2>2, <3>1 DEF BackedBy
  <2>4. i # {} =>
          /\ s = "stale" /\ StaleAllowed
          /\ \E a \in answers :
                a.dom = d /\ a.ips = i /\ a.time + Ttl + Grace >= task[p].at
    <3>1. SUFFICES ASSUME usable
                   PROVE  \E a \in answers :
                             a.dom = d /\ a.ips = e.ips /\ a.time + Ttl + Grace >= task[p].at
        OBVIOUS
    <3>2. PICK a \in answers : a.dom = d /\ a.ips = e.ips /\ a.time >= e.at
        BY <1>2, <1>3 DEF Backed, BackedBy
    <3>3. e.at \in Nat /\ e.expires \in Nat /\ a.time \in Nat /\ task[p].at \in Nat
        BY <1>1, <1>2, <2>2, <3>2 DEF Entry, Time, TypeOK
    <3>4. e.expires <= e.at + Ttl
        BY <1>2, <1>3 DEF Backed, BackedBy
    <3>5. a.time + Ttl + Grace >= task[p].at
        BY <3>1, <3>2, <3>3, <3>4, SettingAssumption
    <3>6. QED
        BY <3>2, <3>5
  <2> HIDE DEF n, s, i, e
  <2>5. /\ task'[p].mem = [task[p].mem EXCEPT ![d] = n] /\ task'[p].source = s
        /\ task'[p].ips = i /\ task'[p].dom = d /\ task'[p].at = task[p].at
        /\ \A q \in Process : q # p => task'[q] = task[q]
      BY <1>1, <1>2, <2>1 DEF TypeOK, Task, Cache
  <2>6. Backed(task'[p].mem, answers, now)
      BY <1>2, <2>3, <2>5 DEF Backed, Cache
  <2>7. GoodAnswer(task'[p], answers)
      BY <2>4, <2>5 DEF GoodAnswer
  <2>8. ProcessInv(p)'
      BY <1>1, <1>2, <2>5, <2>6, <2>7 DEF ProcessInv
  <2>9. QED
      BY <1>1, <2>5, <2>8, EntriesKept, OthersKnow
<1>4. CASE e = NoEntry
  <2>1. task' = [task EXCEPT ![p].source = "empty", ![p].ips = {}]
      BY <1>4, Zenon DEF LookupFails
  <2>2. /\ task'[p].mem = task[p].mem /\ task'[p].ips = {}
        /\ task'[p].dom = d /\ task'[p].at = task[p].at
        /\ \A q \in Process : q # p => task'[q] = task[q]
      BY <1>1, <1>2, <2>1 DEF TypeOK, Task
  <2>3. ProcessInv(p)'
      BY <1>1, <1>2, <2>2 DEF ProcessInv, GoodAnswer
  <2>4. QED
      BY <1>1, <2>2, <2>3, EntriesKept, OthersKnow
<1>5. QED
    BY <1>3, <1>4

LEMMA InitRecent == Init => RecentInv
<1>1. SUFFICES ASSUME Init PROVE RecentInv
    OBVIOUS
<1>2. /\ entries = Blank \/ entries \in Old
      /\ answers = {[dom |-> d, ips |-> entries[d].ips, time |-> entries[d].at] :
                       d \in {x \in Domain : entries[x] # NoEntry}}
      /\ kept = [d \in Domain |-> IF entries[d] = NoEntry THEN 0 ELSE entries[d].at + 1]
      /\ now = Begin /\ events = 0 /\ disk \in {"absent", "readable"}
      /\ pc = [p \in Process |-> "idle"] /\ task = [p \in Process |-> Fresh]
    BY <1>1 DEF Init
<1>3. entries \in Cache /\ \A d \in Domain :
          entries[d] # NoEntry => /\ entries[d] \in Entry
                                  /\ entries[d].at <= Begin
                                  /\ entries[d].expires <= entries[d].at + Ttl
    BY <1>2, BlankType, DomainAssumption DEF Cache, Blank
<1>4. TypeOK
  <2>1. answers \subseteq [dom : Domain, ips : SUBSET Ip, time : Time]
      BY <1>2, <1>3 DEF Entry
  <2>2. kept \in [Domain -> 0..(MaxTime + 1)]
      BY <1>2, <1>3, SettingAssumption DEF Entry, Time
  <2>3. QED
      BY <1>2, <1>3, <2>1, <2>2, FreshType, SettingAssumption DEF TypeOK, Time
<1>5. Backed(entries, answers, now)
  <2>1. SUFFICES ASSUME NEW d \in Domain, entries[d] # NoEntry
                 PROVE  BackedBy(d, entries[d], answers, now)
      BY DEF Backed, BackedBy
  <2>2. [dom |-> d, ips |-> entries[d].ips, time |-> entries[d].at] \in answers
      BY <1>2, <2>1
  <2>3. /\ entries[d].at <= Begin /\ entries[d].expires <= entries[d].at + Ttl
        /\ entries[d].at \in Nat
      BY <1>3, <2>1 DEF Entry, Time
  <2>4. QED
      BY <1>2, <2>2, <2>3 DEF BackedBy
<1>6. ASSUME NEW p \in Process PROVE ProcessInv(p)
  <2>1. pc[p] = "idle" /\ task[p].mem = Blank /\ task[p].at = 0 /\ task[p].at <= now
      BY <1>2, SettingAssumption DEF Fresh, Time
  <2>2. QED
      BY <2>1, BackedBlank DEF ProcessInv, Ended
<1>7. QED
    BY <1>4, <1>5, <1>6 DEF RecentInv

LEMMA NextType == RecentInv /\ [Next]_vars => TypeOK'
<1>1. SUFFICES ASSUME RecentInv, [Next]_vars PROVE TypeOK'
    OBVIOUS
<1>2. TypeOK
    BY <1>1 DEF RecentInv
<1>3. CASE UNCHANGED vars
    BY <1>2, <1>3 DEF vars, file, history, TypeOK
<1>4. ASSUME NEW p \in Process,
             LookupAnswers(p) \/ LookupFails(p) \/ LoadToStore(p)
      PROVE  TypeOK'
  <2>1. task[p].dom \in Domain
      BY <1>1, <1>4 DEF RecentInv, ProcessInv, LookupAnswers, LookupFails, LoadToStore
  <2>2. QED
      BY <1>2, <1>4, <2>1, LookupAnswersType, LookupFailsType, LoadToStoreType
<1>5. QED
    BY <1>1, <1>2, <1>3, <1>4, StartType, LoadFailsType, LoadToResolveType, LoadToPruneType,
       WriteType, StopType, TickType
    DEF Next

LEMMA NextRecent == RecentInv /\ [Next]_vars => RecentInv'
<1>1. SUFFICES ASSUME RecentInv, [Next]_vars PROVE RecentInv'
    OBVIOUS
<1>2. TypeOK'
    BY <1>1, NextType
<1>3. CASE UNCHANGED vars
    BY <1>1, <1>2, <1>3 DEF vars, file, history, RecentInv, ProcessInv
<1>4. CASE Next
    BY <1>1, <1>2, <1>4, StartRecent, ErrorRecent, LoadToResolveRecent, LoadToStoreRecent,
       LoadToPruneRecent, LookupAnswersRecent, LookupFailsRecent, WriteRecent, StopRecent,
       TickRecent
    DEF Next
<1>5. QED
    BY <1>1, <1>3, <1>4

(* dns_cache.rs:95.  Whoever writes the file, in whatever order, every     *)
(* entry in it or in the hands of an operation is a whole one, and none    *)
(* outlives its window.                                                    *)
THEOREM CacheTypes == Spec => []TypeOK
<1>1. RecentInv => TypeOK
    BY DEF RecentInv
<1>2. QED
    BY <1>1, InitRecent, NextRecent, PTL DEF Spec

(* dns_cache.rs:74-86, 141-160.  Whatever is lost, overwritten or torn, a  *)
(* resolution gives the addresses of one live answer for its domain, one   *)
(* that is recent enough for the settings.                                 *)
THEOREM ResolutionsAreRecent == Spec => []AnswersAreRecent
<1>1. RecentInv => AnswersAreRecent
  <2>1. SUFFICES ASSUME RecentInv, NEW p \in Resolvers,
                        pc[p] \in {"truncate", "write", "done"}, task[p].ips # {}
                 PROVE  \E a \in answers :
                          /\ a.dom = task[p].dom /\ a.ips = task[p].ips
                          /\ CASE task[p].source = "live"  -> a.time >= task[p].at
                               [] task[p].source = "fresh" -> a.time + Ttl > task[p].at
                               [] task[p].source = "stale" -> /\ StaleAllowed
                                                   /\ a.time + Ttl + Grace >= task[p].at
                               [] OTHER -> FALSE
      BY DEF AnswersAreRecent
  <2>2. PICK a \in answers :
            /\ a.dom = task[p].dom /\ a.ips = task[p].ips
            /\ \/ task[p].source = "live"  /\ a.time >= task[p].at
               \/ task[p].source = "fresh" /\ a.time + Ttl > task[p].at
               \/ task[p].source = "stale" /\ StaleAllowed /\ a.time + Ttl + Grace >= task[p].at
      BY <2>1 DEF RecentInv, ProcessInv, GoodAnswer, Ended, Process
  <2>3. QED
      BY <2>2
<1>2. QED
    BY <1>1, InitRecent, NextRecent, PTL DEF Spec

-----------------------------------------------------------------------------
(* The programs that share the file.                                       *)

(* The cache c has what was kept, k, of the domains of policies.           *)
Keeps(c, k) == \A d \in Configured : k[d] > 0 => c[d] # NoEntry /\ c[d].at + 1 >= k[d]

(* Nothing kept is newer than the clock, races or not.                     *)
LooseInv ==
    /\ RecentInv
    /\ disk # "readable" => entries = Blank
    /\ \A d \in Domain : kept[d] <= now + 1

(* The copy in the hands of p.  A program that is not behind finds the     *)
(* file as it was until it truncates it, and has one change of it in hand  *)
(* then; one that fills the file finds it as it has truncated it.          *)
HandInv(p) ==
    /\ pc[p] = "lookup" /\ p \notin behind =>
          /\ Readable /\ task[p].mem = entries
          /\ \A d \in Domain : entries[d] # NoEntry => entries[d].at <= task[p].at
          /\ \A d \in Domain : kept[d] <= task[p].at + 1
    /\ pc[p] = "truncate" /\ p \notin behind =>
          Readable /\ Store!Changes(entries, task[p].mem) /\ Keeps(task[p].mem, kept)
    /\ pc[p] = "write" => disk = "truncated" /\ Keeps(task[p].mem, kept)

(* What holds until the first race.                                        *)
Orderly ==
    /\ \A p, q \in Process : pc[p] = "write" /\ pc[q] = "write" => p = q
    /\ \A p \in Process : HandInv(p)
    /\ disk = "absent" => \A d \in Domain : kept[d] = 0
    /\ disk = "readable" => Keeps(entries, kept)

SharedInv == LooseInv /\ raced \in BOOLEAN /\ (~raced => Orderly)

Abstract == [Store!Next]_<<Stored, IsLost, raced>>

LEMMA LooseFacts ==
    LooseInv => /\ RecentInv /\ TypeOK /\ entries \in Cache /\ Loaded \in Cache /\ Loaded = entries
                /\ kept \in [Domain -> Nat] /\ now \in Time
                /\ \A d \in Domain : entries[d] # NoEntry => entries[d].at <= now
BY LoadedType DEF LooseInv, RecentInv, TypeOK, Loaded, Backed, BackedBy

LEMMA FileKeeps == Orderly /\ Readable => Keeps(Loaded, kept)
<1>1. SUFFICES ASSUME Orderly, Readable PROVE Keeps(Loaded, kept)
    OBVIOUS
<1>2. CASE disk = "absent"
  <2>1. \A d \in Configured : kept[d] = 0
      BY <1>1, <1>2, DomainAssumption DEF Orderly
  <2>2. QED
      BY <2>1 DEF Keeps
<1>3. CASE disk = "readable"
    BY <1>1, <1>3 DEF Orderly, Loaded
<1>4. QED
    BY <1>1, <1>2, <1>3 DEF Readable

(* The place of a program changes by its own steps only.                   *)
LEMMA PlaceStep ==
    ASSUME TypeOK, NEW p \in Process,
           \/ Start(p) \/ LoadFails(p) \/ LoadToResolve(p) \/ LoadToStore(p) \/ LoadToPrune(p)
           \/ LookupAnswers(p) \/ LookupFails(p)
           \/ Truncate(p) \/ Write(p) \/ SaveFails(p) \/ End(p) \/ Crash(p)
    PROVE  \A q \in Process : q # p => pc'[q] = pc[q] /\ task'[q] = task[q]
<1>1. pc \in [Process -> Place]
    BY DEF TypeOK, Place
<1>2. \E l : Goto(p, l)
    BY DEF Start, LoadFails, LoadToResolve, LoadToStore, LoadToPrune, LookupAnswers, LookupFails,
       Truncate, Write, SaveFails, End, Crash, Return, NextDomain
<1>3. \A q \in Process : q # p => pc'[q] = pc[q]
    BY <1>1, <1>2 DEF Goto
<1>4. task \in [Process -> Task]
    BY DEF TypeOK
<1>5. \A q \in Process : q # p => task'[q] = task[q]
  <2>1. CASE Start(p) \/ LoadFails(p) \/ Truncate(p) \/ Write(p) \/ SaveFails(p)
      BY <1>4, <2>1 DEF Start, LoadFails, Truncate, Write, SaveFails, Return
  <2>2. CASE LoadToResolve(p) \/ LoadToStore(p) \/ LoadToPrune(p) \/ End(p) \/ Crash(p)
      BY <1>4, <2>2, Zenon DEF LoadToResolve, LoadToStore, LoadToPrune, End, Crash
  <2>3. CASE LookupAnswers(p) \/ LookupFails(p)
      BY <1>4, <2>3, Zenon DEF LookupAnswers, LookupFails
  <2>4. QED
      BY <2>1, <2>2, <2>3
<1>6. QED
    BY <1>3, <1>5

(* kept grows by what a program writes, which is not newer than the clock. *)
LEMMA NextLoose == LooseInv /\ [Next]_vars => LooseInv'
<1>1. SUFFICES ASSUME LooseInv, [Next]_vars PROVE LooseInv'
    OBVIOUS
<1>2. RecentInv' /\ RecentInv /\ TypeOK /\ kept \in [Domain -> Nat] /\ now \in Nat
    BY <1>1, NextRecent, LooseFacts DEF LooseInv, Time
<1>3. \A d \in Domain : kept[d] <= now + 1
    BY <1>1 DEF LooseInv
<1>4. CASE UNCHANGED vars
    BY <1>1, <1>2, <1>4 DEF vars, file, history, LooseInv
<1>5. CASE Tick
  <2>1. UNCHANGED <<disk, entries, kept>> /\ now' = now + 1
      BY <1>5 DEF Tick, file, history
  <2>2. \A d \in Domain : kept'[d] <= now' + 1
      BY <1>2, <1>3, <2>1
  <2>3. QED
      BY <1>1, <1>2, <2>1, <2>2 DEF LooseInv
<1>6. ASSUME NEW p \in Process,
             \/ Start(p) \/ LoadFails(p) \/ LoadToResolve(p) \/ LoadToStore(p) \/ LoadToPrune(p)
             \/ LookupAnswers(p) \/ LookupFails(p) \/ Truncate(p)
             \/ SaveFails(p) \/ End(p) \/ Crash(p)
      PROVE  LooseInv'
  <2>1. UNCHANGED <<kept, now>>
      BY <1>6 DEF Start, LoadFails, LoadToResolve, LoadToStore, LoadToPrune, LookupAnswers,
         LookupFails, Truncate, SaveFails, End, Crash, history
  <2>2. UNCHANGED file \/ (disk' \in {"truncated", "corrupt"} /\ entries' = Blank)
      BY <1>6 DEF Start, LoadFails, LoadToResolve, LoadToStore, LoadToPrune, LookupAnswers,
         LookupFails, Truncate, SaveFails, End, Crash, Torn
  <2>3. disk' # "readable" => entries' = Blank
      BY <1>1, <2>2 DEF LooseInv, file
  <2>4. QED
      BY <1>2, <1>3, <2>1, <2>3 DEF LooseInv
<1>7. ASSUME NEW p \in Process, Write(p) PROVE LooseInv'
  <2> DEFINE mem == task[p].mem
  <2>1. /\ now' = now /\ mem \in Cache /\ Backed(mem, answers, now)
        /\ disk' # "readable" => entries' = Blank
        /\ \/ kept' = kept
           \/ kept' = [d \in Domain |->
                          IF mem[d] = NoEntry THEN kept[d] ELSE Newer(kept[d], mem[d].at + 1)]
      BY <1>2, <1>7 DEF Write, RecentInv, ProcessInv, TypeOK, Task
  <2>2. ASSUME NEW d \in Domain PROVE kept'[d] <= now + 1
    <3>1. CASE kept' = kept \/ mem[d] = NoEntry
        BY <1>3, <2>1, <3>1
    <3>2. CASE kept'[d] = Newer(kept[d], mem[d].at + 1) /\ mem[d] # NoEntry
      <4>1. mem[d].at \in Nat /\ mem[d].at <= now
          BY <2>1, <3>2 DEF Cache, Entry, Time, Backed, BackedBy
      <4>2. QED
          BY <1>2, <1>3, <3>2, <4>1 DEF Newer
    <3>3. QED
        BY <2>1, <3>1, <3>2
  <2>3. QED
      BY <1>2, <2>1, <2>2 DEF LooseInv
<1>8. QED
    BY <1>1, <1>4, <1>5, <1>6, <1>7 DEF Next

(* A live entry of the time t is newer than what was kept until then.      *)
LEMMA LiveKeeps ==
    ASSUME NEW c \in Cache, NEW k \in [Domain -> Nat], Keeps(c, k), NEW d \in Domain,
           NEW ips \in SUBSET Ip, NEW t \in Time, k[d] <= t + 1
    PROVE  Keeps([c EXCEPT ![d] = LiveEntry(ips, t)], k)
<1> DEFINE e == LiveEntry(ips, t)
<1>1. e # NoEntry /\ e.at = t
    BY LiveType DEF LiveEntry
<1> HIDE DEF e
<1>2. \A x \in Domain : [c EXCEPT ![d] = e][x] = IF x = d THEN e ELSE c[x]
    BY DEF Cache
<1>3. QED
    BY <1>1, <1>2, DomainAssumption DEF Keeps, Time, e

(* A live entry is the answer of CacheStore.                               *)
LEMMA LivePuts ==
    ASSUME NEW c \in Cache, NEW d \in Domain, NEW ips \in SUBSET Ip, ips # {}, NEW t \in Time,
           c[d] # NoEntry => c[d].at <= t
    PROVE  Store!Changes(c, [c EXCEPT ![d] = LiveEntry(ips, t)])
<1> DEFINE e == LiveEntry(ips, t)
           m == [c EXCEPT ![d] = e]
<1>1. e # NoEntry /\ e.at = t /\ ~e.error /\ e.ips = ips /\ e.expires = e.at + Ttl
    BY LiveType DEF LiveEntry, Expires
<1> HIDE DEF e
<1>2. m[d] = e
    BY DEF Cache
<1>3. m = [c EXCEPT ![d] = m[d]]
    BY <1>2, Zenon
<1> HIDE DEF m
<1>4. Store!PutsAnswer(c, m)
    BY <1>1, <1>2, <1>3 DEF Store!PutsAnswer
<1>5. QED
    BY <1>4 DEF Store!Changes, m, e

(* A step of p that leaves the file and writes nothing.                    *)
LEMMA QuietStep ==
    ASSUME Orderly, Track, UNCHANGED <<raced, file, kept>>, NEW p \in Process,
           \A q \in Process : q # p => pc'[q] = pc[q] /\ task'[q] = task[q],
           pc[p] # "write", pc'[p] # "write", HandInv(p)'
    PROVE  Orderly' /\ Abstract
<1>1. UNCHANGED <<disk, entries>> /\ Readable' = Readable
    BY DEF file, Readable
<1>2. ASSUME NEW q \in Process, q # p PROVE HandInv(q)'
  <2>1. pc'[q] = pc[q] /\ task'[q] = task[q] /\ HandInv(q)
      BY <1>2 DEF Orderly
  <2>2. HasRead(q) /\ q \notin behind' => q \notin behind
      BY <2>1 DEF Track, HasRead
  <2>3. Store!Changes(entries, task[q].mem) => Store!Changes(entries', task'[q].mem)
      BY <1>1, <2>1
  <2>4. QED
      BY <1>1, <2>1, <2>2, <2>3 DEF HandInv, HasRead
<1>3. Orderly'
    BY <1>1, <1>2 DEF Orderly
<1>4. Writing' = Writing /\ \A q \in Writing : task'[q].mem = task[q].mem
    BY DEF Writing
<1>5. Stored' = Stored /\ IsLost' = IsLost
    BY <1>1, <1>4 DEF Stored, IsLost
<1>6. QED
    BY <1>3, <1>5 DEF Abstract

(* With nothing in hand.                                                   *)
LEMMA EmptyHand == ASSUME NEW p \in Process, pc'[p] \in {"idle", "load", "done"} PROVE HandInv(p)'
BY DEF HandInv

(* With what was out of date.                                              *)
LEMMA BehindHand ==
    ASSUME NEW p \in Process, Track, p \in behind, HasRead(p), pc'[p] = "truncate" PROVE HandInv(p)'
BY DEF HandInv, Track, HasRead

(* With a change of what the file holds.                                   *)
LEMMA ChangeHand ==
    ASSUME NEW p \in Process, UNCHANGED <<file, kept>>, Readable, pc'[p] = "truncate",
           Store!Changes(entries, task'[p].mem), Keeps(task'[p].mem, kept)
    PROVE  HandInv(p)'
<1>1. entries' = entries /\ Readable'
    BY DEF file, Readable
<1>2. Store!Changes(entries', task'[p].mem)
    BY <1>1
<1>3. Keeps(task'[p].mem, kept')
    OBVIOUS
<1>4. QED
    BY <1>1, <1>2, <1>3 DEF HandInv

LEMMA LoadStep ==
    ASSUME LooseInv, Orderly, Track, UNCHANGED raced, NEW p \in Process,
           LoadToResolve(p) \/ LoadToStore(p) \/ LoadToPrune(p)
    PROVE  Orderly' /\ Abstract
<1>1. /\ RecentInv /\ TypeOK /\ Loaded \in Cache /\ Loaded = entries /\ task[p] \in Task
      /\ pc[p] = "load" /\ UNCHANGED <<file, now, kept>> /\ Readable /\ Keeps(entries, kept)
      /\ kept \in [Domain -> Nat] /\ now \in Time
      /\ \A d \in Domain : entries[d] # NoEntry => entries[d].at <= now
      /\ \A d \in Domain : kept[d] <= now + 1
      /\ \A q \in Process : q # p => pc'[q] = pc[q] /\ task'[q] = task[q]
  <2>1. pc[p] = "load" /\ UNCHANGED <<file, now, kept>> /\ Readable
      BY DEF LoadToResolve, LoadToStore, LoadToPrune, history
  <2>2. \A d \in Domain : kept[d] <= now + 1
      BY DEF LooseInv
  <2>3. task[p] \in Task
      BY LooseFacts DEF TypeOK
  <2>4. QED
      BY <2>1, <2>2, <2>3, LooseFacts, FileKeeps, PlaceStep
<1>2. pc'[p] \in {"done", "lookup", "truncate"}
  <2>1. \E l \in {"done", "lookup", "truncate"} : Goto(p, l)
      BY DEF LoadToResolve, LoadToStore, LoadToPrune
  <2>2. QED
      BY <1>1, <2>1, GotoType DEF Place
<1>3. HandInv(p)'
  <2>1. CASE LoadToResolve(p)
    <3>1. PICK d \in task[p].todo :
              \/ pc'[p] = "done"
              \/ task' = [task EXCEPT ![p] =
                    [task[p] EXCEPT !.dom = d, !.todo = @ \ {d}, !.mem = Loaded, !.at = now]]
        BY <1>1, <2>1, GotoType DEF LoadToResolve, Place
    <3> DEFINE t == [task[p] EXCEPT !.dom = d, !.todo = @ \ {d}, !.mem = Loaded, !.at = now]
    <3>2. t.mem = entries /\ t.at = now
        BY <1>1 DEF Task
    <3> HIDE DEF t
    <3>3. pc'[p] # "done" => task'[p] = t
      <4>1. pc'[p] # "done" => task' = [task EXCEPT ![p] = t]
          BY <3>1 DEF t
      <4>2. QED
          BY <1>1, <4>1 DEF TypeOK
    <3>4. pc'[p] \in {"done", "lookup"}
        BY <1>1, <2>1, GotoType DEF LoadToResolve, Place
    <3>5. entries' = entries /\ Readable'
        BY <1>1 DEF file, Readable
    <3>6. QED
        BY <1>1, <3>2, <3>3, <3>4, <3>5 DEF HandInv
  <2>2. CASE LoadToStore(p)
    <3>1. PICK ips \in Replies \ {{}} :
              task' = [task EXCEPT
                 ![p].mem = [Loaded EXCEPT ![task[p].dom] = LiveEntry(ips, now)],
                 ![p].at = now, ![p].ips = ips, ![p].source = "live"]
        BY <2>2 DEF LoadToStore
    <3> DEFINE m == [entries EXCEPT ![task[p].dom] = LiveEntry(ips, now)]
    <3>2. task[p].dom \in Domain /\ ips \in SUBSET Ip /\ ips # {}
        BY <1>1, <2>2, DomainAssumption DEF RecentInv, ProcessInv, LoadToStore
    <3>3. Store!Changes(entries, m) /\ Keeps(m, kept)
        BY <1>1, <3>2, LivePuts, LiveKeeps
    <3>4. task' = [task EXCEPT ![p].mem = m, ![p].at = now, ![p].ips = ips, ![p].source = "live"]
        BY <1>1, <3>1
    <3>5. pc'[p] = "truncate"
        BY <1>1, <2>2, GotoType DEF LoadToStore, Place
    <3> HIDE DEF m
    <3>6. task'[p].mem = m
        BY <1>1, <3>4 DEF TypeOK, Task
    <3>7. QED
        BY <1>1, <3>3, <3>5, <3>6, ChangeHand
  <2>3. CASE LoadToPrune(p)
    <3> DEFINE m == Pruned(Loaded)
    <3>1. Store!Changes(entries, m) /\ Keeps(m, kept)
        BY <1>1, DomainAssumption DEF Store!Changes, Store!Prunes, Pruned, Keeps
    <3>2. task' = [task EXCEPT ![p].mem = m, ![p].at = now] /\ pc'[p] \in {"done", "truncate"}
        BY <1>1, <2>3, GotoType DEF LoadToPrune, Place
    <3> HIDE DEF m
    <3>3. task'[p].mem = m
        BY <1>1, <3>2 DEF TypeOK, Task
    <3>4. CASE pc'[p] = "truncate"
        BY <1>1, <3>1, <3>3, <3>4, ChangeHand
    <3>5. CASE pc'[p] = "done"
        BY <3>5, EmptyHand
    <3>6. QED
        BY <3>2, <3>4, <3>5
  <2>4. QED
      BY <2>1, <2>2, <2>3
<1>4. QED
    BY <1>1, <1>2, <1>3, QuietStep

(* A lookup ends with an answer, or with the failure beside what there was.*)
LEMMA LookupStep ==
    ASSUME LooseInv, Orderly, Track, UNCHANGED raced, NEW p \in Process,
           LookupAnswers(p) \/ LookupFails(p)
    PROVE  Orderly' /\ Abstract
<1> DEFINE d == task[p].dom
           e == entries[d]
<1>1. /\ TypeOK /\ entries \in Cache /\ Loaded = entries /\ kept \in [Domain -> Nat]
      /\ task[p] \in Task /\ task[p].at \in Time
      /\ pc[p] = "lookup" /\ UNCHANGED <<file, kept>> /\ d \in Domain
      /\ \A q \in Process : q # p => pc'[q] = pc[q] /\ task'[q] = task[q]
  <2>1. pc[p] = "lookup" /\ UNCHANGED <<file, kept>>
      BY DEF LookupAnswers, LookupFails, history
  <2>2. task[p] \in Task /\ task[p].at \in Time /\ d \in Domain
      BY <2>1, LooseFacts DEF TypeOK, Task, RecentInv, ProcessInv
  <2>3. QED
      BY <2>1, <2>2, LooseFacts, PlaceStep
<1>2. pc'[p] \in {"truncate", "done", "load"}
  <2>1. \E l \in {"truncate", "done", "load"} : Goto(p, l)
      BY DEF LookupAnswers, LookupFails, NextDomain
  <2>2. QED
      BY <1>1, <2>1, GotoType DEF Place
<1>3. HandInv(p)'
  <2>1. CASE pc'[p] # "truncate"
      BY <1>2, <2>1, EmptyHand
  <2>2. CASE p \in behind /\ pc'[p] = "truncate"
      BY <1>1, <2>2, BehindHand DEF HasRead
  <2>3. CASE p \notin behind /\ pc'[p] = "truncate"
    <3>1. /\ Readable /\ task[p].mem = entries /\ Keeps(entries, kept)
          /\ \A x \in Domain : entries[x] # NoEntry => entries[x].at <= task[p].at
          /\ kept[d] <= task[p].at + 1
      <4>1. HandInv(p)
          BY DEF Orderly
      <4>2. QED
          BY <1>1, <2>3, <4>1, FileKeeps DEF HandInv
    <3>2. CASE LookupAnswers(p)
      <4>1. PICK ips \in Replies \ {{}} :
                task' = [task EXCEPT ![p].mem[d] = LiveEntry(ips, task[p].at),
                                     ![p].ips = ips, ![p].source = "live"]
          BY <3>2 DEF LookupAnswers
      <4> DEFINE n == LiveEntry(ips, task[p].at)
      <4>2. /\ Store!Changes(entries, [entries EXCEPT ![d] = n])
            /\ Keeps([entries EXCEPT ![d] = n], kept)
          BY <1>1, <3>1, LivePuts, LiveKeeps, DomainAssumption
      <4>3. task' = [task EXCEPT ![p].mem[d] = n, ![p].ips = ips, ![p].source = "live"]
          BY <4>1
      <4> HIDE DEF n, d
      <4>4. task'[p].mem = [entries EXCEPT ![d] = n]
          BY <1>1, <3>1, <4>3 DEF TypeOK, Task
      <4>5. QED
          BY <1>1, <2>3, <3>1, <4>2, <4>4, ChangeHand
    <3>3. CASE LookupFails(p) /\ e # NoEntry
      <4>1. PICK s, i :
                task' = [task EXCEPT ![p].mem[d] = [e EXCEPT !.error = TRUE],
                                     ![p].source = s, ![p].ips = i]
          BY <3>1, <3>3, Zenon DEF LookupFails
      <4> DEFINE n == [e EXCEPT !.error = TRUE]
      <4>2. Store!Changes(entries, [entries EXCEPT ![d] = n])
        <5>1. [entries EXCEPT ![d].error = TRUE] = [entries EXCEPT ![d] = n]
            BY <1>1
        <5>2. QED
            BY <1>1, <3>3, <5>1 DEF Store!Changes, Store!FlagsError
      <4>3. n \in Entry /\ n.at = e.at
        <5>1. e \in Entry
            BY <1>1, <3>3 DEF Cache
        <5>2. QED
            BY <5>1 DEF Entry
      <4>4. n # NoEntry
          BY <4>3, DomainAssumption
      <4>5. task' = [task EXCEPT ![p].mem[d] = n, ![p].source = s, ![p].ips = i]
          BY <4>1
      <4> HIDE DEF n
      <4>6. Keeps([entries EXCEPT ![d] = n], kept)
          BY <1>1, <3>1, <4>3, <4>4, DomainAssumption DEF Keeps, Cache
      <4> HIDE DEF d, e
      <4>7. task'[p].mem = [entries EXCEPT ![d] = n]
          BY <1>1, <3>1, <4>5 DEF TypeOK, Task
      <4>8. QED
          BY <1>1, <2>3, <3>1, <4>2, <4>6, <4>7, ChangeHand
    <3>4. CASE LookupFails(p) /\ e = NoEntry
      <4>1. NextDomain(p)
          BY <3>1, <3>4, Zenon DEF LookupFails
      <4>2. pc'[p] \in {"done", "load"}
          BY <1>1, <4>1, GotoType DEF NextDomain, Place
      <4>3. QED
          BY <4>2, EmptyHand
    <3>5. QED
        BY <3>2, <3>3, <3>4
  <2>4. QED
      BY <2>1, <2>2, <2>3
<1>4. QED
    BY <1>1, <1>2, <1>3, QuietStep

(* The program that fills the file is the only one, now and after a step.  *)
Filling(p) ==
    /\ pc[p] = "write" /\ (\A q \in Process : pc[q] = "write" => q = p) =>
          Stored = task[p].mem /\ IsLost = FALSE
    /\ (\A q \in Process : pc[q] # "write") => Stored = entries /\ IsLost = ~Readable

LEMMA FillingNow == \A p \in Process : Filling(p)
<1>1. SUFFICES ASSUME NEW p \in Process PROVE Filling(p)
    OBVIOUS
<1>2. ASSUME pc[p] = "write", \A q \in Process : pc[q] = "write" => q = p
      PROVE  Stored = task[p].mem /\ IsLost = FALSE
  <2>1. Writing = {p}
      BY <1>2 DEF Writing
  <2>2. QED
      BY <2>1 DEF Stored, IsLost
<1>3. ASSUME \A q \in Process : pc[q] # "write" PROVE Stored = entries /\ IsLost = ~Readable
  <2>1. Writing = {}
      BY <1>3 DEF Writing
  <2>2. QED
      BY <2>1 DEF Stored, IsLost
<1>4. QED
    BY <1>2, <1>3 DEF Filling

LEMMA FillingNext == (\A p \in Process : Filling(p))'
BY FillingNow, PTL

(* The truncation is the save: from here on the copy in hand counts, and   *)
(* all others that have read the file are behind.                          *)
LEMMA TruncateStep ==
    ASSUME LooseInv, Orderly, Track, raced = FALSE, raced' = FALSE, NEW p \in Process, Truncate(p)
    PROVE  Orderly' /\ Abstract
<1>1. /\ pc[p] = "truncate" /\ task' = task /\ kept' = kept
      /\ disk' = "truncated" /\ entries' = Blank
      /\ \A q \in Process : q # p => pc'[q] = pc[q]
    BY LooseFacts, PlaceStep DEF Truncate, history
<1>2. pc'[p] = "write"
    BY LooseFacts, GotoType DEF Truncate, Place
<1>3. p \notin behind
    BY <1>1, <1>2 DEF Track
<1>4. Readable /\ Store!Changes(entries, task[p].mem) /\ Keeps(task[p].mem, kept)
    BY <1>1, <1>3 DEF Orderly, HandInv
<1>5. \A q \in Process : pc[q] # "write"
    BY <1>4 DEF Orderly, HandInv, Readable
<1>6. \A q \in Process : pc'[q] = "write" => q = p
    BY <1>1, <1>5
<1>7. file' # file
    BY <1>1, <1>4 DEF file, Readable
<1>8. ASSUME NEW q \in Process PROVE HandInv(q)'
  <2>1. CASE q = p
      BY <1>1, <1>2, <1>4, <2>1 DEF HandInv
  <2>2. CASE q # p
    <3>1. pc'[q] = pc[q] /\ pc'[q] # "write"
        BY <1>1, <1>5, <2>2
    <3>2. HasRead(q) => q \in behind'
        BY <1>7, <3>1 DEF Track, HasRead
    <3>3. QED
        BY <3>1, <3>2 DEF HandInv, HasRead
  <2>3. QED
      BY <2>1, <2>2
<1>9. Orderly'
    BY <1>1, <1>6, <1>8 DEF Orderly
<1>10. Stored = entries /\ IsLost = FALSE
    BY <1>4, <1>5, FillingNow DEF Filling
<1>11. Filling(p)'
    BY FillingNext
<1>12. Stored' = task[p].mem /\ IsLost' = FALSE
    BY <1>1, <1>2, <1>6, <1>11 DEF Filling
<1>13. Store!Changes(Stored, Stored')
    BY <1>4, <1>10, <1>12
<1>14. Store!Save
    BY <1>10, <1>12, <1>13 DEF Store!Save
<1>15. QED
    BY <1>9, <1>14 DEF Abstract, Store!Next

(* The file is as the truncation left it, and nothing mixes.               *)
LEMMA WriteStep ==
    ASSUME LooseInv, Orderly, Track, UNCHANGED raced, NEW p \in Process, Write(p)
    PROVE  Orderly' /\ Abstract
<1> DEFINE mem == task[p].mem
<1>1. /\ pc[p] = "write" /\ task' = task /\ now \in Nat /\ kept \in [Domain -> Nat]
      /\ mem \in Cache /\ Backed(mem, answers, now)
      /\ \A q \in Process : q # p => pc'[q] = pc[q]
  <2>1. task[p] \in Task /\ Backed(mem, answers, now) /\ now \in Nat /\ kept \in [Domain -> Nat]
      BY LooseFacts DEF TypeOK, RecentInv, ProcessInv, Time
  <2>2. QED
      BY <2>1, LooseFacts, PlaceStep DEF Write, Task
<1>2. pc'[p] \in {"done", "load"}
    BY LooseFacts, GotoType DEF Write, NextDomain, Place
<1>3. disk = "truncated" /\ Keeps(mem, kept)
    BY <1>1 DEF Orderly, HandInv
<1>4. /\ disk' = "readable" /\ entries' = mem
      /\ kept' = [d \in Domain |->
                     IF mem[d] = NoEntry THEN kept[d] ELSE Newer(kept[d], mem[d].at + 1)]
    BY <1>3 DEF Write
<1>5. \A q \in Process : pc[q] = "write" => q = p
    BY <1>1 DEF Orderly
<1>6. \A q \in Process : pc'[q] # "write"
    BY <1>1, <1>2, <1>5
<1>7. ASSUME NEW q \in Process PROVE HandInv(q)'
  <2>1. CASE q = p
      BY <1>2, <2>1, EmptyHand
  <2>2. CASE q # p
    <3>1. pc'[q] = pc[q] /\ pc'[q] # "write" /\ file' # file
        BY <1>1, <1>3, <1>4, <1>6, <2>2 DEF file
    <3>2. HasRead(q) => q \in behind'
        BY <3>1 DEF Track, HasRead
    <3>3. QED
        BY <3>1, <3>2 DEF HandInv, HasRead
  <2>3. QED
      BY <2>1, <2>2
<1>8. Keeps(mem, kept')
  <2>1. SUFFICES ASSUME NEW d \in Configured, kept'[d] > 0
                 PROVE  mem[d] # NoEntry /\ mem[d].at + 1 >= kept'[d]
      BY DEF Keeps
  <2>2. d \in Domain /\ kept[d] \in Nat
      BY <1>1, DomainAssumption
  <2>3. mem[d] # NoEntry
      BY <1>3, <1>4, <2>1, <2>2 DEF Keeps
  <2>4. kept'[d] = Newer(kept[d], mem[d].at + 1)
      BY <1>4, <2>2, <2>3
  <2>5. kept[d] > 0 => mem[d].at + 1 >= kept[d]
      BY <1>3 DEF Keeps
  <2>6. mem[d].at \in Nat
      BY <1>1, <2>2, <2>3 DEF Cache, Entry, Time
  <2>7. QED
      BY <2>2, <2>3, <2>4, <2>5, <2>6 DEF Newer
<1>9. Orderly'
    BY <1>4, <1>6, <1>7, <1>8 DEF Orderly
<1>10. Stored = mem /\ IsLost = FALSE
    BY <1>1, <1>5, FillingNow DEF Filling
<1>11. Filling(p)'
    BY FillingNext
<1>12. Stored' = entries' /\ IsLost' = FALSE
    BY <1>4, <1>6, <1>11 DEF Filling, Readable
<1>13. QED
    BY <1>4, <1>9, <1>10, <1>12 DEF Abstract

(* The start of an operation, its end or a failure of it: what it had in   *)
(* hand is lost, and the whole cache if it was filling the file.           *)
LEMMA StopStep ==
    ASSUME LooseInv, Orderly, Track, UNCHANGED raced, NEW p \in Process,
           Start(p) \/ LoadFails(p) \/ SaveFails(p) \/ End(p) \/ Crash(p)
    PROVE  Orderly' /\ Abstract
<1>1. \A q \in Process : q # p => pc'[q] = pc[q] /\ task'[q] = task[q]
    BY LooseFacts, PlaceStep
<1>2. pc'[p] \in {"idle", "load", "done"}
  <2>1. \E l \in {"idle", "load", "done"} : Goto(p, l)
      BY DEF Start, LoadFails, SaveFails, End, Crash, Return
  <2>2. QED
      BY <2>1, LooseFacts, GotoType DEF Place
<1>3. UNCHANGED <<file, kept>>
  <2>1. kept' = kept /\ (UNCHANGED file \/ Torn(p))
      BY DEF Start, LoadFails, SaveFails, End, Crash, history
  <2>2. QED
      BY <2>1 DEF Torn, Orderly, HandInv
<1>4. HandInv(p)'
    BY <1>2, EmptyHand
<1>5. CASE pc[p] # "write"
    BY <1>1, <1>2, <1>3, <1>4, <1>5, QuietStep
<1>6. CASE pc[p] = "write"
  <2>1. \A q \in Process : pc[q] = "write" => q = p
      BY <1>6 DEF Orderly
  <2>2. disk = "truncated" /\ disk' = "truncated" /\ entries' = Blank
      BY <1>3, <1>6 DEF Orderly, HandInv, LooseInv, file
  <2>3. \A q \in Process : pc'[q] # "write"
      BY <1>1, <1>2, <2>1
  <2>4. ASSUME NEW q \in Process, q # p PROVE HandInv(q)'
    <3>1. pc'[q] = pc[q] /\ pc'[q] # "write" /\ HandInv(q)
        BY <1>1, <2>3, <2>4 DEF Orderly
    <3>2. HasRead(q) => q \in behind
        BY <2>2, <3>1 DEF HandInv, HasRead, Readable
    <3>3. HasRead(q) => q \in behind'
        BY <3>1, <3>2 DEF Track, HasRead
    <3>4. QED
        BY <3>1, <3>3 DEF HandInv, HasRead
  <2>5. Orderly'
      BY <1>4, <2>2, <2>3, <2>4 DEF Orderly
  <2>6. IsLost = FALSE
      BY <1>6, <2>1, FillingNow DEF Filling
  <2>7. Filling(p)'
      BY FillingNext
  <2>8. Stored' = Blank /\ IsLost' = TRUE
      BY <2>2, <2>3, <2>7 DEF Filling, Readable
  <2>9. Store!Lose
      BY <2>6, <2>8 DEF Store!Lose, Blank
  <2>10. QED
      BY <2>5, <2>9 DEF Abstract, Store!Next
<1>7. QED
    BY <1>5, <1>6

(* The clock, and nothing at all.                                          *)
LEMMA IdleStep ==
    ASSUME Orderly, UNCHANGED <<file, pc, task, kept, raced>>, Track \/ UNCHANGED behind
    PROVE  Orderly' /\ Abstract
<1>1. UNCHANGED <<disk, entries, pc, task, kept>> /\ Readable' = Readable
    BY DEF file, Readable
<1>2. ASSUME NEW p \in Process PROVE HandInv(p)'
  <2>1. HandInv(p) /\ (HasRead(p) /\ p \notin behind' => p \notin behind)
      BY <1>1 DEF Orderly, Track, HasRead
  <2>2. Store!Changes(entries, task[p].mem) => Store!Changes(entries', task'[p].mem)
      BY <1>1
  <2>3. QED
      BY <1>1, <2>1, <2>2 DEF HandInv, HasRead
<1>3. Orderly'
    BY <1>1, <1>2 DEF Orderly
<1>4. Writing' = Writing
    BY <1>1 DEF Writing
<1>5. Stored' = Stored /\ IsLost' = IsLost
    BY <1>1, <1>4 DEF Stored, IsLost
<1>6. QED
    BY <1>3, <1>5 DEF Abstract

LEMMA InitLoose == Init => LooseInv
<1>1. SUFFICES ASSUME Init PROVE LooseInv
    OBVIOUS
<1>2. /\ RecentInv /\ TypeOK /\ (disk # "readable" => entries = Blank) /\ now \in Nat
      /\ kept = [d \in Domain |-> IF entries[d] = NoEntry THEN 0 ELSE entries[d].at + 1]
    BY <1>1, InitRecent DEF Init, RecentInv, TypeOK, Time
<1>3. ASSUME NEW d \in Domain PROVE kept[d] <= now + 1
  <2>1. CASE entries[d] = NoEntry
      BY <1>2, <2>1
  <2>2. CASE entries[d] # NoEntry
    <3>1. entries[d].at \in Nat /\ entries[d].at <= now
        BY <1>2, <2>2 DEF RecentInv, Backed, BackedBy, TypeOK, Cache, Entry, Time
    <3>2. QED
        BY <1>2, <2>2, <3>1
  <2>3. QED
      BY <2>1, <2>2
<1>4. QED
    BY <1>2, <1>3 DEF LooseInv

LEMMA InitShared == SharedInit => SharedInv /\ Store!Init
<1>1. SUFFICES ASSUME SharedInit PROVE SharedInv /\ Store!Init
    OBVIOUS
<1>2. /\ LooseInv /\ entries \in Cache /\ Readable /\ raced = FALSE
      /\ \A p \in Process : pc[p] = "idle"
      /\ disk = "absent" => entries = Blank
      /\ kept = [d \in Domain |-> IF entries[d] = NoEntry THEN 0 ELSE entries[d].at + 1]
    BY <1>1, InitLoose, LooseFacts DEF SharedInit, Init, Readable
<1>3. disk = "absent" => \A d \in Domain : kept[d] = 0
    BY <1>2 DEF Blank
<1>4. Keeps(entries, kept)
  <2>1. SUFFICES ASSUME NEW d \in Configured, kept[d] > 0
                 PROVE  entries[d] # NoEntry /\ entries[d].at + 1 >= kept[d]
      BY DEF Keeps
  <2>2. d \in Domain /\ entries[d] # NoEntry
      BY <1>2, <2>1, DomainAssumption
  <2>3. entries[d].at \in Nat
      BY <1>2, <2>2 DEF Cache, Entry, Time
  <2>4. QED
      BY <1>2, <2>2, <2>3
<1>5. SharedInv
    BY <1>2, <1>3, <1>4 DEF SharedInv, Orderly, HandInv
<1>6. Writing = {}
    BY <1>2 DEF Writing
<1>7. Stored = entries /\ IsLost = FALSE
    BY <1>2, <1>6 DEF Stored, IsLost
<1>8. Store!Init
    BY <1>2, <1>7 DEF Store!Init, Cache
<1>9. QED
    BY <1>5, <1>8

LEMMA NextShared == SharedInv /\ [SharedNext]_sharedVars => SharedInv' /\ Abstract
<1>1. SUFFICES ASSUME SharedInv, [SharedNext]_sharedVars PROVE SharedInv' /\ Abstract
    OBVIOUS
<1>2. LooseInv /\ LooseInv' /\ raced \in BOOLEAN /\ raced' \in BOOLEAN /\ (raced => raced')
  <2>1. [Next]_vars
      BY <1>1 DEF SharedNext, sharedVars
  <2>2. QED
      BY <1>1, <2>1, NextLoose DEF SharedInv, SharedNext, Track, sharedVars
<1>3. CASE raced'
  <2>1. raced' = TRUE
      BY <1>2, <1>3
  <2>2. Store!Race
      BY <2>1 DEF Store!Race
  <2>3. QED
      BY <1>2, <1>3, <2>2 DEF SharedInv, Abstract, Store!Next
<1>4. CASE ~raced'
  <2>1. Orderly /\ raced = FALSE /\ raced' = FALSE
      BY <1>1, <1>2, <1>4 DEF SharedInv
  <2>2. CASE UNCHANGED sharedVars
    <3>1. Orderly' /\ Abstract
        BY <2>1, <2>2, IdleStep DEF sharedVars, vars, history
    <3>2. QED
        BY <1>2, <3>1 DEF SharedInv
  <2>3. CASE Track /\ Tick
    <3>1. Orderly' /\ Abstract
        BY <2>1, <2>3, IdleStep DEF Tick, history
    <3>2. QED
        BY <1>2, <3>1 DEF SharedInv
  <2>4. ASSUME Track, NEW p \in Process,
               \/ Start(p) \/ LoadFails(p) \/ LoadToResolve(p) \/ LoadToStore(p)
               \/ LoadToPrune(p) \/ LookupAnswers(p) \/ LookupFails(p)
               \/ Truncate(p) \/ Write(p) \/ SaveFails(p) \/ End(p) \/ Crash(p)
        PROVE  SharedInv' /\ Abstract
    <3>1. UNCHANGED raced
        BY <2>1
    <3>2. Orderly' /\ Abstract
        BY <1>2, <2>1, <2>4, <3>1, LoadStep, LookupStep, TruncateStep, WriteStep, StopStep
    <3>3. QED
        BY <1>2, <3>2 DEF SharedInv
  <2>5. QED
      BY <1>1, <2>2, <2>3, <2>4 DEF SharedNext, Next
<1>5. QED
    BY <1>2, <1>3, <1>4

(* README.md:105 and dns_cache.rs:46-171.  However the programs interleave,*)
(* and whichever of them fail or are killed while they save: no save       *)
(* undoes a newer one for the domain of a policy, unless a program has     *)
(* written back a copy that it had read before another one's save.         *)
THEOREM NothingElseUndoes == SharedSpec => []OnlyRacesUndo
<1>1. SharedInv => OnlyRacesUndo
    BY DEF SharedInv, Orderly, OnlyRacesUndo, UpdatesKept, Keeps
<1>2. QED
    BY InitShared, NextShared, <1>1, PTL DEF SharedSpec

(* dns_cache.rs:46-250.  Until then, and however an operation ends:        *)
(* loading the cache, waiting for a lookup, truncating the file and        *)
(* writing it change one entry of the cache as it is then, or drop those   *)
(* no policy names, and nothing but a failed save loses anything.          *)
THEOREM CacheImplementsStore == SharedSpec => SavesAreAtomic
<1>1. SharedInv /\ [SharedNext]_sharedVars => SharedInv' /\ [Store!Next]_<<Stored, IsLost, raced>>
    BY NextShared DEF Abstract
<1>2. QED
    BY InitShared, <1>1, PTL DEF SharedSpec, SavesAreAtomic, Store!Spec
=============================================================================
