------------------------- MODULE StatusReport_proofs -------------------------
(***************************************************************************)
(* Proofs about StatusReport: its type invariant, and that a report with   *)
(* an address "[nft: OK]" also says "(OK)" of the ip rule of its mark, for *)
(* any number of statuses beside any number of reconciles.                 *)
(***************************************************************************)
EXTENDS StatusReport, Reconcile_proofs

Place == {"off", "table", "chain", "text", "rules", "egress", "policy", "shown"}

-----------------------------------------------------------------------------
(* The type invariant.                                                     *)

LEMMA BlankType ==
    ASSUME NEW c \in Config, NEW l \in Place PROVE Blank(c, l) \in View
<1>1. [s \in State |-> {}] \in [State -> SUBSET Egress]
    OBVIOUS
<1>2. <<>> \in Seq(Rule)
    BY EmptyType
<1>3. QED
    BY <1>1, <1>2 DEF Blank, View, Place

LEMMA EgressShown ==
    ASSUME NEW w \in View, NEW i \in Nat \ {0},
           NEW t \in SUBSET Egress, NEW f \in SUBSET Egress, NEW d \in SUBSET Egress
    PROVE  [w EXCEPT !.idx = i, !.table = t, !.fwmark = f, !.dropped = d] \in View
BY DEF View

LEMMA EgressesShown ==
    ASSUME NEW w \in View
    PROVE  [w EXCEPT !.at = "policy", !.idx = 1, !.rules = {}] \in View
<1>1. 1 \in Nat \ {0} /\ {} \in SUBSET Egress
    OBVIOUS
<1>2. \A i \in Nat \ {0}, f \in SUBSET Egress :
          [w EXCEPT !.at = "policy", !.idx = i, !.rules = f] \in View
    BY DEF View
<1>3. QED
    BY <1>1, <1>2

LEMMA PolicyShown ==
    ASSUME NEW w \in View, NEW i \in Nat \ {0}, NEW a \in [State -> SUBSET Egress]
    PROVE  [w EXCEPT !.idx = i, !.address = a] \in View
BY DEF View

LEMMA ShowType ==
    ASSUME ViewOK, NEW v \in Viewers, NEW r \in View, Show(v, r)
    PROVE  ViewOK' /\ view'[v] = r /\ \A u \in Viewers : u # v => view'[u] = view[u]
BY DEF ViewOK, Show

LEMMA StatusStepType ==
    ASSUME TypeOK, ViewOK, NEW v \in Viewers, StatusStep(v) PROVE ViewOK'
<1>1. view[v] \in View /\ file \in Config
    BY DEF ViewOK, TypeOK, WorldOK
<1>2. CASE StartStatus(v) \/ EndStatus(v)
    BY <1>1, <1>2, BlankType, ShowType DEF StartStatus, EndStatus, Place
<1>3. CASE ProbeTable(v) \/ ProbeChain(v)
    BY <1>1, <1>3, ShowType DEF ProbeTable, ProbeChain, View
<1>4. CASE ListChain(v)
  <2>1. chain \in Seq(Rule) /\ <<>> \in Seq(Rule)
      BY EmptyType DEF TypeOK, KernelOK
  <2>2. QED
      BY <1>1, <1>4, <2>1, ShowType DEF ListChain, View
<1>5. CASE ListIpRules(v)
  <2>1. ipRules \subseteq Egress
      BY DEF TypeOK, KernelOK
  <2>2. QED
      BY <1>1, <1>5, <2>1, ShowType DEF ListIpRules, View
<1>6. CASE ShowEgress(v)
  <2> DEFINE i == view[v].idx
             es == Listed[view[v].conf]
             t == IF NoRoute(es[i]) THEN view[v].table ELSE view[v].table \cup {es[i]}
             f == Marked(v, es[i])
             d == IF routes[es[i]] = Dropped THEN view[v].dropped \cup {es[i]}
                  ELSE view[v].dropped
  <2>1. \/ /\ i <= Len(es)
           /\ Show(v, [view[v] EXCEPT !.idx = i + 1, !.table = t, !.fwmark = f, !.dropped = d])
        \/ Show(v, [view[v] EXCEPT !.at = "policy", !.idx = 1, !.rules = {}])
      BY <1>6, Zenon DEF ShowEgress
  <2>2. es \in Seq(Egress) /\ i \in Nat \ {0}
      BY <1>1, ConfigAssumption DEF View
  <2>3. i + 1 \in Nat \ {0} /\ (i <= Len(es) => es[i] \in Egress)
      BY <2>2
  <2>4. /\ view[v].table \subseteq Egress /\ view[v].fwmark \subseteq Egress
        /\ view[v].dropped \subseteq Egress
      BY <1>1 DEF View
  <2>5. i <= Len(es) => t \in SUBSET Egress /\ f \in SUBSET Egress /\ d \in SUBSET Egress
      BY <2>3, <2>4 DEF Marked
  <2> HIDE DEF t, f, d, i, es
  <2>6. QED
      BY <1>1, <2>1, <2>3, <2>5, EgressShown, EgressesShown, ShowType
<1>7. CASE ShowPolicy(v)
  <2>1. CASE Show(v, [view[v] EXCEPT !.at = "shown"])
      BY <1>1, <2>1, ShowType DEF View
  <2>2. CASE /\ view[v].idx <= Len(Asked[view[v].conf])
              /\ \E ds \in Yields[Asked[view[v].conf][view[v].idx]] \cup {<<>>} : ShowAddresses(v, ds)
    <3> DEFINE e == EgressOf[Asked[view[v].conf][view[v].idx]]
    <3>1. PICK ds \in Yields[Asked[view[v].conf][view[v].idx]] \cup {<<>>} : ShowAddresses(v, ds)
        BY <2>2
    <3> DEFINE a == [s \in State |-> view[v].address[s] \cup
                       {x \in {e} : \E d \in RangeOf(ds) : RuleState(v, d, x) = s}]
    <3>2. Asked[view[v].conf] \in Seq(Policy) /\ view[v].idx \in Nat \ {0}
        BY <1>1, ViewAssumption DEF View
    <3>3. e \in Egress
        BY <2>2, <3>2, ConfigAssumption
    <3>4. Show(v, [view[v] EXCEPT !.idx = view[v].idx + 1, !.address = a])
        BY <3>1, Zenon DEF ShowAddresses
    <3>5. view[v].address \in [State -> SUBSET Egress]
        BY <1>1 DEF View
    <3> HIDE DEF e
    <3>6. a \in [State -> SUBSET Egress]
        BY <3>3, <3>5
    <3> HIDE DEF a
    <3>7. view[v].idx + 1 \in Nat \ {0}
        BY <3>2
    <3>8. QED
        BY <1>1, <3>4, <3>6, <3>7, PolicyShown, ShowType
  <2>3. QED
      BY <1>7, <2>1, <2>2, Zenon DEF ShowPolicy
<1>8. CASE ReadFails(v)
  <2> DEFINE i == view[v].idx
             f == Marked(v, Listed[view[v].conf][i])
  <2>1. CASE /\ view[v].at = "egress" /\ i <= Len(Listed[view[v].conf])
             /\ view' = [view EXCEPT ![v].idx = i + 1, ![v].stayed = FALSE, ![v].fwmark = f]
    <3>1. i \in Nat \ {0} /\ Listed[view[v].conf] \in Seq(Egress)
        BY <1>1, ConfigAssumption DEF View
    <3>2. view[v].fwmark \subseteq Egress
        BY <1>1 DEF View
    <3>3. i + 1 \in Nat \ {0} /\ f \in SUBSET Egress
        BY <2>1, <3>1, <3>2 DEF Marked
    <3> HIDE DEF f, i
    <3>4. QED
        BY <1>1, <2>1, <3>3 DEF ViewOK, View
  <2>2. CASE /\ view[v].at \in {"chain", "text", "rules"}
             /\ view' = [view EXCEPT ![v].at = IF @ = "rules" THEN "egress" ELSE "rules",
                                     ![v].stayed = FALSE]
      BY <1>1, <2>2 DEF ViewOK, View
  <2>3. QED
      BY <1>8, <2>1, <2>2 DEF ReadFails
<1>9. QED
    BY <1>2, <1>3, <1>4, <1>5, <1>6, <1>7, <1>8 DEF StatusStep

LEMMA ElsewhereType ==
    ASSUME ViewOK, Elsewhere PROVE ViewOK'
<1>1. ASSUME NEW v \in Viewers PROVE view'[v] \in View
  <2> DEFINE b == view[v].stayed /\ ipRules \subseteq ipRules' /\ (nft = "chain" => nft' = "chain")
  <2>1. view[v] \in View /\ view'[v] = [view[v] EXCEPT !.stayed = b] /\ b \in BOOLEAN
      BY DEF ViewOK, Elsewhere
  <2> HIDE DEF b
  <2>2. QED
      BY <2>1 DEF View
<1>2. QED
    BY <1>1 DEF ViewOK, Elsewhere

-----------------------------------------------------------------------------
(* The invariants of Reconcile hold beside the statuses, which only read.  *)

LEMMA StatusOnlyReads ==
    ASSUME TypeOK, NEW v \in Viewers, StatusStep(v)
    PROVE  UNCHANGED <<kernel, up, host, file, process>> /\ events' \in 0..MaxEvents
<1>1. CASE ReadFails(v)
    BY <1>1, EventType DEF ReadFails
<1>2. CASE ~ReadFails(v)
  <2>1. UNCHANGED vars
      BY <1>2 DEF StatusStep, StartStatus, ProbeTable, ProbeChain, ListChain, ListIpRules,
         ShowEgress, ShowAddresses, ShowPolicy, EndStatus, Show
  <2>2. QED
      BY <2>1 DEF vars, world, TypeOK, WorldOK
<1>3. QED
    BY <1>1, <1>2

LEMMA OthersUntouched ==
    ASSUME ViewOK, NEW v \in Viewers, StatusStep(v), NEW u \in Viewers, u # v
    PROVE  view'[u] = view[u]
<1>1. (\E r : Show(v, r)) => view'[u] = view[u]
    BY DEF ViewOK, Show
<1>2. ~ReadFails(v) => \E r : Show(v, r)
    BY Zenon DEF StatusStep, StartStatus, ProbeTable, ProbeChain, ListChain, ListIpRules,
       ShowEgress, ShowAddresses, ShowPolicy, EndStatus
<1>3. ReadFails(v) => view'[u] = view[u]
    BY DEF ViewOK, ReadFails
<1>4. QED
    BY <1>1, <1>2, <1>3

LEMMA ReadingKeeps ==
    ASSUME UNCHANGED <<kernel, up, host, file, process>>, events' \in 0..MaxEvents
    PROVE  (LocalInv => LocalInv') /\ (MarkInv => MarkInv')
<1>1. LocalInv => LocalInv'
  <2>1. ASSUME LocalInv PROVE KernelOK' /\ WorldOK'
      BY <2>1, KernelSame DEF LocalInv, TypeOK, WorldOK
  <2>2. QED
      BY <2>1, ProcessSame
<1>2. MarkInv => MarkInv'
    BY <1>1 DEF MarkInv, Alone, StaysEmpty, MarkHasRule, RuleOK, Healthy, kernel, process
<1>3. QED
    BY <1>1, <1>2

TypesInv == LocalInv /\ ViewOK

LEMMA InitTypes == StatusInit => TypesInv
<1>1. SUFFICES ASSUME StatusInit PROVE TypesInv
    OBVIOUS
<1>2. LocalInv /\ file \in Config
    BY <1>1, InitLocal DEF StatusInit, LocalInv, TypeOK, WorldOK
<1>3. Blank(file, "off") \in View
    BY <1>2, BlankType DEF Place
<1>4. QED
    BY <1>1, <1>2, <1>3 DEF StatusInit, ViewOK, TypesInv

LEMMA NextTypes == TypesInv /\ [StatusNext]_viewVars => TypesInv'
<1>1. SUFFICES ASSUME TypesInv, [StatusNext]_viewVars PROVE TypesInv'
    OBVIOUS
<1>2. CASE UNCHANGED viewVars
    BY <1>1, <1>2, NextLocal DEF TypesInv, viewVars, ViewOK
<1>3. CASE Elsewhere
    BY <1>1, <1>3, NextLocal, ElsewhereType DEF TypesInv, Elsewhere
<1>4. ASSUME NEW v \in Viewers, StatusStep(v) PROVE TypesInv'
    BY <1>1, <1>4, StatusOnlyReads, ReadingKeeps, StatusStepType DEF TypesInv, LocalInv
<1>5. QED
    BY <1>1, <1>2, <1>3, <1>4 DEF StatusNext

(* status.rs:21-55.  Whatever happens beside it, a status goes through its *)
(* steps with positions inside the lists of its configuration and egresses *)
(* of this host only.                                                      *)
THEOREM ReportTypes == StatusSpec => []ViewOK
<1>1. TypesInv => ViewOK
    BY DEF TypesInv
<1>2. QED
    BY <1>1, InitTypes, NextTypes, PTL DEF StatusSpec

-----------------------------------------------------------------------------
(* What a status whose readings have stayed knows of the marks of the      *)
(* lines it holds: they have ip rules; then, they are in its listing of    *)
(* the rules; then, "(OK)" was printed for those of its egresses.          *)
MarksIn(v, S) == \A i \in DOMAIN view[v].lines : view[v].lines[i].mark \in S

Chosen(v) == RangeOf(Listed[view[v].conf])

EgressesShownTo(v, n) ==
    \A j \in DOMAIN Listed[view[v].conf] :
        j < n /\ Listed[view[v].conf][j] \in view[v].rules
        => Listed[view[v].conf][j] \in view[v].fwmark

HasRule(v) ==
    /\ view[v].at \in {"off", "table", "chain"} => view[v].lines = <<>>
    /\ view[v].at \in {"off", "table", "chain", "text", "rules"} => view[v].idx = 1
    /\ view[v].at \notin {"policy", "shown"} => view[v].address["OK"] = {}
    /\ view[v].stayed =>
          /\ view[v].at = "rules" => MarksIn(v, ipRules)
          /\ view[v].at = "egress" =>
                MarksIn(v, view[v].rules) /\ EgressesShownTo(v, view[v].idx)
          /\ view[v].at \in {"policy", "shown"} =>
                /\ \A i \in DOMAIN view[v].lines :
                      view[v].lines[i].mark \in Chosen(v) =>
                         view[v].lines[i].mark \in view[v].fwmark
                /\ view[v].address["OK"] \cap Chosen(v) \subseteq view[v].fwmark

RuleInv == MarkInv /\ ViewOK /\ \A v \in Viewers : HasRule(v)

LEMMA StartShows ==
    ASSUME RuleInv, NEW v \in Viewers, StartStatus(v) \/ EndStatus(v)
    PROVE  HasRule(v)'
<1>1. PICK c \in Config, l \in {"off", "table"} : Show(v, Blank(c, l))
    BY DEF StartStatus, EndStatus, RuleInv, MarkInv, LocalInv, TypeOK, WorldOK
<1>2. view'[v] = Blank(c, l)
    BY <1>1 DEF RuleInv, ViewOK, Show
<1>3. /\ view'[v].at = l /\ view'[v].lines = <<>>
      /\ view'[v].address = [s \in State |-> {}] /\ view'[v].idx = 1
    BY <1>2 DEF Blank
<1>4. QED
    BY <1>3 DEF HasRule, State

LEMMA ProbeShows ==
    ASSUME RuleInv, NEW v \in Viewers, ProbeTable(v) \/ ProbeChain(v)
    PROVE  HasRule(v)'
<1>1. view[v].at \in {"table", "chain"}
    BY DEF ProbeTable, ProbeChain
<1>2. /\ view'[v].at \in {"chain", "text", "rules"}
      /\ view'[v].lines = view[v].lines /\ view'[v].address = view[v].address
      /\ view'[v].idx = view[v].idx
  <2>1. CASE ProbeTable(v)
      BY <2>1 DEF RuleInv, ViewOK, ProbeTable, Show, View
  <2>2. CASE ProbeChain(v)
      BY <2>2 DEF RuleInv, ViewOK, ProbeChain, Show, View
  <2>3. QED
      BY <2>1, <2>2
<1>3. view[v].lines = <<>> /\ view[v].address["OK"] = {} /\ view[v].idx = 1
    BY <1>1 DEF RuleInv, HasRule
<1>4. QED
    BY <1>2, <1>3 DEF HasRule, MarksIn

(* The chain has marks with ip rules only.                                 *)
LEMMA ListChainShows ==
    ASSUME RuleInv, NEW v \in Viewers, ListChain(v) PROVE HasRule(v)'
<1>1. /\ view[v].at = "text" /\ view'[v].at = "rules" /\ ipRules' = ipRules
      /\ view'[v].lines = chain \/ view'[v].lines = <<>>
      /\ view'[v].address = view[v].address /\ view'[v].idx = view[v].idx
    BY DEF RuleInv, ViewOK, ListChain, Show, View, vars, kernel
<1>2. view[v].address["OK"] = {} /\ view[v].idx = 1
    BY <1>1 DEF RuleInv, HasRule
<1>3. MarksIn(v, ipRules)'
    BY <1>1 DEF RuleInv, MarkInv, MarkHasRule, MarksIn
<1>4. QED
    BY <1>1, <1>2, <1>3 DEF HasRule

LEMMA ListIpRulesShows ==
    ASSUME RuleInv, NEW v \in Viewers, ListIpRules(v) PROVE HasRule(v)'
<1>1. /\ view[v].at = "rules" /\ view'[v].at = "egress" /\ view'[v].rules = ipRules
      /\ view'[v].lines = view[v].lines /\ view'[v].address = view[v].address
      /\ view'[v].idx = view[v].idx /\ view'[v].stayed = view[v].stayed
      /\ view'[v].conf = view[v].conf /\ view'[v].fwmark = view[v].fwmark
    BY DEF RuleInv, ViewOK, ListIpRules, Show, View
<1>2. /\ view[v].address["OK"] = {} /\ view[v].idx = 1
      /\ view[v].stayed => MarksIn(v, ipRules)
    BY <1>1 DEF RuleInv, HasRule
<1>3. Listed[view[v].conf] \in Seq(Egress)
    BY ConfigAssumption DEF RuleInv, ViewOK, View
<1>4. EgressesShownTo(v, view[v].idx)'
    BY <1>1, <1>2, <1>3 DEF EgressesShownTo
<1>5. view[v].stayed => MarksIn(v, view[v].rules)'
    BY <1>1, <1>2 DEF MarksIn
<1>6. QED
    BY <1>1, <1>2, <1>4, <1>5 DEF HasRule

(* The rule is looked for among those listed, exactly.                     *)
LEMMA ShowEgressShows ==
    ASSUME MarksApart, RuleInv, NEW v \in Viewers, ShowEgress(v) PROVE HasRule(v)'
<1> DEFINE es == Listed[view[v].conf]
           i  == view[v].idx
<1>1. /\ view[v] \in View /\ view[v].at = "egress" /\ view[v].address["OK"] = {}
      /\ view[v].stayed => MarksIn(v, view[v].rules) /\ EgressesShownTo(v, i)
      /\ es \in Seq(Egress) /\ i \in Nat /\ view[v].rules \subseteq Egress
    BY ConfigAssumption DEF RuleInv, HasRule, ViewOK, View, ShowEgress
<1>2. CASE i <= Len(es)
  <2> DEFINE t == IF NoRoute(es[i]) THEN view[v].table ELSE view[v].table \cup {es[i]}
             m == Marked(v, es[i])
             d == IF routes[es[i]] = Dropped THEN view[v].dropped \cup {es[i]}
                  ELSE view[v].dropped
  <2>1. Show(v, [view[v] EXCEPT !.idx = i + 1, !.table = t, !.fwmark = m, !.dropped = d])
    <3>1. ~(i > Len(es))
        BY <1>1, <1>2
    <3>2. QED
        BY <3>1, Zenon DEF ShowEgress
  <2>2. es[i] \in view[v].rules => es[i] \in m
      BY <1>1, <1>2 DEF MarksApart, ExactListing, Marked
  <2>3. view[v].fwmark \subseteq m
      BY DEF Marked
  <2> HIDE DEF t, m, d
  <2>4. /\ view'[v].at = "egress" /\ view'[v].idx = i + 1 /\ view'[v].fwmark = m
        /\ view'[v].conf = view[v].conf /\ view'[v].rules = view[v].rules
        /\ view'[v].lines = view[v].lines /\ view'[v].address = view[v].address
        /\ view'[v].stayed = view[v].stayed
      BY <1>1, <2>1 DEF RuleInv, ViewOK, View, Show
  <2>5. view[v].stayed => EgressesShownTo(v, view[v].idx)'
    <3>1. SUFFICES ASSUME view[v].stayed, NEW j \in DOMAIN es, j < i + 1, es[j] \in view[v].rules
                   PROVE  es[j] \in m
        BY <2>4 DEF EgressesShownTo
    <3>2. j \in Nat /\ (j < i \/ j = i)
        BY <1>1, <3>1
    <3>3. QED
        BY <1>1, <2>2, <2>3, <3>1, <3>2 DEF EgressesShownTo
  <2>6. view[v].stayed => MarksIn(v, view[v].rules)'
      BY <1>1, <2>4 DEF MarksIn
  <2>7. QED
      BY <1>1, <2>4, <2>5, <2>6 DEF HasRule
<1>3. CASE i > Len(es)
  <2>1. Show(v, [view[v] EXCEPT !.at = "policy", !.idx = 1, !.rules = {}])
    <3>1. ~(i <= Len(es))
        BY <1>1, <1>3
    <3>2. QED
        BY <3>1, Zenon DEF ShowEgress
  <2>2. /\ view'[v].at = "policy" /\ view'[v].fwmark = view[v].fwmark
        /\ view'[v].conf = view[v].conf /\ view'[v].lines = view[v].lines
        /\ view'[v].address = view[v].address /\ view'[v].stayed = view[v].stayed
      BY <1>1, <2>1 DEF RuleInv, ViewOK, View, Show
  <2>3. ASSUME view[v].stayed, NEW k \in DOMAIN view[v].lines,
               view[v].lines[k].mark \in Chosen(v)
        PROVE  view[v].lines[k].mark \in view[v].fwmark
    <3>1. PICK j \in DOMAIN es : es[j] = view[v].lines[k].mark
        BY <2>3 DEF Chosen, RangeOf
    <3>2. j < i
        BY <1>1, <1>3
    <3>3. QED
        BY <1>1, <2>3, <3>1, <3>2 DEF MarksIn, EgressesShownTo
  <2>4. QED
      BY <1>1, <2>2, <2>3 DEF HasRule, Chosen
<1>4. QED
    BY <1>1, <1>2, <1>3

(* An address printed "OK" has a line with the mark of its own egress.     *)
LEMMA ShowPolicyShows ==
    ASSUME MarksApart, RuleInv, NEW v \in Viewers, ShowPolicy(v) PROVE HasRule(v)'
<1>1. view[v] \in View /\ view[v].at = "policy"
    BY DEF RuleInv, ViewOK, ShowPolicy
<1>2. view[v].stayed =>
          /\ \A i \in DOMAIN view[v].lines :
                view[v].lines[i].mark \in Chosen(v) => view[v].lines[i].mark \in view[v].fwmark
          /\ view[v].address["OK"] \cap Chosen(v) \subseteq view[v].fwmark
    BY <1>1 DEF RuleInv, HasRule
<1>3. CASE Show(v, [view[v] EXCEPT !.at = "shown"])
  <2>1. /\ view'[v].at = "shown" /\ view'[v].fwmark = view[v].fwmark
        /\ view'[v].conf = view[v].conf /\ view'[v].lines = view[v].lines
        /\ view'[v].address = view[v].address /\ view'[v].stayed = view[v].stayed
      BY <1>1, <1>3 DEF RuleInv, ViewOK, View, Show
  <2>2. QED
      BY <1>2, <2>1 DEF HasRule, Chosen
<1>4. CASE \E ds \in Yields[Asked[view[v].conf][view[v].idx]] \cup {<<>>} : ShowAddresses(v, ds)
  <2> DEFINE e == EgressOf[Asked[view[v].conf][view[v].idx]]
  <2>1. PICK ds \in Yields[Asked[view[v].conf][view[v].idx]] \cup {<<>>} : ShowAddresses(v, ds)
      BY <1>4
  <2> DEFINE a == [s \in State |-> view[v].address[s] \cup
                     {x \in {e} : \E d \in RangeOf(ds) : RuleState(v, d, x) = s}]
  <2>2. Show(v, [view[v] EXCEPT !.idx = view[v].idx + 1, !.address = a])
      BY <2>1, Zenon DEF ShowAddresses
  <2>3. a["OK"] = view[v].address["OK"] \cup
                    {x \in {e} : \E d \in RangeOf(ds) : RuleState(v, d, x) = "OK"}
      BY DEF State
  <2> HIDE DEF a, e
  <2>4. /\ view'[v].at = "policy" /\ view'[v].fwmark = view[v].fwmark
        /\ view'[v].conf = view[v].conf /\ view'[v].lines = view[v].lines
        /\ view'[v].address = a /\ view'[v].stayed = view[v].stayed
      BY <1>1, <2>2 DEF RuleInv, ViewOK, View, Show
  <2>5. ASSUME view[v].stayed, NEW x \in a["OK"], x \in Chosen(v)
        PROVE  x \in view[v].fwmark
    <3>1. CASE x \in view[v].address["OK"]
        BY <1>2, <2>5, <3>1
    <3>2. CASE \E d \in RangeOf(ds) : RuleState(v, d, x) = "OK"
      <4>1. PICK d \in RangeOf(ds), k \in DOMAIN view[v].lines :
               <<d, x, view[v].lines[k].dest, view[v].lines[k].mark>> \in LineShows
          BY <3>2 DEF RuleState
      <4>2. view[v].lines[k].mark = x
          BY <4>1 DEF MarksApart
      <4>3. QED
          BY <1>2, <2>5, <4>2
    <3>3. QED
        BY <2>3, <2>5, <3>1, <3>2
  <2>6. QED
      BY <1>2, <2>4, <2>5 DEF HasRule, Chosen
<1>5. QED
    BY <1>3, <1>4 DEF ShowPolicy

(* A reading that failed is not one that stayed.                           *)
LEMMA ReadFailsShows ==
    ASSUME RuleInv, NEW v \in Viewers, ReadFails(v) PROVE HasRule(v)'
<1>1. view[v] \in View
    BY DEF RuleInv, ViewOK
<1>2. /\ ~view'[v].stayed /\ view'[v].address = view[v].address
      /\ \/ /\ view[v].at \in {"chain", "text", "rules"} /\ view'[v].idx = view[v].idx
            /\ view'[v].at \in {"rules", "egress"}
         \/ view[v].at = "egress" /\ view'[v].at = "egress"
    BY <1>1 DEF RuleInv, ViewOK, View, ReadFails
<1>3. view[v].address["OK"] = {} /\ (view[v].at # "egress" => view[v].idx = 1)
    BY <1>2 DEF RuleInv, HasRule
<1>4. QED
    BY <1>2, <1>3 DEF HasRule

LEMMA StatusStepShows ==
    ASSUME MarksApart, RuleInv, NEW v \in Viewers, StatusStep(v)
    PROVE  \A u \in Viewers : HasRule(u)'
<1>1. HasRule(v)'
    BY StartShows, ProbeShows, ListChainShows, ListIpRulesShows, ShowEgressShows,
       ShowPolicyShows, ReadFailsShows
    DEF StatusStep
<1>2. ASSUME NEW u \in Viewers, u # v PROVE HasRule(u)'
  <2>1. ipRules' = ipRules
      BY StatusOnlyReads DEF RuleInv, MarkInv, LocalInv, kernel
  <2>2. view'[u] = view[u]
      BY <1>2, OthersUntouched DEF RuleInv
  <2>3. QED
      BY <2>1, <2>2 DEF RuleInv, HasRule, MarksIn, EgressesShownTo, Chosen
<1>3. QED
    BY <1>1, <1>2

(* What the others do; if an ip rule goes, the readings have not stayed.   *)
LEMMA ElsewhereShows ==
    ASSUME RuleInv, Elsewhere PROVE \A v \in Viewers : HasRule(v)'
<1>1. SUFFICES ASSUME NEW v \in Viewers PROVE HasRule(v)'
    OBVIOUS
<1>2. /\ view'[v].at = view[v].at /\ view'[v].lines = view[v].lines
      /\ view'[v].conf = view[v].conf /\ view'[v].rules = view[v].rules
      /\ view'[v].idx = view[v].idx /\ view'[v].fwmark = view[v].fwmark
      /\ view'[v].address = view[v].address
      /\ view'[v].stayed => view[v].stayed /\ ipRules \subseteq ipRules'
    BY DEF RuleInv, ViewOK, View, Elsewhere
<1>3. QED
    BY <1>2 DEF RuleInv, HasRule, MarksIn, EgressesShownTo, Chosen

LEMMA InitRule == StatusInit => RuleInv
<1>1. SUFFICES ASSUME StatusInit PROVE RuleInv
    OBVIOUS
<1>2. MarkInv /\ ViewOK
    BY <1>1, InitTypes, InitMarks DEF StatusInit, TypesInv
<1>3. ASSUME NEW v \in Viewers PROVE HasRule(v)
  <2>1. view[v] = Blank(file, "off")
      BY <1>1 DEF StatusInit
  <2>2. /\ view[v].at = "off" /\ view[v].lines = <<>> /\ view[v].idx = 1
        /\ view[v].address = [s \in State |-> {}]
      BY <2>1 DEF Blank
  <2>3. QED
      BY <2>2 DEF HasRule, State
<1>4. QED
    BY <1>2, <1>3 DEF RuleInv

LEMMA NextRule ==
    ASSUME MarksApart, CleanupOrderly
    PROVE  RuleInv /\ [StatusNext]_viewVars => RuleInv'
<1>1. SUFFICES ASSUME RuleInv, [StatusNext]_viewVars PROVE RuleInv'
    OBVIOUS
<1>2. ViewOK'
    BY <1>1, NextTypes DEF RuleInv, MarkInv, TypesInv
<1>3. CASE UNCHANGED viewVars
  <2>1. UNCHANGED vars /\ view' = view /\ ipRules' = ipRules
      BY <1>3 DEF viewVars, vars, kernel
  <2>2. MarkInv'
      BY <1>1, <2>1, NextMarks DEF RuleInv, MarksApart
  <2>3. QED
      BY <1>1, <1>2, <2>1, <2>2 DEF RuleInv, HasRule, MarksIn, EgressesShownTo, Chosen
<1>4. CASE Elsewhere
    BY <1>1, <1>2, <1>4, NextMarks, ElsewhereShows DEF RuleInv, Elsewhere, MarksApart
<1>5. ASSUME NEW v \in Viewers, StatusStep(v) PROVE RuleInv'
  <2>1. UNCHANGED <<kernel, up, host, file, process>> /\ events' \in 0..MaxEvents
      BY <1>1, <1>5, StatusOnlyReads DEF RuleInv, MarkInv, LocalInv
  <2>2. QED
      BY <1>1, <1>2, <1>5, <2>1, ReadingKeeps, StatusStepShows DEF RuleInv
<1>6. QED
    BY <1>1, <1>3, <1>4, <1>5 DEF StatusNext

(* status.rs:43-45.  A report whose readings have stayed and which prints  *)
(* an address "[nft: OK]" also prints "(OK)" for the mark the address is   *)
(* given: the chain is asked for before the ip rules, and a reconcile adds *)
(* them before it fills the chain.  This holds if the tests of the lines   *)
(* are exact and a cleanup runs alone.                                     *)
THEOREM ReportIsConsistent ==
    ASSUME MarksApart, CleanupOrderly PROVE StatusSpec => []AddressHasRule
<1>1. RuleInv => AddressHasRule
    BY DEF RuleInv, HasRule, AddressHasRule, Printed, Chosen
<1>2. RuleInv /\ [StatusNext]_viewVars => RuleInv'
    BY NextRule
<1>3. QED
    BY <1>1, <1>2, InitRule, PTL DEF StatusSpec

-----------------------------------------------------------------------------
(* What a status knows of the chain when its probe found one and its       *)
(* readings have stayed: the chain is there, then it has its text, and no  *)
(* address is printed UNKNOWN.                                             *)
HasText(v) ==
    /\ view[v].at \in {"off", "table", "chain"} => ~view[v].chainOk
    /\ view[v].at \notin {"policy", "shown"} => view[v].address["UNKNOWN"] = {}
    /\ view[v].stayed /\ view[v].chainOk =>
          /\ view[v].at = "text" => nft = "chain"
          /\ view[v].at # "text" => view[v].text = "some"
          /\ view[v].address["UNKNOWN"] = {}

TextInv == LocalInv /\ ViewOK /\ \A v \in Viewers : HasText(v)

LEMMA StatusStepText ==
    ASSUME TextInv, NEW v \in Viewers, StatusStep(v) PROVE HasText(v)'
<1>1. view[v] \in View /\ HasText(v)
    BY DEF TextInv, ViewOK
<1>2. CASE StartStatus(v) \/ EndStatus(v)
  <2>1. PICK l \in {"off", "table"} : Show(v, Blank(file, l))
      BY <1>2 DEF StartStatus, EndStatus
  <2>2. view'[v] = Blank(file, l)
      BY <2>1 DEF TextInv, ViewOK, Show
  <2>3. /\ view'[v].at = l /\ ~view'[v].chainOk
        /\ view'[v].address = [s \in State |-> {}]
      BY <2>2 DEF Blank
  <2>4. QED
      BY <2>3 DEF HasText, State
<1>3. CASE ProbeTable(v)
    BY <1>1, <1>3 DEF TextInv, ViewOK, View, ProbeTable, Show, HasText
<1>4. CASE ProbeChain(v)
  <2>1. /\ view'[v].at \in {"text", "rules"} /\ view'[v].address = view[v].address
        /\ view'[v].at = "rules" => ~view'[v].chainOk
        /\ view'[v].at = "text" => nft = "chain"
        /\ nft' = nft /\ view[v].at = "chain"
      BY <1>1, <1>4 DEF TextInv, ViewOK, View, ProbeChain, Show, vars, kernel
  <2>2. QED
      BY <1>1, <2>1 DEF HasText
<1>5. CASE ListChain(v)
  <2>1. /\ view'[v].at = "rules" /\ view'[v].address = view[v].address /\ view[v].at = "text"
        /\ view'[v].text = IF nft = "chain" THEN "some" ELSE "none"
        /\ view'[v].stayed = view[v].stayed /\ view'[v].chainOk = view[v].chainOk
      BY <1>1, <1>5 DEF TextInv, ViewOK, View, ListChain, Show
  <2>2. QED
      BY <1>1, <2>1 DEF HasText
<1>6. CASE ListIpRules(v)
    BY <1>1, <1>6 DEF TextInv, ViewOK, View, ListIpRules, Show, HasText
<1>7. CASE ShowEgress(v)
  <2>1. PICK i, t, m, d :
           \/ Show(v, [view[v] EXCEPT !.idx = i, !.table = t, !.fwmark = m, !.dropped = d])
           \/ Show(v, [view[v] EXCEPT !.at = "policy", !.idx = 1, !.rules = {}])
      BY <1>7, Zenon DEF ShowEgress
  <2>2. view[v].at = "egress"
      BY <1>7 DEF ShowEgress
  <2>3. /\ view'[v].at \in {"egress", "policy"}
        /\ view'[v].address = view[v].address /\ view'[v].text = view[v].text
        /\ view'[v].stayed = view[v].stayed /\ view'[v].chainOk = view[v].chainOk
    <3>1. \A r : Show(v, r) => view'[v] = r
        BY DEF TextInv, ViewOK, Show
    <3>2. CASE view'[v] = [view[v] EXCEPT !.idx = i, !.table = t, !.fwmark = m, !.dropped = d]
        BY <1>1, <2>2, <3>2 DEF View
    <3>3. CASE view'[v] = [view[v] EXCEPT !.at = "policy", !.idx = 1, !.rules = {}]
        BY <1>1, <3>3 DEF View
    <3>4. QED
        BY <2>1, <3>1, <3>2, <3>3, Zenon
  <2>4. QED
      BY <1>1, <2>2, <2>3 DEF HasText
<1>8. CASE ShowPolicy(v)
  <2>1. CASE Show(v, [view[v] EXCEPT !.at = "shown"])
    <3>1. /\ view'[v].at = "shown" /\ view'[v].address = view[v].address
          /\ view'[v].text = view[v].text /\ view'[v].stayed = view[v].stayed
          /\ view'[v].chainOk = view[v].chainOk /\ view[v].at = "policy"
        BY <1>1, <1>8, <2>1 DEF TextInv, ViewOK, View, ShowPolicy, Show
    <3>2. QED
        BY <1>1, <3>1 DEF HasText
  <2>2. CASE \E ds \in Yields[Asked[view[v].conf][view[v].idx]] \cup {<<>>} : ShowAddresses(v, ds)
    <3> DEFINE e == EgressOf[Asked[view[v].conf][view[v].idx]]
    <3>1. PICK ds \in Yields[Asked[view[v].conf][view[v].idx]] \cup {<<>>} : ShowAddresses(v, ds)
        BY <2>2
    <3> DEFINE a == [s \in State |-> view[v].address[s] \cup
                       {x \in {e} : \E d \in RangeOf(ds) : RuleState(v, d, x) = s}]
    <3>2. Show(v, [view[v] EXCEPT !.idx = view[v].idx + 1, !.address = a])
        BY <3>1, Zenon DEF ShowAddresses
    <3>3. a["UNKNOWN"] = view[v].address["UNKNOWN"] \cup
                    {x \in {e} : \E d \in RangeOf(ds) : RuleState(v, d, x) = "UNKNOWN"}
        BY DEF State
    <3> HIDE DEF a, e
    <3>4. /\ view'[v].at = "policy" /\ view'[v].address = a /\ view'[v].text = view[v].text
          /\ view'[v].stayed = view[v].stayed /\ view'[v].chainOk = view[v].chainOk
          /\ view[v].at = "policy"
        BY <1>1, <1>8, <3>2 DEF TextInv, ViewOK, View, ShowPolicy, Show
    <3>5. view[v].text = "some" => \A d, x : RuleState(v, d, x) # "UNKNOWN"
        BY DEF RuleState
    <3>6. QED
        BY <1>1, <3>3, <3>4, <3>5 DEF HasText
  <2>3. QED
      BY <1>8, <2>1, <2>2 DEF ShowPolicy
<1>9. CASE ReadFails(v)
  <2>1. /\ view[v].at \in {"chain", "text", "rules", "egress"}
        /\ view'[v].at \in {"rules", "egress"} /\ ~view'[v].stayed /\ view'[v].address = view[v].address
      BY <1>1, <1>9 DEF TextInv, ViewOK, View, ReadFails
  <2>2. QED
      BY <1>1, <2>1 DEF HasText
<1>10. QED
    BY <1>2, <1>3, <1>4, <1>5, <1>6, <1>7, <1>8, <1>9 DEF StatusStep

LEMMA NextText == TextInv /\ [StatusNext]_viewVars => TextInv'
<1>1. SUFFICES ASSUME TextInv, [StatusNext]_viewVars PROVE TextInv'
    OBVIOUS
<1>2. LocalInv' /\ ViewOK'
    BY <1>1, NextTypes DEF TextInv, TypesInv
<1>3. CASE UNCHANGED viewVars
    BY <1>1, <1>2, <1>3 DEF TextInv, HasText, viewVars, vars, kernel
<1>4. CASE Elsewhere
  <2>1. ASSUME NEW v \in Viewers PROVE HasText(v)'
    <3>1. /\ view'[v].at = view[v].at /\ view'[v].text = view[v].text
          /\ view'[v].chainOk = view[v].chainOk /\ view'[v].address = view[v].address
          /\ view'[v].stayed => view[v].stayed /\ (nft = "chain" => nft' = "chain")
        BY <1>1, <1>4 DEF TextInv, ViewOK, View, Elsewhere
    <3>2. QED
        BY <1>1, <3>1 DEF TextInv, HasText
  <2>2. QED
      BY <1>2, <2>1 DEF TextInv
<1>5. ASSUME NEW v \in Viewers, StatusStep(v) PROVE TextInv'
  <2>1. HasText(v)'
      BY <1>1, <1>5, StatusStepText
  <2>2. ASSUME NEW u \in Viewers, u # v PROVE HasText(u)'
    <3>1. nft' = nft /\ view'[u] = view[u]
        BY <1>1, <1>5, <2>2, StatusOnlyReads, OthersUntouched
        DEF TextInv, LocalInv, kernel
    <3>2. QED
        BY <1>1, <3>1 DEF TextInv, HasText
  <2>3. QED
      BY <1>2, <2>1, <2>2 DEF TextInv
<1>6. QED
    BY <1>1, <1>3, <1>4, <1>5 DEF StatusNext

(* status.rs:393-395.  An address is "[nft: UNKNOWN]" only when the chain  *)
(* was not there to be read, or went while it was read: not because a      *)
(* reconcile beside the status has just emptied it.                        *)
THEOREM UnknownMeansUnread == StatusSpec => []UnknownIsUnread
<1>1. StatusInit => TextInv
  <2>1. SUFFICES ASSUME StatusInit PROVE TextInv
      OBVIOUS
  <2>2. ASSUME NEW v \in Viewers PROVE HasText(v)
    <3>1. view[v] = Blank(file, "off")
        BY <2>1 DEF StatusInit
    <3>2. /\ view[v].at = "off" /\ ~view[v].chainOk
          /\ view[v].address = [s \in State |-> {}]
        BY <3>1 DEF Blank
    <3>3. QED
        BY <3>2 DEF HasText, State
  <2>3. QED
      BY <2>1, <2>2, InitTypes DEF TypesInv, TextInv
<1>2. TextInv => UnknownIsUnread
    BY DEF TextInv, HasText, UnknownIsUnread
<1>3. QED
    BY <1>1, <1>2, NextText, PTL DEF StatusSpec

-----------------------------------------------------------------------------
(* The route tables.  An egress has had its route installed if its table   *)
(* holds one or the kernel has removed it since.                           *)
Tabled == {e \in Egress : routes[e] # NoAddr}

(* As RuleOK does for the ip rules: the egresses a reconcile is done with, *)
(* and the one in hand, have their route.                                  *)
TableOK(p) ==
    /\ pc[p] \in {"route", "listRules", "addRule"} =>
          work[p].todo \subseteq Healthy(p) /\ Healthy(p) \ work[p].todo \subseteq Tabled
    /\ pc[p] \in {"listRules", "addRule"} => work[p].cur \in Tabled
    /\ pc[p] \in {"flush", "policy", "add"} => Healthy(p) \subseteq Tabled

MarksTabled == \A i \in DOMAIN chain : chain[i].mark \in Tabled

(* A cleanup comes to the routes when the nft table is gone.               *)
TableGone == \A p \in Cleaners : pc[p] \notin {"off", "dropTable"} => nft = "absent"

TableInv == MarkInv /\ MarksTabled /\ TableGone /\ \A p \in Process : TableOK(p)

(* What a step of p has to do to keep this.                                *)
KeepsTable(p) ==
    /\ OnlyMoves(p) /\ TableOK(p)' /\ MarksTabled'
    /\ p \in Cleaners /\ pc'[p] \notin {"off", "dropTable"} => nft' = "absent"
    /\ pc[p] = "off" => nft' = nft

LEMMA TableKept ==
    ASSUME TableInv, MarkInv', NEW p \in Process, KeepsTable(p),
           Tabled \subseteq Tabled' \/ \A q \in Process : q # p => pc[q] = "off"
    PROVE  TableInv'
<1>1. ASSUME NEW q \in Process, q # p PROVE TableOK(q)'
  <2>1. TableOK(q) /\ pc'[q] = pc[q] /\ work'[q] = work[q]
      BY <1>1 DEF TableInv, KeepsTable, OnlyMoves
  <2>2. CASE pc[q] = "off"
      BY <2>1, <2>2 DEF TableOK
  <2>3. CASE Tabled \subseteq Tabled'
      BY <2>1, <2>3 DEF TableOK, Healthy
  <2>4. QED
      BY <1>1, <2>2, <2>3
<1>2. ASSUME NEW c \in Cleaners, pc'[c] \notin {"off", "dropTable"} PROVE nft' = "absent"
  <2>1. c \in Process
      BY DEF Process
  <2>2. CASE c = p
      BY <1>2, <2>2 DEF KeepsTable
  <2>3. CASE c # p
    <3>1. pc[c] = pc'[c]
        BY <2>1, <2>3 DEF KeepsTable, OnlyMoves
    <3>2. nft = "absent" /\ pc[p] = "off"
        BY <1>2, <2>3, <3>1 DEF TableInv, TableGone, MarkInv, Alone
    <3>3. QED
        BY <3>2 DEF KeepsTable
  <2>4. QED
      BY <2>2, <2>3
<1>3. QED
    BY <1>1, <1>2 DEF TableInv, TableGone, KeepsTable

(* A route that the kernel did not remove goes only in a cleanup.          *)
LEMMA TabledGrows ==
    ASSUME TableInv, Elsewhere, \A p \in Process : ~DropRoute(p)
    PROVE  Tabled \subseteq Tabled'
<1>1. TypeOK /\ Next
    BY DEF Elsewhere, TableInv, MarkInv, LocalInv
<1>2. CASE UNCHANGED routes
    BY <1>1, <1>2 DEF Tabled
<1>3. ASSUME NEW p \in Process, ReplaceRoute(p) PROVE Tabled \subseteq Tabled'
  <2>1. CASE UNCHANGED routes
      BY <1>2, <2>1
  <2>2. CASE \E e \in work[p].todo : routes' = [routes EXCEPT ![e] = work[p].addr[e]]
    <3>1. PICK e \in work[p].todo : routes' = [routes EXCEPT ![e] = work[p].addr[e]]
        BY <2>2
    <3>2. work[p].addr[e] # NoAddr
        BY <1>3 DEF TableInv, TableOK, ReplaceRoute, Healthy
    <3>3. QED
        BY <1>1, <3>1, <3>2 DEF Tabled, TypeOK, KernelOK
  <2>3. QED
      BY <1>3, <2>1, <2>2 DEF ReplaceRoute
<1>4. CASE LinkDown \/ Dhcp
  <2>1. PICK e \in Egress : \E r \in Survives(e) : routes' = [routes EXCEPT ![e] = r]
      BY <1>4, EgressAssumption DEF LinkDown, Dhcp, Survives
  <2>2. \A f \in Egress : routes'[f] = NoAddr => routes[f] = NoAddr
      BY <1>1, <2>1, EgressAssumption DEF TypeOK, KernelOK, Survives
  <2>3. QED
      BY <2>2 DEF Tabled
<1>5. UNCHANGED routes \/ LinkDown \/ Dhcp \/ \E p \in Process : ReplaceRoute(p)
  <2>1. Environment => UNCHANGED routes \/ LinkDown \/ Dhcp
      BY DEF Environment, LinkUp, EditConfig, CommandFails,
         DeletionFails, Crash, Stop, kernel
  <2>2. ASSUME NEW p \in Process, StartService(p) \/ StartCommand(p) \/ StartCleanup(p)
        PROVE  UNCHANGED routes
      BY <2>2 DEF StartService, StartCommand, StartCleanup, kernel
  <2>3. ASSUME NEW p \in Process, Run(p) PROVE UNCHANGED routes \/ ReplaceRoute(p)
      BY <2>3
      DEF Run, ReconcileStep, CleanupStep, Wake, Restart, CheckTable, AddTable, CheckChain,
          AddChain, CheckHealth, InspectRoute, InspectAddr, HealthKnown, ListRules, AddRule,
          FlushAll, Flush, EndPolicies, SkipPolicy, Resolve, AddPolicyRule,
          DropTable, ListForDrop, DropRule, EndCleanup, kernel
  <2>4. QED
      BY <1>1, <2>1, <2>2, <2>3 DEF Next
<1>6. QED
    BY <1>2, <1>3, <1>4, <1>5

(* The steps of a reconcile that only leave for a place where TableOK says *)
(* nothing.                                                                *)
LEMMA AwayTable ==
    ASSUME TableInv, NEW p \in Process, OnlyMoves(p), pc'[p] \notin Installing,
           p \notin Cleaners, pc[p] # "off", Tabled \subseteq Tabled',
           chain' = chain \/ chain' = <<>>
    PROVE  KeepsTable(p)
<1>1. TableOK(p)'
    BY DEF TableOK, Installing
<1>2. MarksTabled'
    BY DEF TableInv, MarksTabled
<1>3. QED
    BY <1>1, <1>2 DEF KeepsTable

LEMMA FailTable ==
    ASSUME TableInv, NEW p \in Process, p \notin Cleaners, pc[p] # "off",
           Fail(p) \/ Finish(p), Tabled \subseteq Tabled', chain' = chain \/ chain' = <<>>
    PROVE  KeepsTable(p)
<1>1. pc'[p] \in {"off", "failed", "sleep"} /\ OnlyMoves(p)
    BY FailType, FinishType DEF TableInv, MarkInv, LocalInv, OnlyMoves
<1>2. QED
    BY <1>1, AwayTable DEF Installing

(* Keeping the healthy egresses and the chain within the installing steps. *)
LEMMA PrepareTable ==
    ASSUME TableInv, NEW p \in Process, Tabled \subseteq Tabled',
           \/ Wake(p) \/ CheckTable(p) \/ AddTable(p) \/ CheckChain(p) \/ AddChain(p)
           \/ CheckHealth(p) \/ InspectRoute(p) \/ InspectAddr(p)
    PROVE  KeepsTable(p)
<1>1. /\ TypeOK /\ chain' = chain
      /\ pc[p] \in ReconcileLabels \cup {"sleep"} /\ pc[p] # "off"
      /\ pc[p] \notin Installing
    BY DEF TableInv, MarkInv, LocalInv, Wake, CheckTable, AddTable, CheckChain, AddChain,
           CheckHealth, InspectRoute, InspectAddr, kernel, ReconcileLabels, Installing
<1>2. p \notin Cleaners
    BY <1>1, ReconcilerLabels
<1>3. CASE Fail(p)
    BY <1>1, <1>2, <1>3, FailTable
<1>4. CASE ~Fail(p)
  <2>1. pc \in [Process -> Label] /\ work \in [Process -> Work]
      BY <1>1 DEF TypeOK, ProcessOK
  <2>2. /\ \/ UNCHANGED pc
           \/ \E l \in {"table", "addTable", "chain", "addChain", "health", "inspect",
                        "inspectAddr"} : Goto(p, l)
        /\ \/ UNCHANGED work
           \/ \E a : work' = [work EXCEPT ![p].seen = a]
           \/ \E a : Checked(p, a)
      BY <1>4 DEF Wake, CheckTable, AddTable, CheckChain, AddChain, CheckHealth, InspectRoute,
                  InspectAddr
  <2>3. OnlyMoves(p) /\ pc'[p] \notin Installing
      BY <1>1, <2>1, <2>2 DEF OnlyMoves, Goto, Checked, Installing
  <2>4. QED
      BY <1>1, <1>2, <2>3, AwayTable
<1>5. QED
    BY <1>3, <1>4

LEMMA HealthKnownTable ==
    ASSUME TableInv, NEW p \in Process, Tabled \subseteq Tabled', HealthKnown(p)
    PROVE  KeepsTable(p)
<1>1. /\ TypeOK /\ pc[p] = "health" /\ UNCHANGED chain
      /\ work' = [work EXCEPT ![p].todo = Healthy(p)]
      /\ pc \in [Process -> Label] /\ work \in [Process -> Work]
    BY DEF TableInv, MarkInv, LocalInv, HealthKnown, kernel, TypeOK, ProcessOK
<1>2. p \notin Cleaners
    BY <1>1, ReconcilerLabels DEF ReconcileLabels
<1>3. PICK l \in {"route", "flushAll", "flush"} :
          Goto(p, l) /\ (l # "route" => Healthy(p) = {})
    BY DEF HealthKnown
<1>4. pc'[p] = l /\ OnlyMoves(p)
    BY <1>1, <1>3 DEF Goto, OnlyMoves
<1>5. work'[p].todo = Healthy(p) /\ Healthy(p)' = Healthy(p)
    BY <1>1 DEF Healthy, Work
<1>6. TableOK(p)'
    BY <1>3, <1>4, <1>5 DEF TableOK
<1>7. MarksTabled'
    BY <1>1 DEF TableInv, MarksTabled
<1>8. QED
    BY <1>1, <1>2, <1>4, <1>6, <1>7 DEF KeepsTable

LEMMA ReplaceRouteTable ==
    ASSUME TableInv, NEW p \in Process, Tabled \subseteq Tabled', ReplaceRoute(p)
    PROVE  KeepsTable(p)
<1>1. /\ TypeOK /\ pc[p] = "route" /\ UNCHANGED chain
      /\ pc \in [Process -> Label] /\ work \in [Process -> Work]
      /\ work[p].todo \subseteq Healthy(p) /\ Healthy(p) \ work[p].todo \subseteq Tabled
    BY DEF TableInv, MarkInv, LocalInv, ReplaceRoute, TypeOK, ProcessOK, TableOK
<1>2. p \notin Cleaners
    BY <1>1, ReconcilerLabels DEF ReconcileLabels
<1>3. CASE Fail(p)
    BY <1>1, <1>2, <1>3, FailTable
<1>4. ASSUME NEW e \in work[p].todo, routes' = [routes EXCEPT ![e] = work[p].addr[e]],
             work' = [work EXCEPT ![p].cur = e], Goto(p, "listRules")
      PROVE  KeepsTable(p)
  <2>1. pc'[p] = "listRules" /\ OnlyMoves(p)
      BY <1>1, <1>4 DEF Goto, OnlyMoves
  <2>2. work'[p].todo = work[p].todo /\ Healthy(p)' = Healthy(p) /\ work'[p].cur = e
      BY <1>1, <1>4 DEF Healthy, Work
  <2>3. e \in Tabled'
    <3>1. e \in Egress /\ work[p].addr[e] # NoAddr
        BY <1>1 DEF Healthy
    <3>2. routes'[e] = work[p].addr[e]
        BY <1>1, <1>4, <3>1 DEF TypeOK, KernelOK
    <3>3. QED
        BY <3>1, <3>2 DEF Tabled
  <2>4. TableOK(p)'
      BY <1>1, <2>1, <2>2, <2>3 DEF TableOK
  <2>5. MarksTabled'
      BY <1>1 DEF TableInv, MarksTabled
  <2>6. QED
      BY <1>1, <1>2, <2>1, <2>4, <2>5 DEF KeepsTable
<1>5. QED
    BY <1>3, <1>4 DEF ReplaceRoute

(* Installing the rule of the egress in hand, which has its route.         *)
LEMMA InstallTable ==
    ASSUME TableInv, NEW p \in Process, Tabled \subseteq Tabled', ListRules(p) \/ AddRule(p)
    PROVE  KeepsTable(p)
<1>1. /\ TypeOK /\ pc[p] \in {"listRules", "addRule"} /\ UNCHANGED chain
      /\ pc \in [Process -> Label] /\ work \in [Process -> Work]
      /\ work[p].todo \subseteq Healthy(p) /\ Healthy(p) \ work[p].todo \subseteq Tabled
      /\ work[p].cur \in Tabled
    BY DEF TableInv, MarkInv, LocalInv, ListRules, AddRule, kernel, TypeOK, ProcessOK, TableOK
<1>2. p \notin Cleaners
    BY <1>1, ReconcilerLabels DEF ReconcileLabels
<1>3. MarksTabled'
    BY <1>1 DEF TableInv, MarksTabled
<1>4. CASE Fail(p)
    BY <1>1, <1>2, <1>4, FailTable
<1>5. CASE Goto(p, "addRule") /\ UNCHANGED work
  <2>1. pc'[p] = "addRule" /\ OnlyMoves(p)
      BY <1>1, <1>5 DEF Goto, OnlyMoves
  <2>2. TableOK(p)'
      BY <1>1, <1>5, <2>1 DEF TableOK, Healthy
  <2>3. QED
      BY <1>1, <1>2, <1>3, <2>1, <2>2 DEF KeepsTable
<1>6. CASE Installed(p)
  <2> DEFINE rest == work[p].todo \ {work[p].cur}
  <2>1. /\ pc'[p] \in {"flush", "route"} /\ (pc'[p] = "flush" => rest = {})
        /\ work' = [work EXCEPT ![p].todo = rest] /\ OnlyMoves(p)
      BY <1>1, <1>6 DEF Installed, Goto, OnlyMoves
  <2>2. work'[p].todo = rest /\ Healthy(p)' = Healthy(p)
      BY <1>1, <2>1 DEF Healthy, Work
  <2>3. Healthy(p)' \ rest \subseteq Tabled'
      BY <1>1, <2>2
  <2>4. TableOK(p)'
      BY <1>1, <2>1, <2>2, <2>3 DEF TableOK
  <2>5. QED
      BY <1>1, <1>2, <1>3, <2>1, <2>4 DEF KeepsTable
<1>7. QED
    BY <1>4, <1>5, <1>6 DEF ListRules, AddRule

(* The flush and the policies, when all the healthy egresses have theirs.  *)
LEMMA PolicyTable ==
    ASSUME TableInv, NEW p \in Process, Tabled \subseteq Tabled',
           \/ FlushAll(p) \/ Flush(p) \/ EndPolicies(p) \/ SkipPolicy(p) \/ Resolve(p)
           \/ AddPolicyRule(p)
    PROVE  KeepsTable(p)
<1>1. /\ TypeOK /\ LocalOK(p) /\ pc[p] \in {"flushAll", "flush", "policy", "add"}
      /\ pc \in [Process -> Label] /\ work \in [Process -> Work] /\ chain \in Seq(Rule)
      /\ pc[p] # "flushAll" => Healthy(p) \subseteq Tabled
    BY DEF TableInv, MarkInv, LocalInv, TypeOK, ProcessOK, KernelOK, TableOK,
       FlushAll, Flush, EndPolicies, SkipPolicy, Resolve, AddPolicyRule
<1>2. p \notin Cleaners
    BY <1>1, ReconcilerLabels DEF ReconcileLabels
<1> DEFINE r == RuleFor(PolicyAt(p), Head(work[p].pend))
<1>3. CASE Fail(p) \/ Finish(p)
  <2>1. chain' = chain \/ chain' = <<>>
      BY <1>1, <1>3, FailType, FinishType, <1>2
      DEF FlushAll, Flush, EndPolicies, SkipPolicy, Resolve, AddPolicyRule, kernel, Goto
  <2>2. QED
      BY <1>1, <1>2, <1>3, <2>1, FailTable
<1>4. CASE ~(Fail(p) \/ Finish(p))
  <2>1. /\ pc[p] # "flushAll"
        /\ UNCHANGED pc \/ \E l \in {"policy", "add"} : Goto(p, l)
        /\ \/ \E n : work' = [work EXCEPT ![p].idx = n]
           \/ \E ds : work' = [work EXCEPT ![p].pend = ds]
           \/ \E ds, n : work' = [work EXCEPT ![p].pend = ds, ![p].idx = n]
        /\ chain' = chain \/ chain' = <<>> \/ (pc[p] = "add" /\ chain' = Append(chain, r))
        /\ pc[p] = "flush" => Goto(p, "policy")
      BY <1>1, <1>4
      DEF FlushAll, Flush, EndPolicies, SkipPolicy, Resolve, AddPolicyRule, kernel
  <2>2. OnlyMoves(p) /\ pc'[p] \in {"policy", "add"}
      BY <1>1, <2>1 DEF OnlyMoves, Goto
  <2>3. Healthy(p)' = Healthy(p)
    <3>1. work'[p].addr = work[p].addr
        BY <1>1, <2>1 DEF Work
    <3>2. QED
        BY <3>1 DEF Healthy
  <2>4. TableOK(p)'
      BY <1>1, <2>1, <2>2, <2>3 DEF TableOK
  <2>5. MarksTabled'
    <3>1. CASE chain' = chain \/ chain' = <<>>
        BY <3>1 DEF TableInv, MarksTabled
    <3>2. CASE pc[p] = "add" /\ chain' = Append(chain, r)
      <4>1. r.mark \in Tabled'
          BY <1>1, <3>2 DEF LocalOK, RuleFor
      <4>2. ASSUME NEW i \in DOMAIN chain'
            PROVE  chain'[i] = r \/ (i \in DOMAIN chain /\ chain'[i] = chain[i])
          BY <1>1, <3>2, <4>2
      <4>3. QED
          BY <4>1, <4>2 DEF TableInv, MarksTabled
    <3>3. QED
        BY <2>1, <3>1, <3>2
  <2>6. QED
      BY <1>1, <1>2, <2>2, <2>4, <2>5 DEF KeepsTable
<1>5. QED
    BY <1>3, <1>4

(* A cleanup works alone, on an empty chain.                               *)
LEMMA CleanupTable ==
    ASSUME TableInv, NEW p \in Process,
           DropTable(p) \/ ListForDrop(p) \/ DropRule(p) \/ DropRoute(p)
    PROVE  KeepsTable(p) /\ \A q \in Process : q # p => pc[q] = "off"
<1>1. /\ TypeOK /\ pc \in [Process -> Label] /\ work \in [Process -> Work]
      /\ pc[p] \in {"dropTable", "dropList", "dropRules", "dropRoutes"}
    BY DEF TableInv, MarkInv, LocalInv, TypeOK, ProcessOK, DropTable, ListForDrop, DropRule,
       DropRoute
<1>2. p \in Cleaners
    BY <1>1, CleanerLabels DEF CleanupLabels
<1>3. chain' = <<>>
    BY <1>2 DEF TableInv, MarkInv, StaysEmpty, DropTable, ListForDrop, DropRule, DropRoute, kernel
<1>4. nft' = "absent"
    BY <1>2 DEF TableInv, TableGone, DropTable, ListForDrop, DropRule, DropRoute, kernel
<1>5. /\ UNCHANGED pc \/ \E l \in {"dropList", "dropRules", "dropRoutes", "cleaned"} : Goto(p, l)
      /\ \/ UNCHANGED work
         \/ \E s : work' = [work EXCEPT ![p].todo = s]
         \/ \E n : work' = [work EXCEPT ![p].idx = n]
    BY DEF DropTable, ListForDrop, DropRule, DropRoute
<1>6. /\ OnlyMoves(p)
      /\ pc'[p] \in {"dropTable", "dropList", "dropRules", "dropRoutes", "cleaned"}
    BY <1>1, <1>5 DEF OnlyMoves, Goto
<1>7. TableOK(p)'
    BY <1>6 DEF TableOK
<1>8. QED
    BY <1>1, <1>2, <1>3, <1>4, <1>6, <1>7 DEF TableInv, MarkInv, Alone, KeepsTable, MarksTabled

(* Starting, and ending where it stands.                                   *)
LEMMA StartTable ==
    ASSUME TableInv, NEW p \in Process, Tabled \subseteq Tabled',
           StartService(p) \/ StartCommand(p) \/ StartCleanup(p) \/ Restart(p)
    PROVE  KeepsTable(p)
<1>1. /\ \/ Load(p, "table") /\ (p \in Cleaners => pc[p] = "failed")
         \/ Load(p, "dropTable")
      /\ UNCHANGED <<nft, chain>>
    BY ProcessAssumption DEF StartService, StartCommand, StartCleanup, Restart, kernel
<1>2. pc[p] = "failed" => p \notin Cleaners
    BY DEF TableInv, MarkInv, LocalInv, TypeOK, ProcessOK, Labels, CleanupLabels
<1>3. OnlyMoves(p) /\ pc'[p] \in {"table", "dropTable"} /\ (p \in Cleaners => pc'[p] = "dropTable")
    BY <1>1, <1>2 DEF Load, Goto, OnlyMoves, TableInv, MarkInv, LocalInv, TypeOK, ProcessOK
<1>4. QED
    BY <1>1, <1>3 DEF KeepsTable, TableOK, TableInv, MarksTabled

LEMMA LeaveTable ==
    ASSUME TableInv, NEW p \in Process, NEW l \in {"off", "failed"} \cap Labels(p),
           pc[p] # "off", Leave(p, l), UNCHANGED <<nft, chain>>, Tabled \subseteq Tabled'
    PROVE  KeepsTable(p)
<1>1. pc'[p] = l /\ OnlyMoves(p)
    BY LeaveType DEF TableInv, MarkInv, LocalInv, OnlyMoves
<1>2. p \in Cleaners => l = "off"
    BY DEF Labels, CleanupLabels
<1>3. QED
    BY <1>1, <1>2 DEF KeepsTable, TableOK, TableInv, MarksTabled

LEMMA EnvironmentTable ==
    ASSUME CleanupOrderly, TableInv, Environment, Tabled \subseteq Tabled', ~UNCHANGED process
    PROVE  \E p \in Process : KeepsTable(p)
<1>1. TypeOK /\ UNCHANGED <<nft, chain>>
    BY DEF TableInv, MarkInv, LocalInv, Environment, LinkDown, LinkUp, Dhcp, EditConfig,
           CommandFails, DeletionFails, Crash, Stop, kernel
<1>2. CASE CommandFails
  <2>1. PICK p \in Process : pc[p] \in Fallible /\ Fail(p)
      BY <1>2 DEF CommandFails
  <2>2. pc[p] # "off" /\ p \notin Cleaners
      BY <1>1, <2>1, ReconcilerLabels DEF Fallible, ReconcileLabels
  <2>3. QED
      BY <1>1, <2>1, <2>2, FailTable
<1>3. CASE Crash
  <2>1. PICK p \in Process : pc[p] # "off" /\ Leave(p, IF p = Service THEN "failed" ELSE "off")
      BY <1>3 DEF Crash
  <2> DEFINE l == IF p = Service THEN "failed" ELSE "off"
  <2>2. l \in {"off", "failed"} \cap Labels(p)
      BY ProcessAssumption DEF Labels, CleanupLabels, ReconcileLabels
  <2>3. Leave(p, l)
      BY <2>1
  <2> HIDE DEF l
  <2>4. QED
      BY <1>1, <2>1, <2>2, <2>3, LeaveTable
<1>4. CASE Stop
  <2>1. Service \in Process /\ pc[Service] # "off" /\ Leave(Service, "off")
      BY <1>4 DEF Stop, Process, Reconcilers
  <2>2. "off" \in Labels(Service)
      BY DEF Labels, CleanupLabels, ReconcileLabels
  <2>3. QED
      BY <1>1, <2>1, <2>2, LeaveTable
<1>5. ~DeletionFails
    BY DEF CleanupOrderly, DeletionFails
<1>6. QED
    BY <1>2, <1>3, <1>4, <1>5 DEF Environment, LinkDown, LinkUp, Dhcp, EditConfig

LEMMA NoOneMoves ==
    ASSUME TableInv, MarkInv', Tabled \subseteq Tabled', UNCHANGED <<nft, chain, process>>
    PROVE  TableInv'
BY DEF TableInv, MarksTabled, TableGone, TableOK, Healthy, process

LEMMA ElsewhereTable ==
    ASSUME ExactListing, CleanupOrderly, TableInv, Elsewhere PROVE TableInv'
<1>1. Next /\ MarkInv'
    BY NextMarks DEF Elsewhere, TableInv
<1>2. CASE \E p \in Process : DropRoute(p)
    BY <1>1, <1>2, CleanupTable, TableKept
<1>3. CASE \A p \in Process : ~DropRoute(p)
  <2>1. Tabled \subseteq Tabled'
      BY <1>3, TabledGrows
  <2>2. CASE Environment /\ UNCHANGED process
    <3>1. UNCHANGED <<nft, chain>>
        BY <2>2 DEF Environment, LinkDown, LinkUp, Dhcp, EditConfig, CommandFails,
           DeletionFails, Crash, Stop, kernel
    <3>2. QED
        BY <1>1, <2>1, <2>2, <3>1, NoOneMoves
  <2>3. CASE Environment /\ ~UNCHANGED process
      BY <1>1, <2>1, <2>3, EnvironmentTable, TableKept
  <2>4. ASSUME NEW p \in Process,
               Run(p) \/ StartService(p) \/ StartCommand(p) \/ StartCleanup(p)
        PROVE  KeepsTable(p)
    <3>1. CASE StartService(p) \/ StartCommand(p) \/ StartCleanup(p) \/ Restart(p)
        BY <2>1, <3>1, StartTable
    <3>2. CASE EndCleanup(p)
      <4>1. /\ "off" \in Labels(p) /\ pc[p] # "off" /\ Leave(p, "off")
            /\ UNCHANGED <<nft, chain>>
          BY <3>2 DEF Labels, CleanupLabels, ReconcileLabels, EndCleanup, kernel
      <4>2. QED
          BY <2>1, <4>1, LeaveTable
    <3>3. CASE CleanupStep(p) /\ ~EndCleanup(p)
        BY <3>3, CleanupTable DEF CleanupStep
    <3>4. CASE ReconcileStep(p) \/ Wake(p)
        BY <2>1, <3>4, PrepareTable, HealthKnownTable, ReplaceRouteTable, InstallTable,
           PolicyTable
        DEF ReconcileStep
    <3>5. QED
        BY <2>4, <3>1, <3>2, <3>3, <3>4 DEF Run
  <2>5. QED
      BY <1>1, <2>1, <2>2, <2>3, <2>4, TableKept DEF Next
<1>4. QED
    BY <1>2, <1>3

-----------------------------------------------------------------------------
(* What a status whose readings have stayed knows of the tables: the marks *)
(* of its lines have a route while the nft table is there, and where it    *)
(* has looked, it printed "(OK)".                                          *)
Answered(v) == view[v].table \cup view[v].dropped

TablesShownTo(v, n) ==
    \A j \in DOMAIN Listed[view[v].conf] :
        j < n /\ (\E i \in DOMAIN view[v].lines :
                     view[v].lines[i].mark = Listed[view[v].conf][j])
        => Listed[view[v].conf][j] \in Answered(v)

HasTable(v) ==
    view[v].stayed =>
       /\ view[v].at \in {"rules", "egress"} =>
             MarksIn(v, Tabled) /\ (view[v].lines # <<>> => nft = "chain")
       /\ view[v].at = "egress" => TablesShownTo(v, view[v].idx)
       /\ view[v].at \in {"policy", "shown"} =>
             /\ \A i \in DOMAIN view[v].lines :
                   view[v].lines[i].mark \in Chosen(v) => view[v].lines[i].mark \in Answered(v)
             /\ view[v].address["OK"] \cap Chosen(v) \subseteq Answered(v)

ShownInv == RuleInv /\ TableInv /\ \A v \in Viewers : HasTable(v)

LEMMA StepTables ==
    ASSUME MarksApart, ShownInv, NEW v \in Viewers, StatusStep(v) PROVE HasTable(v)'
<1>1. /\ view[v] \in View /\ HasTable(v) /\ HasRule(v)
      /\ UNCHANGED <<nft, chain, routes>> /\ Tabled' = Tabled
  <2>1. UNCHANGED kernel
      BY StatusOnlyReads DEF ShownInv, RuleInv, MarkInv, LocalInv
  <2>2. QED
      BY <2>1 DEF ShownInv, RuleInv, ViewOK, kernel, Tabled
<1> DEFINE es == Listed[view[v].conf]
           i  == view[v].idx
<1>2. es \in Seq(Egress) /\ i \in Nat \ {0}
    BY <1>1, ConfigAssumption DEF View
<1>3. CASE StartStatus(v) \/ EndStatus(v)
  <2>1. PICK l \in {"off", "table"} : Show(v, Blank(file, l))
      BY <1>3 DEF StartStatus, EndStatus
  <2>2. view'[v].at = l
      BY <2>1 DEF ShownInv, RuleInv, ViewOK, Show, Blank
  <2>3. QED
      BY <2>2 DEF HasTable, Answered
<1>4. CASE ProbeTable(v) \/ ProbeChain(v)
  <2>1. view'[v].at \in {"chain", "text", "rules"} /\ view'[v].lines = view[v].lines
    <3>1. CASE ProbeTable(v)
        BY <1>1, <3>1 DEF ShownInv, RuleInv, ViewOK, ProbeTable, Show, View
    <3>2. CASE ProbeChain(v)
        BY <1>1, <3>2 DEF ShownInv, RuleInv, ViewOK, ProbeChain, Show, View
    <3>3. QED
        BY <1>4, <3>1, <3>2
  <2>2. view[v].lines = <<>>
      BY <1>1, <1>4 DEF HasRule, ProbeTable, ProbeChain
  <2>3. QED
      BY <2>1, <2>2 DEF HasTable, Answered, MarksIn
<1>5. CASE ListChain(v)
  <2>1. /\ view'[v].at = "rules"
        /\ \/ view'[v].lines = chain /\ nft = "chain"
           \/ view'[v].lines = <<>>
      BY <1>1, <1>5 DEF ShownInv, RuleInv, ViewOK, ListChain, Show, View
  <2>2. QED
      BY <1>1, <2>1 DEF HasTable, Answered, MarksIn, ShownInv, TableInv, MarksTabled
<1>6. CASE ListIpRules(v)
  <2>1. /\ view[v].at = "rules" /\ view'[v].at = "egress"
        /\ view'[v].lines = view[v].lines /\ view'[v].stayed = view[v].stayed
        /\ view'[v].idx = i /\ i = 1 /\ view'[v].conf = view[v].conf
      BY <1>1, <1>6 DEF ShownInv, RuleInv, ViewOK, ListIpRules, Show, View, HasRule
  <2>2. TablesShownTo(v, view[v].idx)'
      BY <1>2, <2>1 DEF TablesShownTo
  <2>3. QED
      BY <1>1, <2>1, <2>2 DEF HasTable, Answered, MarksIn
<1>7. CASE ShowEgress(v) /\ i <= Len(es)
  <2> DEFINE t == IF NoRoute(es[i]) THEN view[v].table ELSE view[v].table \cup {es[i]}
             m == Marked(v, es[i])
             d == IF routes[es[i]] = Dropped THEN view[v].dropped \cup {es[i]}
                  ELSE view[v].dropped
  <2>1. Show(v, [view[v] EXCEPT !.idx = i + 1, !.table = t, !.fwmark = m, !.dropped = d])
    <3>1. ~(i > Len(es))
        BY <1>2, <1>7
    <3>2. QED
        BY <1>7, <3>1, Zenon DEF ShowEgress
  <2>2. es[i] \in Tabled => es[i] \in t \cup d
      BY DEF Tabled, NoRoute
  <2>3. view[v].table \subseteq t /\ view[v].dropped \subseteq d
      OBVIOUS
  <2> HIDE DEF t, m, d
  <2>4. /\ view'[v].at = "egress" /\ view[v].at = "egress"
        /\ view'[v].idx = i + 1 /\ view'[v].table = t /\ view'[v].dropped = d
        /\ view'[v].conf = view[v].conf /\ view'[v].lines = view[v].lines
        /\ view'[v].stayed = view[v].stayed
      BY <1>1, <1>7, <2>1 DEF ShownInv, RuleInv, ViewOK, View, Show, ShowEgress
  <2>5. view[v].stayed => TablesShownTo(v, view[v].idx)'
    <3>1. SUFFICES ASSUME view[v].stayed, NEW j \in DOMAIN es, j < i + 1,
                          NEW k \in DOMAIN view[v].lines, view[v].lines[k].mark = es[j]
                   PROVE  es[j] \in t \cup d
        BY <1>1, <2>4 DEF TablesShownTo, Answered
    <3>2. j \in Nat /\ (j < i \/ j = i)
        BY <1>2, <3>1
    <3>3. MarksIn(v, Tabled) /\ TablesShownTo(v, i)
        BY <1>1, <2>4, <3>1 DEF HasTable, Answered
    <3>4. CASE j < i
        BY <2>3, <3>1, <3>3, <3>4 DEF TablesShownTo, Answered
    <3>5. CASE j = i
        BY <2>2, <3>1, <3>3, <3>5 DEF MarksIn
    <3>6. QED
        BY <3>2, <3>4, <3>5
  <2>6. QED
      BY <1>1, <2>4, <2>5 DEF HasTable, Answered, MarksIn
<1>8. CASE ShowEgress(v) /\ i > Len(es)
  <2>1. Show(v, [view[v] EXCEPT !.at = "policy", !.idx = 1, !.rules = {}])
    <3>1. ~(i <= Len(es))
        BY <1>2, <1>8
    <3>2. QED
        BY <1>8, <3>1, Zenon DEF ShowEgress
  <2>2. /\ view'[v].at = "policy" /\ view'[v].table = view[v].table /\ view'[v].dropped = view[v].dropped
        /\ view'[v].conf = view[v].conf /\ view'[v].lines = view[v].lines
        /\ view'[v].address = view[v].address /\ view'[v].stayed = view[v].stayed
        /\ view[v].at = "egress"
      BY <1>1, <1>8, <2>1 DEF ShownInv, RuleInv, ViewOK, View, Show, ShowEgress
  <2>3. ASSUME view[v].stayed, NEW k \in DOMAIN view[v].lines,
               view[v].lines[k].mark \in Chosen(v)
        PROVE  view[v].lines[k].mark \in Answered(v)
    <3>1. PICK j \in DOMAIN es : es[j] = view[v].lines[k].mark
        BY <2>3 DEF Chosen, RangeOf
    <3>2. j < i
        BY <1>2, <1>8
    <3>3. QED
        BY <1>1, <2>2, <2>3, <3>1, <3>2 DEF HasTable, Answered, TablesShownTo
  <2>4. view[v].address["OK"] = {}
      BY <1>1, <2>2 DEF HasRule
  <2>5. QED
      BY <1>1, <2>2, <2>3, <2>4 DEF HasTable, Answered, Chosen
<1>9. CASE ShowPolicy(v) /\ Show(v, [view[v] EXCEPT !.at = "shown"])
  <2>1. /\ view'[v].at = "shown" /\ view'[v].table = view[v].table /\ view'[v].dropped = view[v].dropped
        /\ view'[v].conf = view[v].conf /\ view'[v].lines = view[v].lines
        /\ view'[v].address = view[v].address /\ view'[v].stayed = view[v].stayed
        /\ view[v].at = "policy"
      BY <1>1, <1>9 DEF ShownInv, RuleInv, ViewOK, View, Show, ShowPolicy
  <2>2. QED
      BY <1>1, <2>1 DEF HasTable, Answered, Chosen
<1>10. CASE /\ ShowPolicy(v)
            /\ \E ds \in Yields[Asked[view[v].conf][i]] \cup {<<>>} : ShowAddresses(v, ds)
  <2> DEFINE e == EgressOf[Asked[view[v].conf][i]]
  <2>1. PICK ds \in Yields[Asked[view[v].conf][i]] \cup {<<>>} : ShowAddresses(v, ds)
      BY <1>10
  <2> DEFINE a == [s \in State |-> view[v].address[s] \cup
                     {x \in {e} : \E d \in RangeOf(ds) : RuleState(v, d, x) = s}]
  <2>2. Show(v, [view[v] EXCEPT !.idx = i + 1, !.address = a])
      BY <2>1, Zenon DEF ShowAddresses
  <2>3. a["OK"] = view[v].address["OK"] \cup
                    {x \in {e} : \E d \in RangeOf(ds) : RuleState(v, d, x) = "OK"}
      BY DEF State
  <2> HIDE DEF a, e
  <2>4. /\ view'[v].at = "policy" /\ view'[v].table = view[v].table /\ view'[v].dropped = view[v].dropped
        /\ view'[v].conf = view[v].conf /\ view'[v].lines = view[v].lines
        /\ view'[v].address = a /\ view'[v].stayed = view[v].stayed
        /\ view[v].at = "policy"
      BY <1>1, <1>10, <2>2 DEF ShownInv, RuleInv, ViewOK, View, Show, ShowPolicy
  <2>5. ASSUME view[v].stayed, NEW x \in a["OK"], x \in Chosen(v)
        PROVE  x \in Answered(v)
    <3>1. CASE x \in view[v].address["OK"]
        BY <1>1, <2>4, <2>5, <3>1 DEF HasTable, Answered
    <3>2. CASE \E d \in RangeOf(ds) : RuleState(v, d, x) = "OK"
      <4>1. PICK d \in RangeOf(ds), k \in DOMAIN view[v].lines :
               <<d, x, view[v].lines[k].dest, view[v].lines[k].mark>> \in LineShows
          BY <3>2 DEF RuleState
      <4>2. view[v].lines[k].mark = x
          BY <4>1 DEF MarksApart
      <4>3. QED
          BY <1>1, <2>4, <2>5, <4>2 DEF HasTable, Answered
    <3>3. QED
        BY <2>3, <2>5, <3>1, <3>2
  <2>6. QED
      BY <1>1, <2>4, <2>5 DEF HasTable, Answered, Chosen
<1>11. CASE ReadFails(v)
  <2>1. ~view'[v].stayed
      BY <1>1, <1>11 DEF ShownInv, RuleInv, ViewOK, View, ReadFails
  <2>2. QED
      BY <2>1 DEF HasTable, Answered
<1>12. ShowEgress(v) => i <= Len(es) \/ i > Len(es)
    BY <1>2
<1>13. ShowPolicy(v) => \/ Show(v, [view[v] EXCEPT !.at = "shown"])
                        \/ \E ds \in Yields[Asked[view[v].conf][i]] \cup {<<>>} : ShowAddresses(v, ds)
    BY Zenon DEF ShowPolicy
<1>14. QED
    BY <1>3, <1>4, <1>5, <1>6, <1>7, <1>8, <1>9, <1>10, <1>11, <1>12, <1>13 DEF StatusStep

(* A route goes in a cleanup that has deleted the nft table, and then the  *)
(* readings have not stayed.                                               *)
LEMMA ElsewhereTables ==
    ASSUME ShownInv, Elsewhere, NEW v \in Viewers PROVE HasTable(v)'
<1>1. /\ view'[v].at = view[v].at /\ view'[v].lines = view[v].lines
      /\ view'[v].conf = view[v].conf
      /\ view'[v].idx = view[v].idx /\ view'[v].table = view[v].table /\ view'[v].dropped = view[v].dropped
      /\ view'[v].address = view[v].address
      /\ view'[v].stayed => view[v].stayed /\ (nft = "chain" => nft' = "chain")
      /\ HasTable(v)
    BY DEF ShownInv, RuleInv, ViewOK, View, Elsewhere
<1>2. CASE view[v].lines = <<>>
    BY <1>1, <1>2 DEF HasTable, Answered, MarksIn, TablesShownTo, Chosen
<1>3. CASE Tabled \subseteq Tabled'
    BY <1>1, <1>3 DEF HasTable, Answered, MarksIn, TablesShownTo, Chosen
<1>4. CASE view[v].lines # <<>> /\ ~(Tabled \subseteq Tabled')
  <2>1. PICK p \in Process : DropRoute(p)
      BY <1>4, TabledGrows DEF ShownInv
  <2>2. pc[p] = "dropRoutes" /\ p \in Cleaners
      BY <2>1, CleanerLabels
      DEF ShownInv, TableInv, MarkInv, LocalInv, DropRoute, CleanupLabels
  <2>3. nft = "absent"
      BY <2>2 DEF ShownInv, TableInv, TableGone
  <2>4. view[v].stayed => view[v].at \notin {"rules", "egress"}
      BY <1>1, <1>4, <2>3 DEF HasTable, Answered
  <2>5. QED
      BY <1>1, <2>4 DEF HasTable, Answered, Chosen
<1>5. QED
    BY <1>2, <1>3, <1>4

LEMMA NextShown ==
    ASSUME MarksApart, CleanupOrderly
    PROVE  ShownInv /\ [StatusNext]_viewVars => ShownInv'
<1>1. SUFFICES ASSUME ShownInv, [StatusNext]_viewVars PROVE ShownInv'
    OBVIOUS
<1>2. RuleInv' /\ MarkInv'
    BY <1>1, NextRule DEF ShownInv, RuleInv
<1>3. CASE UNCHANGED <<kernel, process>>
  <2>1. Tabled' = Tabled /\ UNCHANGED <<nft, chain, process>>
      BY <1>3 DEF Tabled, kernel
  <2>2. TableInv'
      BY <1>1, <1>2, <2>1, NoOneMoves DEF ShownInv
  <2>3. CASE view' = view
      BY <1>1, <1>2, <1>3, <2>1, <2>2, <2>3
      DEF ShownInv, HasTable, Answered, MarksIn, TablesShownTo, Chosen
  <2>4. ASSUME NEW v \in Viewers, StatusStep(v) PROVE ShownInv'
    <3>1. ASSUME NEW u \in Viewers PROVE HasTable(u)'
      <4>1. CASE u = v
          BY <1>1, <2>4, <4>1, StepTables
      <4>2. CASE u # v
        <5>1. view'[u] = view[u] /\ HasTable(u)
            BY <1>1, <2>4, <4>2, OthersUntouched DEF ShownInv, RuleInv
        <5>2. QED
            BY <1>3, <2>1, <5>1 DEF HasTable, Answered, MarksIn, TablesShownTo, Chosen
      <4>3. QED
          BY <4>1, <4>2
    <3>2. QED
        BY <1>2, <2>2, <3>1 DEF ShownInv
  <2>5. CASE Elsewhere
      BY <1>1, <1>2, <2>2, <2>5, ElsewhereTables DEF ShownInv
  <2>6. QED
      BY <1>1, <2>3, <2>4, <2>5 DEF StatusNext, viewVars
<1>4. CASE Elsewhere
  <2>1. TableInv'
      BY <1>1, <1>4, ElsewhereTable DEF ShownInv, MarksApart
  <2>2. QED
      BY <1>1, <1>2, <1>4, <2>1, ElsewhereTables DEF ShownInv
<1>5. UNCHANGED <<kernel, process>> \/ Elsewhere
  <2>1. ASSUME NEW v \in Viewers, StatusStep(v) PROVE UNCHANGED <<kernel, process>>
      BY <1>1, <2>1, StatusOnlyReads DEF ShownInv, RuleInv, MarkInv, LocalInv
  <2>2. QED
      BY <1>1, <2>1 DEF StatusNext, viewVars, vars
<1>6. QED
    BY <1>3, <1>4, <1>5

LEMMA InitShown == StatusInit => ShownInv
<1>1. SUFFICES ASSUME StatusInit PROVE ShownInv
    OBVIOUS
<1>2. RuleInv /\ chain = <<>> /\ \A p \in Process : pc[p] = "off"
    BY <1>1, InitRule DEF StatusInit, Init
<1>3. TableInv
    BY <1>2 DEF TableInv, RuleInv, MarksTabled, TableGone, TableOK, Process
<1>4. ASSUME NEW v \in Viewers PROVE HasTable(v)
  <2>1. view[v] = Blank(file, "off")
      BY <1>1 DEF StatusInit
  <2>2. view[v].at = "off"
      BY <2>1 DEF Blank
  <2>3. QED
      BY <2>2 DEF HasTable, Answered
<1>5. QED
    BY <1>2, <1>3, <1>4 DEF ShownInv

(* status.rs:231-245.  Such a report also prints "(OK)" for the route      *)
(* table of the address's egress, unless the kernel had removed the route  *)
(* from it when it was read: a reconcile replaces the route of an egress   *)
(* before it marks for it, and a cleanup deletes the nft table before the  *)
(* routes.                                                                 *)
THEOREM ReportHasRoutes ==
    ASSUME MarksApart, CleanupOrderly PROVE StatusSpec => []AddressHasTable
<1>1. ShownInv => AddressHasTable
    BY DEF ShownInv, HasTable, Answered, AddressHasTable, Printed, Chosen
<1>2. ShownInv /\ [StatusNext]_viewVars => ShownInv'
    BY NextShown
<1>3. QED
    BY <1>1, <1>2, InitShown, PTL DEF StatusSpec

=============================================================================
