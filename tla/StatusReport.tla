---------------------------- MODULE StatusReport ----------------------------
(***************************************************************************)
(* `eve-net status` (src/status.rs) beside the processes of Reconcile.  It *)
(* changes nothing, but puts its report together from several commands:    *)
(* the nft table, the nft chain twice, the ip rules once for all the       *)
(* egresses, then a route table per egress; the policies are judged at the *)
(* end, by the text the chain had at the beginning.                        *)
(***************************************************************************)
EXTENDS Reconcile

CONSTANTS
    Viewers,      \* processes of `eve-net status`
    Asked,        \* Asked[c]: the domain policies of c, disabled ones too, in file order
    LineShows     \* <<d, e, c, f>>: the line of a chain rule for c with f's mark
                  \*   passes the test for address d and e's mark

ASSUME ViewAssumption ==
    /\ Viewers \cap Process = {}
    /\ Asked \in [Config -> Seq(Policy)]
    /\ LineShows \subseteq Dest \X Egress \X Dest \X Egress

VARIABLES
    view       \* view[v]: the status v is in

(* The step v is at, its configuration, what it printed of the chain, the  *)
(* text of the chain (no text: no lines), the listing of the ip rules, the *)
(* position in a list; per egress whether "(OK)" was printed for its route *)
(* table and its mark; the egresses of the addresses printed with each     *)
(* state; and (not in the code) the egresses whose route the kernel had    *)
(* removed when their tables were read, and whether all it read has stayed.*)
State == {"OK", "MISSING", "UNKNOWN"}
View  == [at : {"off", "table", "chain", "text", "rules", "egress", "policy", "shown"},
          conf : Config, chainOk : BOOLEAN, text : {"none", "some"}, lines : Seq(Rule),
          rules : SUBSET Egress, idx : Nat \ {0}, table : SUBSET Egress,
          fwmark : SUBSET Egress, address : [State -> SUBSET Egress],
          dropped : SUBSET Egress, stayed : BOOLEAN]

(* Variant: positions count from 0.                                        *)
BlankFromZero(c, l) ==
    [at |-> l, conf |-> c, chainOk |-> FALSE, text |-> "none", lines |-> <<>>,
     rules |-> {}, idx |-> 0, table |-> {}, fwmark |-> {},
     address |-> [s \in State |-> {}], dropped |-> {}, stayed |-> TRUE]

Blank(c, l) ==
    [at |-> l, conf |-> c, chainOk |-> FALSE, text |-> "none", lines |-> <<>>,
     rules |-> {}, idx |-> 1, table |-> {}, fwmark |-> {},
     address |-> [s \in State |-> {}], dropped |-> {}, stayed |-> TRUE]

viewVars == <<vars, view>>

-----------------------------------------------------------------------------
(* The steps of print_status.                                              *)

(* v goes on with its local variables as in r.                             *)
Show(v, r) == view' = [view EXCEPT ![v] = r] /\ UNCHANGED vars

StartStatus(v) ==
    /\ view[v].at = "off"
    /\ Show(v, Blank(file, "table"))

(* print_nft_status probes the table, whatever comes of it,                *)
ProbeTable(v) ==
    /\ view[v].at = "table"
    /\ Show(v, [view[v] EXCEPT !.at = "chain"])

(* probes the chain,                                                       *)
ProbeChain(v) ==
    /\ view[v].at = "chain"
    /\ Show(v, [view[v] EXCEPT !.at = IF nft = "chain" THEN "text" ELSE "rules",
                               !.chainOk = (nft = "chain")])

(* and lists it, for the text, if it was there; it may be gone.            *)
ListChain(v) ==
    /\ view[v].at = "text"
    /\ Show(v, [view[v] EXCEPT
                  !.at = "rules",
                  !.text = IF nft = "chain" THEN "some" ELSE "none",
                  !.lines = IF nft = "chain" THEN chain ELSE <<>>])

ListIpRules(v) ==
    /\ view[v].at = "rules"
    /\ Show(v, [view[v] EXCEPT !.at = "egress", !.rules = ipRules])

(* print_one_egress: the rule is looked for in the listing, the default    *)
(* route in the table as it is now.                                        *)
Marked(v, e) == IF \E f \in view[v].rules : <<e, f>> \in Shows
                THEN view[v].fwmark \cup {e} ELSE view[v].fwmark

ShowEgress(v) ==
    /\ view[v].at = "egress"
    /\ LET i == view[v].idx
       IN \/ /\ i <= Len(Listed[view[v].conf])
             /\ LET e == Listed[view[v].conf][i]
                IN Show(v, [view[v] EXCEPT
                              !.idx = i + 1,
                              !.table = IF NoRoute(e) THEN @ ELSE @ \cup {e},
                              !.fwmark = Marked(v, e),
                              !.dropped = IF routes[e] = Dropped THEN @ \cup {e} ELSE @])
          \/ /\ i > Len(Listed[view[v].conf])
             /\ Show(v, [view[v] EXCEPT !.at = "policy", !.idx = 1, !.rules = {}])

(* Variant: a chain without a line for the address is taken for no text.   *)
RuleStateByLines(v, d, e) ==
    IF view[v].lines = <<>> THEN "UNKNOWN"
    ELSE IF \E i \in DOMAIN view[v].lines :
              <<d, e, view[v].lines[i].dest, view[v].lines[i].mark>> \in LineShows
         THEN "OK" ELSE "MISSING"

(* Variant: the chain is listed again for each address.                    *)
RuleStateNow(v, d, e) ==
    IF nft # "chain" THEN "UNKNOWN"
    ELSE IF \E i \in DOMAIN chain : <<d, e, chain[i].dest, chain[i].mark>> \in LineShows
         THEN "OK" ELSE "MISSING"

(* nft_rule_state, by the text the chain had.                              *)
RuleState(v, d, e) ==
    IF view[v].text = "none" THEN "UNKNOWN"
    ELSE IF \E i \in DOMAIN view[v].lines :
              <<d, e, view[v].lines[i].dest, view[v].lines[i].mark>> \in LineShows
         THEN "OK" ELSE "MISSING"

(* The addresses ds of the policy in hand, each with its state.            *)
ShowAddresses(v, ds) ==
    LET e == EgressOf[Asked[view[v].conf][view[v].idx]]
    IN Show(v, [view[v] EXCEPT
          !.idx = view[v].idx + 1,
          !.address = [s \in State |-> view[v].address[s] \cup
             {x \in {e} : \E d \in RangeOf(ds) : RuleState(v, d, x) = s}]])

(* print_policy_status: each domain policy is resolved again, an enabled   *)
(* one or not, and may now yield other addresses than the reconcile had    *)
(* found, or none, or fail.                                                *)
ShowPolicy(v) ==
    /\ view[v].at = "policy"
    /\ \/ /\ view[v].idx <= Len(Asked[view[v].conf])
          /\ \E ds \in Yields[Asked[view[v].conf][view[v].idx]] \cup {<<>>} :
                ShowAddresses(v, ds)
       \/ /\ view[v].idx > Len(Asked[view[v].conf])
          /\ Show(v, [view[v] EXCEPT !.at = "shown"])

EndStatus(v) ==
    /\ view[v].at = "shown"
    /\ Show(v, Blank(file, "off"))

(* A command fails: a probe is then not OK, a listing without lines, a     *)
(* route table without a route.                                            *)
ReadFails(v) ==
    /\ Event
    /\ \/ /\ view[v].at \in {"chain", "text", "rules"}
          /\ view' = [view EXCEPT ![v].at = IF @ = "rules" THEN "egress" ELSE "rules",
                                  ![v].stayed = FALSE]
       \/ /\ view[v].at = "egress" /\ view[v].idx <= Len(Listed[view[v].conf])
          /\ view' = [view EXCEPT ![v].idx = view[v].idx + 1, ![v].stayed = FALSE,
                                  ![v].fwmark = Marked(v, Listed[view[v].conf][view[v].idx])]
    /\ UNCHANGED <<kernel, up, host, file, process>>

-----------------------------------------------------------------------------
(* What the other processes and the environment do meanwhile.              *)
Elsewhere ==
    /\ Next
    /\ view' = [v \in Viewers |-> [view[v] EXCEPT
          !.stayed = @ /\ ipRules \subseteq ipRules' /\ (nft = "chain" => nft' = "chain")]]

StatusInit ==
    /\ Init
    /\ view = [v \in Viewers |-> Blank(file, "off")]

StatusStep(v) ==
    \/ StartStatus(v) \/ ProbeTable(v) \/ ProbeChain(v) \/ ListChain(v)
    \/ ListIpRules(v) \/ ShowEgress(v) \/ ShowPolicy(v) \/ EndStatus(v)
    \/ ReadFails(v)

StatusNext == Elsewhere \/ \E v \in Viewers : StatusStep(v)

StatusSpec == StatusInit /\ [][StatusNext]_viewVars

-----------------------------------------------------------------------------
(* Properties.                                                             *)

(* The type invariant of a status.                                         *)
ViewOK == view \in [Viewers -> View]

(* No line for one mark passes for another, in either test.                *)
MarksApart ==
    /\ ExactListing
    /\ \A x \in LineShows : x[2] = x[4]

Printed(v) == IF view[v].at \in {"policy", "shown"} THEN view[v].address["OK"] ELSE {}

(* Though the parts are read at different times, while reconciles go on: a *)
(* report with an address "[nft: OK]" also says "(OK)" of the mark that    *)
(* the address is given, because status.rs:43-45 asks for the chain first  *)
(* and a reconcile fills it last.                                          *)
AddressHasRule ==
    \A v \in Viewers : view[v].stayed /\ MarksApart =>
        Printed(v) \cap RangeOf(Listed[view[v].conf]) \subseteq view[v].fwmark

(* Likewise it says "(OK)" of the route table, unless the kernel had       *)
(* removed the route the reconcile installed, with the link or with the    *)
(* address, in which case the marks stay and point to an empty table: what *)
(* the report shows is then the state of the host, no mixture of two.      *)
AddressHasTable ==
    \A v \in Viewers : view[v].stayed /\ MarksApart =>
        Printed(v) \cap RangeOf(Listed[view[v].conf]) \subseteq view[v].table \cup view[v].dropped

(* "[nft: UNKNOWN]" is printed of a chain that could not be read, never of *)
(* one that a reconcile has just emptied (status.rs:393-395).              *)
UnknownIsUnread ==
    \A v \in Viewers : view[v].stayed /\ view[v].address["UNKNOWN"] # {} => ~view[v].chainOk
=============================================================================
