---------------------------- MODULE PolicyConfig ----------------------------
(***************************************************************************)
(* The contents of policy.json, as far as they decide what is accepted and *)
(* where traffic goes: src/config.rs, the drift of src/direct_egress.rs    *)
(* and what the editing scripts make of a file.                            *)
(***************************************************************************)
CONSTANTS
    Egress,       \* names of egress interfaces
    Direct,       \* those of kind "direct"
    Wireguard,    \* those the WireGuard scripts handle
    Tunnel,       \* those enable-amnezia-policy.sh sets up, all with one table
    Retired,      \*   and the WireGuard ones it disables: wg0 and wg1
    Policy,       \* policy ids
    EgressOf,     \* EgressOf[q]: action.egress
    Domain,       \* normalized domain names
    DomainOf,     \* DomainOf[q]: the domain q matches, or NoDomain
    NoDomain,     \* "no domain": not a member of Domain
    Addable,      \* ids that add-domain-policy.sh is called with
    Template,     \* ids that enable-amnezia-policy.sh disables,
    Revived,      \*   those it enables where present,
    ByAmnezia,    \*   and those it adds, for one tunnel or the other
    Addr,         \* addresses
    NoAddr        \* "no address": not a member of Addr

(* `enabled` may be left out of an egress or a policy and is then true     *)
(* (config.rs:200, 257).  For a policy that is a case of its own, since    *)
(* add-domain-policy.sh looks for the word; nothing looks for it in an     *)
(* egress.                                                                 *)
Presence == {"absent", "disabled", "enabled"}
Marking  == Presence \cup {"implicit"}
Address  == Addr \cup {NoAddr}
Config   == [egress : [Egress -> Presence], policy : [Policy -> Marking],
             gateway : [Direct -> Address], source : [Direct -> Address],
             dns : {"soft", "hard", "undeclared"}, dry : BOOLEAN]

ASSUME NameAssumption ==
    /\ Direct \subseteq Egress /\ Wireguard \subseteq Egress /\ Tunnel \subseteq Egress
    /\ Retired \subseteq Wireguard
    /\ EgressOf \in [Policy -> Egress]
    /\ DomainOf \in [Policy -> Domain \cup {NoDomain}] /\ NoDomain \notin Domain
    /\ Addable \cup Template \cup Revived \cup ByAmnezia \subseteq Policy
    /\ NoAddr \notin Addr

(* An egress is of one kind; what enable-amnezia-policy.sh enables again   *)
(* are the direct egresses' static policies, and it adds at most one       *)
(* policy of its own for a domain.                                         *)
ASSUME ScriptAssumption ==
    /\ Direct \cap (Wireguard \cup Tunnel) = {} /\ Wireguard \cap Tunnel = {}
    /\ Revived \cap ByAmnezia = {}
    /\ \A q \in Revived : EgressOf[q] \in Direct /\ DomainOf[q] = NoDomain
    /\ \A q, r \in ByAmnezia :
          EgressOf[q] = EgressOf[r] /\ DomainOf[q] = DomainOf[r] => q = r \/ DomainOf[q] = NoDomain

Present(f) == {x \in DOMAIN f : f[x] # "absent"}
On(f)      == {x \in DOMAIN f : f[x] \in {"enabled", "implicit"}}

-----------------------------------------------------------------------------
(* Config::validate.  dns_cache.unresolved_domain_mode = hard needs the    *)
(* proxy enabled and declared; a direct egress needs a gateway; no two     *)
(* egresses share a table; an enabled policy needs an enabled egress and a *)
(* domain of its own.                                                      *)
Valid(c) ==
    /\ c.dns # "undeclared"
    /\ Present(c.egress) # {}
    /\ \A e \in Direct \cap Present(c.egress) : c.gateway[e] # NoAddr
    /\ \A e, f \in Tunnel \cap Present(c.egress) : e = f
    /\ \A q \in Present(c.policy) : EgressOf[q] \in Present(c.egress)
    /\ \A q \in On(c.policy) : EgressOf[q] \in On(c.egress)
    /\ \A q, r \in On(c.policy) : DomainOf[q] = DomainOf[r] => q = r \/ DomainOf[q] = NoDomain

(* guarded_apply: `run --apply` and `reconcile --apply` also refuse a      *)
(* configuration that asks for a dry run.                                  *)
Startable(c) == Valid(c) /\ ~c.dry

(* DirectEgressRuntimeState::drift, of what was seen of the host against   *)
(* c; what c leaves empty is not compared.                                 *)
Drift(c, e, seen) ==
    LET differs(configured, runtime) == configured \notin {NoAddr, runtime}
    IN CASE seen.gateway = NoAddr -> "missing route"
         [] seen.gateway # NoAddr /\ seen.source = NoAddr -> "missing address"
         [] OTHER -> IF differs(c.gateway[e], seen.gateway) \/ differs(c.source[e], seen.source)
                     THEN "drift" ELSE "ok"

-----------------------------------------------------------------------------
(* The editing scripts.                                                    *)

Script == [name : {"add-domain"}, arg : Addable]
     \cup [name : {"enable-wg", "disable-wg"}, arg : Wireguard]
     \cup [name : {"enable-amnezia", "enable-amnezia-domain"}, arg : Tunnel]
     \cup [name : {"enable-apply", "enable-dns"}, arg : {NoDomain}]

(* The policies whose text says they are enabled.                          *)
Declared(f) == {x \in DOMAIN f : f[x] = "enabled"}

(* Variant: the domain is not looked for among the other policies.         *)
AcceptsDuplicates(s, c) ==
    CASE s.name = "add-domain" -> EgressOf[s.arg] \in Present(c.egress)
      [] s.name = "enable-wg"  -> s.arg \in Present(c.egress)
      [] OTHER -> TRUE

(* add-domain-policy.sh wants a known egress and no other policy for the   *)
(* domain that says it is enabled (add-domain-policy.sh:46: `is True`);    *)
(* enable-wg-policy.sh wants a known egress.                               *)
Accepts(s, c) ==
    CASE s.name = "add-domain" ->
            /\ EgressOf[s.arg] \in Present(c.egress)
            /\ \A q \in Declared(c.policy) \ {s.arg} : DomainOf[q] # DomainOf[s.arg]
      [] s.name = "enable-wg" -> s.arg \in Present(c.egress)
      [] OTHER -> TRUE

(* f with value v for those of S that are present.                         *)
Set(f, S, v) == [x \in DOMAIN f |-> IF x \in S \cap Present(f) THEN v ELSE f[x]]
Through(e)   == {q \in Policy : EgressOf[q] = e}

(* What enable-amnezia-policy.sh adds: a static policy and, where it is    *)
(* given a domain, one for that.                                           *)
Added(s) == {q \in ByAmnezia \cap Through(s.arg) :
                DomainOf[q] = NoDomain \/ s.name = "enable-amnezia-domain"}

(* enable-dns stands for enable-dns-interception-config.sh,                *)
(* enable-host-dns-config.sh and host-dns-runtime-repair.sh, which all set *)
(* the hard mode together with what it needs.                              *)
Edited(s, c) ==
    CASE s.name = "add-domain" -> [c EXCEPT !.policy[s.arg] = "enabled"]
      [] s.name = "enable-wg"  -> [c EXCEPT !.egress[s.arg] = "enabled",
                                            !.policy = Set(@, Through(s.arg), "enabled")]
      [] s.name = "disable-wg" -> [c EXCEPT !.egress = Set(@, {s.arg}, "disabled"),
                                            !.policy = Set(@, Through(s.arg), "disabled")]
      [] s.name = "enable-apply" -> [c EXCEPT !.dry = FALSE]
      [] s.name = "enable-dns"   -> [c EXCEPT !.dns = "hard"]
      [] OTHER ->
            LET kept == Set(Set(c.policy, Template, "disabled"), Revived, "enabled")
            IN [c EXCEPT
                  !.egress = [Set(@, Retired, "disabled") EXCEPT ![s.arg] = "enabled"],
                  !.policy = [q \in Policy |-> IF q \in Added(s) THEN "enabled"
                                               ELSE IF q \in ByAmnezia THEN "absent"
                                               ELSE kept[q]],
                  !.dry = FALSE]

(* Where a script's own tests do not suffice for a valid result: a domain  *)
(* policy for a disabled egress, or for a domain whose policy is enabled   *)
(* without saying so; policies of an egress for a domain that has one      *)
(* already; a second tunnel with the same table, or an egress disabled, or *)
(* still disabled, under a policy that stays or is enabled.                *)
SharesDomain(S, T) ==
    \E q \in S, r \in T : q # r /\ DomainOf[q] = DomainOf[r] /\ DomainOf[q] # NoDomain

Overlooks(s, c) ==
    CASE s.name = "add-domain" ->
            \/ EgressOf[s.arg] \notin On(c.egress)
            \/ SharesDomain({s.arg}, On(c.policy) \ Declared(c.policy))
      [] s.name = "enable-wg"  ->
            LET enabled == Through(s.arg) \cap Present(c.policy)
            IN SharesDomain(enabled, enabled \cup On(c.policy))
      [] s.name \in {"enable-amnezia", "enable-amnezia-domain"} ->
            LET stays == On(c.policy) \ (Template \cup ByAmnezia)
                revived == Revived \cap Present(c.policy)
            IN \/ (Tunnel \ {s.arg}) \cap Present(c.egress) # {}
               \/ \E q \in stays : EgressOf[q] \in Retired
               \/ \E q \in revived : EgressOf[q] \notin On(c.egress)
               \/ SharesDomain(Added(s), stays)
      [] OTHER -> FALSE
=============================================================================
