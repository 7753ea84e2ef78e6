---------------------------- MODULE MCPolicyFile ----------------------------
(***************************************************************************)
(* A direct egress, wlo, a WireGuard one, wg, and two tunnels, of which    *)
(* amn is in the file; policies as in config/policy.example.json: a static *)
(* one on wlo, a template on wg, one domain that may be sent through wg or *)
(* through amn, and what enable-amnezia-policy.sh adds.                    *)
(***************************************************************************)
EXTENDS PolicyFile, TLC

CONSTANTS wlo, wg, amn, tun,                     \* egresses
          google, template, siteWg, siteAmn,     \* policies
          amnStatic, amnSite, tunStatic,
          site,                                  \* the domain
          a1, a2                                 \* addresses

MCEgressOf == (google :> wlo) @@ (template :> wg) @@ (siteWg :> wg) @@ (siteAmn :> amn)
              @@ (amnStatic :> amn) @@ (amnSite :> amn) @@ (tunStatic :> tun)
MCDomainOf == [q \in Policy |-> IF q \in {siteWg, siteAmn, amnSite} THEN site ELSE NoDomain]

Example == [egress  |-> (wlo :> "enabled") @@ (wg :> "disabled") @@ (amn :> "disabled")
                        @@ (tun :> "absent"),
            policy  |-> [q \in Policy |-> CASE q = google -> "enabled"
                                            [] q = template -> "disabled"
                                            [] OTHER -> "absent"],
            gateway |-> (wlo :> a1), source |-> (wlo :> a1), dns |-> "soft", dry |-> TRUE]

(* As installed; in use, with a policy of the domain through each of two   *)
(* egresses; and edited by hand: no source address, hard mode undeclared,  *)
(* or `enabled` left out of the domain's policy.                           *)
InUse == [Example EXCEPT !.egress[wg] = "enabled", !.egress[amn] = "enabled", !.dry = FALSE,
                         !.policy[siteWg] = "enabled", !.policy[siteAmn] = "disabled"]
ByHand == [InUse EXCEPT !.source[wlo] = NoAddr, !.dns = "undeclared"]
Terse == [InUse EXCEPT !.policy[siteWg] = "implicit", !.policy[siteAmn] = "absent"]
MCOld == {Example, InUse, ByHand, Terse}

(* Another address, none yet, no connection.                               *)
MCLeases == {[gateway |-> a2, source |-> a2], [gateway |-> a1, source |-> NoAddr], NoPair}
=============================================================================
