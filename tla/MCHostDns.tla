------------------------------ MODULE MCHostDns ------------------------------
(***************************************************************************)
(* The wireless link and the tunnel of the AmneziaVPN client, which brings *)
(* a resolver of its own for all domains.                                  *)
(***************************************************************************)
EXTENDS HostDns, TLC

CONSTANTS wlo, amn

MCLink == <<wlo, amn>>
MCOwn  == (wlo :> [dns |-> "own", domain |-> "none", route |-> "yes"])
          @@ (amn :> [dns |-> "own", domain |-> "all", route |-> "yes"])
=============================================================================
