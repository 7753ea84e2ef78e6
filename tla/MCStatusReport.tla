--------------------------- MODULE MCStatusReport ---------------------------
(***************************************************************************)
(* The host of MCReconcile, with a status; the text of address d2 begins   *)
(* that of d3, as 10.0.0.1 does that of 10.0.0.10.                         *)
(***************************************************************************)
EXTENDS MCReconcile, StatusReport

(* One policy of each configuration is a domain policy; brief has q2 too,  *)
(* disabled.                                                               *)
MCAsked == [c \in Config |-> IF c = brief THEN <<q1, q2>> ELSE <<q3>>]

MCLineShows == {<<d, e, c, f>> \in Dest \X Egress \X Dest \X Egress :
                   e = f /\ (c = d \/ (d = d2 /\ c = d3))}
=============================================================================
