--------------------------- MODULE IpRuleListing ---------------------------
(***************************************************************************)
(* The test of src/routing/iprule.rs and src/cleanup.rs for "this egress   *)
(* already has its ip rule": some line of `ip rule show` contains the text *)
(* "fwmark 0x<mark in hex>" and the text "lookup <table in decimal>".      *)
(* A line has one fwmark and one lookup, each followed by its value, so    *)
(* the line contains such a text exactly when the digits looked for are a  *)
(* prefix of the digits shown.                                             *)
(***************************************************************************)
EXTENDS Naturals, Sequences
LOCAL INSTANCE SequencesExt

(* The digits of n in base b, the most significant first.                  *)
Digits(n, b) ==
    LET d[k \in 0..n] == IF k < b THEN <<k>> ELSE Append(d[k \div b], k % b)
    IN d[n]

(* iproute2 shows a table by its name where rt_tables has one, in any case *)
(* the three tables of the kernel; a name starts with no digit.            *)
NamedTables == {253, 254, 255}

(* Does the line shown for <<mark, table>> pass the test for <<m, t>>?     *)
LinePasses(m, t, mark, table) ==
    /\ IsPrefix(Digits(m, 16), Digits(mark, 16))
    /\ table \notin NamedTables
    /\ IsPrefix(Digits(t, 10), Digits(table, 10))
=============================================================================
