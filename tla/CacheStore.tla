----------------------------- MODULE CacheStore -----------------------------
(***************************************************************************)
(* What the DNS cache promises until two of its programs race: each save   *)
(* takes effect at once and changes one entry, or drops those of domains   *)
(* the configuration does not name.  Only the whole cache can be lost, and *)
(* then it stays lost.  Once a copy that was out of date has been written  *)
(* back, nothing is promised.                                              *)
(***************************************************************************)
EXTENDS Naturals

CONSTANTS
    Domain,      \* normalized domain names
    Configured,  \* those that policies name
    Entry,       \* [ips, at, expires, error]
    NoEntry,     \* "no entry"
    Ttl          \* for how long an answer is fresh

VARIABLES
    store,  \* store[d]: the entry of d
    lost,   \* the file can no longer be read
    raced   \* a copy that was out of date has been written back

(* The answer to a lookup, or of an upstream: fresh from then on for ttl,  *)
(* and no older than what it replaces.                                     *)
PutsAnswer(c, m) ==
    \E d \in Domain :
        /\ m[d] # NoEntry /\ ~m[d].error /\ m[d].ips # {}
        /\ m[d].expires = m[d].at + Ttl
        /\ c[d] # NoEntry => c[d].at <= m[d].at
        /\ m = [c EXCEPT ![d] = m[d]]

(* The failure of a lookup, beside the addresses and times there were.     *)
FlagsError(c, m) ==
    \E d \in Domain : c[d] # NoEntry /\ m = [c EXCEPT ![d].error = TRUE]

Prunes(c, m) == m = [d \in Domain |-> IF d \in Configured THEN c[d] ELSE NoEntry]

Changes(c, m) == PutsAnswer(c, m) \/ FlagsError(c, m) \/ Prunes(c, m)

Init == store \in [Domain -> Entry \cup {NoEntry}] /\ lost = FALSE /\ raced = FALSE

Save == ~lost /\ Changes(store, store') /\ UNCHANGED <<lost, raced>>

Lose == ~lost /\ lost' = TRUE /\ store' = [d \in Domain |-> NoEntry] /\ UNCHANGED raced

Race == raced' = TRUE

Next == Save \/ Lose \/ Race

Spec == Init /\ [][Next]_<<store, lost, raced>>
=============================================================================
