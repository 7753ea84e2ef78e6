----------------------------- MODULE SharedCache -----------------------------
(***************************************************************************)
(* What sharing the file of DnsCache without a lock can cost, and what not.*)
(* A program that has read the file falls behind when another one changes  *)
(* it; the programs race when one that is behind goes on to write its copy *)
(* back.  Up to the first race the cache is what CacheStore promises,      *)
(* however the programs interleave, fail and are killed.                   *)
(***************************************************************************)
EXTENDS DnsCache

VARIABLES
    behind,  \* (history) programs whose copy is not what the file holds now
    raced    \* (history) one of those has begun to write its copy back

HasRead(p) == pc[p] \in {"lookup", "truncate"}

Track ==
    /\ behind' = {p \in Process : HasRead(p) /\ HasRead(p)' /\ (p \in behind \/ file' # file)}
    /\ raced' = (raced \/ \E p \in behind : pc[p] = "truncate" /\ pc'[p] = "write")

sharedVars == <<vars, behind, raced>>

SharedInit == Init /\ behind = {} /\ raced = FALSE

SharedNext == Next /\ Track

SharedSpec == SharedInit /\ [][SharedNext]_sharedVars

-----------------------------------------------------------------------------
(* Properties.                                                             *)

(* README.md:105 "live DNS success: cache updated": nothing but a race     *)
(* undoes what was saved for the domain of a policy; not the failure of a  *)
(* lookup, not a prune, not a save that fails or is killed half-way, and   *)
(* not the other programs that read the file meanwhile.                    *)
OnlyRacesUndo == ~raced => UpdatesKept

(* The programs that have truncated the file and not filled it yet.        *)
Writing == {p \in Process : pc[p] = "write"}

(* A save counts from when it truncates the file: who is killed then loses *)
(* the whole cache, as whoever loads it next finds out.                    *)
Stored == IF Writing = {} THEN entries ELSE task[CHOOSE p \in Writing : TRUE].mem
IsLost == Writing = {} /\ ~Readable

Store == INSTANCE CacheStore WITH store <- Stored, lost <- IsLost

(* Until programs race, load, lookup, truncation and write of each of them *)
(* are one change of one entry to whatever the cache holds then, and       *)
(* nothing else ever changes it but its loss: DnsCache implements          *)
(* CacheStore (dns_cache.rs:46-250).                                       *)
SavesAreAtomic == Store!Spec
=============================================================================
