# eve-net: a TLA+ development

`eve-net` routes traffic by policy. A JSON file names *egresses* (tunnels, a
direct link), each with a fwmark and a route table, and *policies*, each sending
some destinations, users or domains to an egress. A runtime turns the file into
kernel state: an nftables chain that marks packets, ip rules that send a mark to
its table, and a default route in each table. This directory models that runtime,
the DNS cache it depends on, the DNS proxy that feeds the cache, the programs that
share the policy file, the status report, and the scripts that point the host's
resolver at the proxy. TLC checks the models on small instances; TLAPS proves the
type invariants and most of the safety properties, with three refinements, for all
instances.

Paths below are relative to the repository; `src/runtime.rs` is the Rust source.

## 1. Inventory

| Component | State it keeps | Operations | Interacts with | What is hard | What makes it correct |
|---|---|---|---|---|---|
| **Reconcile loop** `src/runtime.rs` | configuration loaded at start; locals of one pass | `run` (loop, sleep, ctrl-c), `reconcile_once` | kernel through `nft` and `ip`; DNS cache; systemd restarts it | some 15 external commands per pass, any may fail or be the last before a kill; a second process may do the same at once | marked packets have an ip rule and a route; the chain is exactly what configuration and health call for, in order; it recovers from any disturbance |
| **nft and ip commands** `src/routing/` | kernel: table, chain, rules, routes | ensure table and chain, flush, add rule; ensure route, ensure ip rule | shared by every process | check then add; presence decided from the text of `ip rule show` | adding is idempotent; the test is true of the egress in hand |
| **Health, direct egress** `src/health.rs`, `src/direct_egress.rs` | none; `refresh-direct-egress` rewrites the configuration file | `is_egress_healthy`, inspection by two commands, drift, plan, second reading, write | links, DHCP, the policy file | an answer is stale when it is used; gateway and address are asked one after the other | a route never names an address that was not the host's when inspected; a refresh ends the drift and undoes no edit |
| **Cleanup** `src/cleanup.rs` | none | delete table, ip rules, route tables | same kernel state | failures are only logged; may interrupt a reconcile | marks go before rules; nothing of the configuration is left |
| **Executor** `src/exec.rs` | apply or dry run | `run`, `run_allow_fail`, `capture`, `capture_or_empty` | every external command | which failures abort, which read as "nothing there" | (part of the callers) |
| **DNS cache** `src/dns_cache.rs`, `src/dns.rs` | `dns-cache.json` | resolve, refresh, prune, store the proxy's answers | service, commands, two timers and the proxy share the file, without a lock | load, wait for DNS, write all back; truncate, then write | no address is used beyond its window; no update is lost |
| **DNS proxy** `src/dns_proxy.rs` | socket; counters | serve a query, ask upstreams in turn, store answers, deny | clients, upstreams, cache | lost and late answers, timeouts, one query at a time | only the asked question is answered; policy domains fail closed; every query ends |
| **Host DNS scripts** `scripts/host-dns-*.sh` | settings of links in systemd-resolved, `resolv.conf`, NetworkManager, snapshots | snapshot, apply, roll back, repair, safe-stop, backup, revert | systemd, the proxy | a script dies between two commands; apply twice; a link comes or goes meanwhile | a snapshot gives back what it was taken of; a failed apply leaves names that resolve |
| **Configuration** `src/config.rs` | the file | load, validate, upstream list | every command reads it once | several programs read and rewrite it in place; values that validation lets through | what is accepted can be reconciled; what is written is accepted |
| **Status** `src/status.rs` | none | list table, chain, rules, route tables, resolve again, print | kernel tables, DNS cache | the parts are read at different times | the parts of one report agree |
| **Validate** `src/validate.rs` | none | load, collisions, inspection of enabled egresses | policy file, links | a failed inspection is only noted | PASS is true of what was looked at |
| **Tunnel, WireGuard and Wi-Fi detection** `src/tunnel.rs`, `wireguard.rs`, `wifi.rs` | none | print | read only | - | - |
| **Command line** `src/main.rs` | none | dispatch; `--apply` | - | what may run beside what | - |
| **Editing scripts** `scripts/add-domain-policy.sh`, `enable-*.sh`, `disable-wg-policy.sh`, `refresh-direct-egress.sh`, `reload-policy.sh` | the policy file | read, test, change, truncate, write; stop, reconcile, start | policy file, service | overlapping edits; a result the service does not accept | no finished edit is lost; the result is accepted |
| **Install, build, test scripts** `scripts/` | files | copy, check | units | - | - |

The parts meet in the kernel's tables (reconcile, cleanup, scripts), in
`policy.json` (editing scripts, refresh-direct-egress, every reader) and in
`dns-cache.json` (reconcile, refresh and prune timers, proxy). None of these has
a lock: `scripts/reload-policy.sh` stops the service before it reconciles, and
that convention is all that separates the processes.

`PROJECT.json` lists the hazards of this code at their lines, with the properties
that cover each and, where a property leaves a part of one open, which part.

## 2. Modules

| Module | What it is |
|---|---|
| `Reconcile` | the runtime: service, `reconcile` commands and cleanups over one kernel, one action per external command |
| `IpRuleListing` | the text test on `ip rule show` of `src/routing/iprule.rs:53-57` and `src/cleanup.rs:30-35` |
| `PolicyChain` | abstract specification: what the output chain promises. `Reconcile` is checked to implement it |
| `DnsCache` | the cache file and the operations on it |
| `SharedCache` | `DnsCache`, which it extends, with what the programs that share the file owe to each other: who holds an outdated copy, and whether one has been written back |
| `CacheStore` | abstract specification: what the cache promises until an outdated copy is written back. `SharedCache` is checked to implement it |
| `DnsProxy` | the DNS proxy with its clients and upstreams |
| `DnsService` | abstract specification: what the proxy promises a client. `DnsProxy` is checked to implement it |
| `DomainRouting` | from a DNS answer to the marking rule: the service's passes composed with the programs of `DnsCache`, which it extends |
| `PolicyConfig` | pure definitions: contents of `policy.json`, `Config::validate`, drift, what each editing script makes of a file |
| `PolicyFile` | the file on disk with the service, refresh, editing scripts, validate and reload beside one another |
| `StatusReport` | `eve-net status` beside all processes of `Reconcile`, which it extends |
| `HostDns` | the host DNS scripts by the method `resolved` |
| `MCReconcile`, `MCDnsCache`, `MCDnsProxy`, `MCDomainRouting`, `MCPolicyFile`, `MCStatusReport`, `MCHostDns` | the instances TLC checks |
| `Reconcile_proofs` | type correctness of `Reconcile`, and that marks always have their ip rule |
| `ReconcileSerial_proofs` | what holds when processes are serialized: installation order, the chain's contents, cleanup, and the refinement of `PolicyChain` |
| `DnsCache_proofs`, `DnsProxy_proofs`, `DomainRouting_proofs`, `PolicyFile_proofs`, `StatusReport_proofs`, `HostDns_proofs` | the theorems about the other modules; those of `DnsCache` and `DnsProxy` hold the refinements of `CacheStore` and `DnsService` |

### Reconcile

The kernel is `nft` (is there a table, a chain), `chain` (its rules in order),
`ipRules` (egresses whose mark is sent to their table) and `routes` (the default
route of each table). The world around it is `up`, `host` (gateway and source
address, moved by DHCP), and `file` (the configuration file). A process has a
`pc` (the command it runs next), the configuration it loaded, `first` (no pass
has returned yet, which decides whether a failure ends the service or is logged,
`runtime.rs:35-46`) and `work`, the locals of the pass it is in.

| Code | Actions |
|---|---|
| `ensure_table_and_chain` | `CheckTable`, `AddTable`, `CheckChain`, `AddChain` |
| `healthy_egress_map`, `is_egress_healthy` | `CheckHealth`, once per egress in file order; `HealthKnown` at the end |
| `apply_direct_egress_runtime_state` | `InspectRoute` (`ip route show default`), then `InspectAddr` (`ip addr show`) with drift followed or refused; DHCP may be between them |
| `ensure_route_table_default` | `ReplaceRoute`, in any order of the egresses (a `HashMap`'s values); refused by the kernel through a link that is down or with an address the host has no longer |
| `ensure_fwmark_rule` | `ListRules` (one listing), `AddRule` (fails if the rule is there after all) |
| `flush_policy_chain` | `FlushAll` (nothing healthy, fail closed), `Flush` |
| the policy loop | `SkipPolicy`, `Resolve`, `AddPolicyRule` for each resolved address, `EndPolicies` |
| `cleanup` | `DropTable`, `ListForDrop`, `DropRule`, `DropRoute`, `EndCleanup` |
| `?` on a command; `run_allow_fail`, `capture_or_empty` | `CommandFails`; `DeletionFails` |
| `run`, systemd | `StartService`, `Wake`, `Restart`, `Stop`, `Crash` |
| links, DHCP, editing scripts | `LinkDown`, `LinkUp`, `Dhcp`, `EditConfig` |

Modelled as assumptions: the commands run with `--apply` (a dry run issues no
command). One external command is atomic. `delete_fwmark_rules` and the flush of
the route tables check, then delete; the check and the deletion of one egress are
one step, since a failing deletion is only logged and a missing object is nothing
to delete. An egress keeps its mark, table and priority in all configurations.
Each direct egress has its gateway and source address configured. `Leases` are the
pairs DHCP gives; `Ip` are single addresses, so that the two commands of an inspection
can return the gateway of one lease with the address of another. The kernel may take
the routes of an egress away when its link goes down or its address is lost or
replaced; the table then holds `Dropped`, which the properties tell from a route that
was never installed or was deleted (`NoAddr`) and the code does not. A policy's
resolutions are the set `Yields`: `DnsCache` is where they come from.

### DnsCache

`disk` is the file's condition: absent, readable, truncated (empty) or corrupt
(a mixture of two texts). `task[p]` is the operation in progress: the copy of the
cache it loaded, the time it read, the result.

| Code | Actions |
|---|---|
| `resolve_with_mode` | `LoadToResolve` (a reconcile stops at a fresh entry), `LookupAnswers`, `LookupFails` (`fallback_after_live_failure`) |
| `refresh_domain_policies` | the same for one domain after the other (`NextDomain`) |
| `upsert_live_ips_from_proxy` | `LoadToStore` |
| `prune_cache_to_configured_domains` | `LoadToPrune` |
| `load_cache_or_empty` | `Loaded`; `LoadFails` on a file that does not parse |
| `save_cache` (`fs::write`) | `Truncate`, `Write`, `SaveFails` |
| kills; the clock | `Crash`; `Tick` |

`SharedCache` adds history: `behind`, the programs that have read the file before
another one changed it, and `raced`, set when one of these begins to write its copy.

The clock only moves forward, the cache is enabled and may be written. The entries
of the file at the beginning (`Old`) are no newer than the clock's start and expire
within `ttl`; each process runs one kind of program. Two writers
that have both truncated the file write over each other from its beginning, so the
file may end as a mixture that does not parse. `answers` and `kept` are history
variables: what lookups answered and when, and the newest entry saved per domain.

### DnsProxy

`inbox` is the buffer of the listening socket, `cur` the datagram in hand; `requests`
are the requests to upstreams so far, any of which may still be answered at its
port. `arrived[n]` is the question of the n-th datagram, of kind A, AAAA, other
(another type or class), unparsable, or too short for a header. `saved` and
`given` are history: what was stored, what was answered after which failures.

| Code | Actions |
|---|---|
| the loop of `run_dns_proxy` | `Receive`, `Send`; `Crash` and `Restart` |
| `handle_query` up to the forwarding | `Classify`, within `Receive` |
| `forward_query_with_failover`, `forward_query` | `Ask`, `AskFails`, `Timeout`, with `UpstreamFails` for the next one or the error |
| the rest of `handle_query` | `TakeReply` |
| `upsert_live_ips_from_proxy` | `Store`, `StoreFails` (what it does to the file is `DnsCache`) |
| clients | `Arrive` |

An upstream answers the question it was asked, or not, at any time; the code takes
the first datagram that reaches the socket, with any response code and contents.
A port is not bound again while an answer to its previous socket is on the way:
the kernel picks among some 28,000 at random, so this is an assumption about time
and not about the code. The proxy does not compare the answer's id or question
with its own.

### DomainRouting

The variables of `DnsCache`, `chain[d]` (the addresses marked for the policy of domain
d), and the service's loop: `pass`, `todo` (policies still to apply) and `since` (when it
emptied the chain). `given[d]` is history: the entry whose addresses the proxy gives a
client next, if no other program held a copy of the file when it was saved.

| Code | Actions |
|---|---|
| `reconcile_once` up to `flush_policy_chain`; sleeping and the next pass | `BeginPass` |
| the policy loop: `resolve_for_runtime`, the rules, `continue` | `ResolvePolicy`, `AddRule`, `EndPolicy` |
| its end; `?` on a rule, and kills | `EndPass`; `AbortPass` |
| the steps of `dns_cache.rs`, of the service and all others | `CacheStep` (`Quiet`, `Answer`, `Save`) |
| timers, clients, kills of the others | `Others` |

This is where three components meet: the proxy's only way to the packet filter is the
cache file. The egresses are healthy and installed (`Reconcile` is about that). Policies
and the addresses of one are taken in any order, since no property here tells orders
apart. Of the proxy only the storing of A answers is here; `DnsProxy` has the rest.

### PolicyFile

`disk` is the file's condition (whole, truncated, corrupt), `content` what a whole
file says, `host` and `link` the addresses and links of the host. `task[p]` holds
the locals of a program: the configuration in use, the egresses still to inspect,
what was seen of them, whether it warned. `want` (the first content with every
finished edit made), `overlapped`, `read`, `still` and `noted` (egresses whose
inspection failed) are history. A configuration has, per egress and policy, absent,
disabled or enabled, for a policy also enabled by leaving `enabled` out, which the
program and `add-domain-policy.sh` read differently; per direct egress gateway and source address; the unresolved-domain mode; and `dry_run`.

| Code | Actions and definitions |
|---|---|
| `Config::load`, `Config::validate`, the gate of `--apply` | `Unusable`, `LoadFails`; `Valid`, `Startable` |
| `run --apply` under systemd | `LoadToRun`, `Restart`, `StopService` |
| `reload-policy.sh` | `ReloadStop`, `ReloadOnce`, `ReloadStart` |
| editing scripts | `LoadToEdit` with `Accepts` and `Edited`, `Truncate`, `Write` |
| `print_refresh_direct_egress` | `LoadToInspect` (twice: `main.rs` loads too), `Pick`, `InspectRoute`, `InspectAddr`, `InspectFails`, `Reread` with `Refreshed`, `Truncate`, `Write` |
| `validate` | `LoadToInspect`, `Pick`, `InspectRoute`, `InspectAddr`, `InspectFails`; `End` |
| kills, DHCP, links | `Crash`, `Dhcp`, `LinkChanges` |

`fs::write` and Python's `write_text` truncate first and fill then; two writers
that overlap may leave a mixture that does not parse. The service is loading at
the beginning, as after boot; later starts are events or by `reload-policy.sh`.
Egresses are inspected in one fixed order. Only links of enabled egresses change. `Valid` and
`Edited` keep what relates two parts of the file; checks of one value (names,
ranges, prefixes) are left out. `ScriptAssumption` says what the scripts' own
constants satisfy: an egress is of one kind, `enable-amnezia-policy.sh` enables
again only the static policies of direct egresses, and it adds at most one policy
of its own per egress and domain. `Overlooks` states exactly where a script
accepts an edit after which the file is refused.

### StatusReport

The variables of `Reconcile` and `view[v]`: where a status is, what it has read and
printed, and, as history, which routes the kernel had dropped when their tables were
read. Domain policies are shown whether enabled or not.

| Code | Actions |
|---|---|
| `print_status`, `print_nft_status` | `StartStatus`, `ProbeTable`, `ProbeChain`, `ListChain` |
| `print_egress_status`, `print_one_egress` | `ListIpRules`, `ShowEgress` |
| `print_policy_status`, `nft_rule_state` | `ShowPolicy` with `RuleState`; `EndStatus` |
| `capture_or_empty` on a failing command | `ReadFails` |

Every step of `Reconcile` may come between two steps of a status (`Elsewhere`).
`LineShows` is the text test for an address in a chain's line, where one address
may be the beginning of another's text. The run is serialized: a cleanup beside a
reconcile that is still marking really leaves marks without rules, and a status
then shows that truly; without cleanups the theorem needs no such assumption.

### HostDns

`links[l]` are the settings systemd-resolved has for a link (servers, the routing
domain `~.`, default route), `snaps` the snapshot files from the oldest to the
latest, `run` the script in progress with the `resolvectl` commands still to run;
`before` is history: what each snapshot should have noted.

| Code | Actions |
|---|---|
| `host-dns-apply.sh` | `BeginApply`, `TakeSnapshot`, `ChooseLinks`, `RunCommand`, `TestApply`; `Undo` (`rollback_now`), `Check` |
| `host-dns-runtime-snapshot.sh` | `TakeSnapshot`, with a reading that fails |
| `host-dns-runtime-restore.sh` | `RunCommand` at `restore`, `RestoreDone` |
| `host-dns-rollback.sh`, `--repair` | `BeginRollback`, `RestoreDone`, `Check` |
| `host-dns-runtime-repair.sh` | `BeginRepair`, `RestartProxy`, `ChooseLinks`, `RunCommand`, `TestRepair` |
| `host-dns-safe-stop.sh` | `SafeStop` |
| `set -e`, `\|\| true`; kills | `CommandFails`, `Kill` |
| links, proxy, network | `LinkGoes`, `LinkComes`, `ProxyDies`, `ProxyStarts`, `NetChanges` |

One script runs at a time, the proxy listens on port 53 when it is active, and
each `resolvectl` command is one step. The commands still to run are a set, taken in
the order of links and fields; the Wi-Fi link the scripts name is always there, the
others of `Optional` come and go. `Works` says whether a name resolves: by
the links all domains are routed to or, failing these, the default ones.

## 3. Runs

States and times are those of a machine with two TLC workers.

| Run | Checks | Instance | Result |
|---|---|---|---|
| `serialized` | `TypeOK`, `MarkHasRule`, `InstalledBeforeMarked`, `ChainFollowsConfig`, refinement `KeepsChainOrder` | service, one command, one cleanup, never two at once; three configurations; five events | holds, 4.2 million states |
| `cleanup_failures` | `CleanupComplete` | the same with failing cleanup commands; two configurations | holds, 1.9 million |
| `recovery` | `MarkHasRule`, `Recovers` | service and command at the same time, with fairness; two configurations; three events | holds, 1.4 million |
| `dns_concurrent` | `TypeOK`, `AnswersAreRecent` | reconcile, refresh, prune and proxy at once, kills, failing saves; `allow_stale` | holds, 3.1 million |
| `dns_races` | `OnlyRacesUndo`, refinement `SavesAreAtomic` | refresh, prune and proxy at once over four domains, two of them with enabled policies; kills, failing saves | holds, 2.8 million |
| `dns_proxy` | `TypeOK`, `CachedBeforeAnswered`, `FailoverInOrder`, refinement `Serves`, `ServedInTurn`, `EveryQueryEnds` | two datagrams of six kinds, two upstreams, one kill, four settings, with fairness | holds, 0.1 million |
| `domain_routing` | `RoutingTypeOK`, `MarkedAreRecent`, `GivenStays`, `RepliesGetMarked`, `ReconcileUsesGiven` | service and proxy at the same file, two domains, kills, refused rules, failing saves and lookups; two events, with fairness | holds, 1.9 million |
| `policy_file` | `TypeOK`, `EditsKept`, `WritersKeepValid`, `RefreshEndsDrift`, `PassIsTrue`, `ServiceComesUp` | service, refresh, script, validate and reload at once, every script, four files; three events, with fairness | holds, 0.5 million |
| `status` | `ViewOK`, `AddressHasRule`, `AddressHasTable`, `UnknownIsUnread` | a status beside service, command and cleanup; two configurations; two events | holds, 6.0 million |
| `host_dns` | `TypeOK`, `RollbackGivesBack`, `FailedApplyRecovers` | a wireless link and a tunnel that comes and goes; six scripts, faults and changes | holds, 1.0 million |
| `rule_listing` | `AlreadyExistsIsTrue` | marks 100 and 6, tables 100 and 10 | violated |
| `dns_lost_update` | `UpdatesKept` | a reconcile and the proxy at once | violated |

### What the properties say

- `MarkHasRule`: no packet is marked for an egress whose mark no ip rule knows.
  Its packets would take the main table, past the egress the policy names.
- `InstalledBeforeMarked`: while a reconcile adds rules, each egress it found
  healthy has its ip rule and the route this pass chose, unless the kernel has taken
  that route away since. It needs the processes serialized.
- `ChainFollowsConfig`: while rules are added, the chain is exactly the healthy
  policies' rules up to here, in file order, once each, whatever an earlier
  reconcile that failed or was killed left in it.
- `KeepsChainOrder`: `Reconcile` implements `PolicyChain`. The chain is
  emptied at once, filled by one builder in the order of one configuration, and
  not touched after that builder has stopped. `meta mark set` does not end the
  evaluation, so a packet's mark is that of the *last* matching rule and the
  order is the meaning. The refinement maps `builder` to the configuration of the
  process that is adding rules.
- `Recovers`: if the service stays on and its direct egresses stay usable then,
  always again, it sleeps on a chain, rules and routes built for the links that
  are up now. Concurrent reconciles, kills and failures delay that but cannot
  prevent it.
- `CleanupComplete`: a cleanup none of whose own commands failed leaves nothing of
  its configuration, even if an earlier cleanup failed half-way.
- `AnswersAreRecent`: whatever is lost or torn in the shared file, the addresses a
  resolution returns are those of one real answer for that domain, no older than
  the window for its kind: `ttl` for fresh ones, `ttl + grace` for stale ones.
- `UpdatesKept`: no save undoes a newer entry of a domain that a policy names. It does
  not hold (`dns_lost_update`).
- `OnlyRacesUndo`: but nothing else than an outdated copy written back breaks it: no
  failing lookup, no prune, no failing or killed save, and none of the programs that
  read the file meanwhile and turn out to write nothing, or to write before the others
  have read. The programs overlap as they like.
- `SavesAreAtomic`: `SharedCache` implements `CacheStore`. Up to the first race, reading the file, waiting for a
  lookup, truncating the file and filling it are one change of the cache as it is at
  that moment: a fresh answer for one domain, no older than what it replaces; an error
  beside an entry's addresses and window, which stay; or the loss of exactly the domains
  no policy names. Who fails or is killed in the middle of the write loses the whole
  cache, never a part of it, and nothing brings it back. The refinement counts a save
  from the truncation on (`Stored`): who reads the file before the write ends finds it
  torn, and gives up.
- `CachedBeforeAnswered`: an address of a policy's domain that a client has was
  saved in the cache first, so that the next reconcile can mark it. A cache that
  cannot be written costs the client its answer.
- `FailoverInOrder`: a reply is that of the first upstream that did not fail, and an
  error for a name without a policy means that all of them failed.
- `Serves`: `DnsProxy` implements `DnsService`. Each datagram gets at most one
  answer, to its own question, with what the settings permit for a policy's
  domain. The refinement maps `pending` to the buffer and the datagram in hand.
- `ServedInTurn`: `Wait(i)` bounds the proxy's steps before the i-th datagram in line is
  done with, `2 * upstreams + 3` for each one up to it, of which one per upstream and
  datagram waits for `timeout_ms`. Every step of the proxy lowers it for all in line, no
  upstream or client raises it.
- `EveryQueryEnds`: no datagram waits for ever, behind others or on silent upstreams.
- `MarkedAreRecent`: what the chain marks for a domain is part of one real answer for
  it, all of that answer once the pass has ended, and an answer still usable when the
  pass began: never a mixture of two, whoever writes the file during the pass.
- `GivenStays`, `ReconcileUsesGiven`: what the proxy gave a client stays in the file as
  long as that can be read, through the saves of all other programs, until a new answer
  for the domain takes its place; and a policy that is resolved before it expires gets
  exactly these addresses, with no lookup that could answer with others.
- `RepliesGetMarked`: always again the service has completed a pass after which the
  addresses the proxy gives its clients are marked, until they expire or a newer answer
  comes. Two exceptions are the code's own. A program that holds an older copy when the
  proxy saves writes it back without the answer (`dns_lost_update`), hence `HoldsCopy`.
  A file that stays unreadable makes every pass skip every domain policy.
- `EditsKept`: as long as no two programs are between reading and writing at the
  same time, no finished edit is lost, also not one made while a refresh was
  inspecting the host, because the refresh reads the file again before it writes.
- `WritersKeepValid`: what a refresh or a script writes is accepted by
  `Config::validate` if what it read was, except exactly where the script overlooks
  a rule (`Overlooks`): a second tunnel with the same table, a policy left on an
  egress that is disabled, a second policy for a domain, among them one beside a policy
  that is enabled without saying so, which `add-domain-policy.sh:46` does not see.
- `RefreshEndsDrift`: a refresh during which host and file kept still leaves no
  drift but on egresses whose inspection failed, although gateway and address are asked by two commands and the plan is
  made on one reading of the file and applied to another.
- `PassIsTrue`: a validate that warns of nothing, host and file keeping still, has
  seen an accepted file, links that exist, and direct egresses that are up, each with the
  configured addresses or with a note that its inspection failed. A note does not make
  the result a WARN (`validate.rs:259-262`): PASS beside one says nothing of that
  egress's addresses, and the property says so rather than leave such validations out.
- `ServiceComesUp`: a torn or refused file only delays a service nobody stops; once
  the file stays whole and accepted, it runs.
- `AddressHasRule`, `AddressHasTable`: a report that says OK of an address says OK of
  the mark it is given and of that mark's table, though the three are read by different
  commands while reconciles go on. The table may be empty only where the kernel has
  taken the route: then marks that lead nowhere are what there is on the host.
- `UnknownIsUnread`: UNKNOWN is printed of a chain that could not be read, never of
  one that a reconcile has just emptied.
- `RollbackGivesBack`: what a completed, undisturbed restore of a snapshot leaves is
  what the links had when the apply of that snapshot began, whatever scripts have
  been applied, killed or rolled back since.
- `FailedApplyRecovers`: an apply that fails, if nothing more goes wrong then, leaves
  the host with names that resolve, by its old settings or by the repaired path.

### Bounds

`MaxEvents` bounds what operator and environment do: starts of commands, link
changes, DHCP, edits, failures, kills, stops (or, in `DnsCache`, operations and
faults). Starting and restarting the service and everything a process does by
itself is unbounded, so the service loops any number of times. Five events are
enough for the longest story the properties tell: an edit, a killed or failed
reconcile, a link flap, a cleanup, a second reconcile. Two egresses (one direct,
one tunnel) give each branch of health and inspection and the confusion of one
rule with another; three policies with zero, one or two destinations give the
order within and between policies. `full` and `reordered` list egresses and
policies in different orders and differ in `fail_closed` and auto-refresh; `small`
drops an egress; two leases let an inspection pair the gateway of one with the address
of the other. In `recovery` two configurations and three events keep the
liveness check short; a third reconciler would repeat what the second does. The
cache instance has a ttl and a grace of one second and a clock to three, so that
each entry passes through its fresh, stale and expired time and each boundary
second; three operations or faults overlap. `dns_races` needs two enabled domains, so that a
refresh is behind in the middle of its list, and a prune and a proxy beside it; the time
passes once, which tells an outdated copy from the newest. The proxy has a buffer of
one datagram, so that one waits behind another and a further one is dropped, and
two upstreams, so that the first one's late answer meets the second one's socket.
In
`domain_routing` one domain can be looked up while the other is stored. The file from
before has an answer with an address of its own, every later answer has two others, so
that a mixture of two answers is none of them. With a ttl of one second, no grace and
times 1 and 2, an answer of the time 0 is fresh, at its last second or past it while a
pass goes on. Two events are a store and a fault, or two stores, between any two steps
of passes without bound.
In `policy_file` three events are the starts of two programs and one fault or
change between any two of their steps, or three programs; the four files are the
installed example, one in use with a domain through either of two egresses, one
edited by hand that is refused, and one that leaves `enabled` out of a domain's policy. In `status` two events put a restart, a flap,
a cleanup or a failing command beside the status, while the service loops without
bound; the two configurations differ in everything `print_status` compares. In
`host_dns` six events are two applies, two rollbacks and two faults, or fewer
scripts and more faults; a snapshot taken of a host that already points at the
proxy needs two applies only.

Deadlock is not checked: a system in which nobody starts anything stops, and
`MaxEvents` and `MaxTime` end the rest.

### Fairness

`FairSpec` of `Reconcile` has weak fairness on `Run(p)`, the steps a
started process takes by itself. It is justified by the code: `ping`, `nft` and
`ip` return (`health.rs` passes a timeout to `ping`), `tokio::time::sleep` ends,
and systemd restarts a failed service (`Restart=on-failure`, with `RestartSec=3s`,
which stays below systemd's start limit). Nothing obliges the operator to start
or stop anything, or a link to come back; `Recovers` has those as its premise.
`FairSpec` of `DnsProxy` has weak fairness on the proxy's own steps, timeouts and
the restart by systemd included; no upstream is obliged to answer.
`FairSpec` of `PolicyFile` has weak fairness on each program's own steps, on the
service's loading and on the restart every three seconds. `RoutingSpec` of
`DomainRouting` has weak fairness on the service's loop, which systemd restarts, and on
the steps of an operation at the cache that has begun; nobody has to begin one.
`DnsCache`, `StatusReport` and `HostDns` state safety only.

### Where code and documents disagree

1. `rule_listing`: the test for an existing ip rule looks for the texts
   `fwmark 0x6` and `lookup 10` in a line of the listing, and
   `fwmark 0x64 lookup 100` contains both. The rule of mark 6, table 10 is never
   added and the log says "fwmark rule already exists" (`src/routing/iprule.rs:58`).
2. `dns_lost_update`: a resolution that waits for its lookup writes the whole
   cache back as it was before; what the proxy stored meanwhile is gone
   (`README.md:105`, "live DNS success: cache updated").

Known limits that the models contain and no run is devoted to:

- The service never reloads its file (`EditConfig` changes `file`, never `conf[Service]`),
  so a policy applied with `reconcile --apply` as in `README.md:195-203` lasts until the
  service's next pass; it stays if the service is restarted.
- Cleanup deletes what the *current* file lists, so an egress that has left the file
  keeps its rule and route (`CleanupComplete` is about the listed ones).
- With `fail_closed_unresolved` off, stale addresses are used in mode
  `soft_fail_closed_l3` as well (`StaleAllowed` of `DnsCache`).
- Tables 253 to 255, and others with a name in `rt_tables`, are accepted but shown by
  name; the listing test fails for them and with it every later reconcile.
- Some edits are accepted by their script and refused by the program (`Overlooks`).
- A validation that could not inspect a direct egress ends with PASS, as a note is no
  warning (`PassIsTrue`).
- Gateway and address of a direct egress are asked by two commands; with DHCP between
  them, a pass may install a route by the gateway of one network, if the kernel takes it,
  until the next pass (`InspectRoute`, `InspectAddr` of `Reconcile`).
- After the kernel has taken a route away the marks stay and their table is empty, until
  the next pass (`Dropped`).
- A cache file that does not parse (`load_cache_or_empty` returns the error) is never
  replaced by the program: passes skip all domain policies, the proxy fails queries of
  policies' domains and refreshes fail until somebody removes the file.
- A link that appears after the snapshot of an apply is pointed at the proxy, and no
  rollback gives its settings back.

## 4. Proofs

TLAPS checks every statement of the eight proof modules, without any taken on
trust. The theorems hold for every value of the constants that satisfies the
`ASSUME`s of the modules, and have no bound but `MaxEvents`, `MaxTime` and their
like, which are any natural numbers.

| Module | Obligations | Theorems |
|---|---|---|
| `Reconcile_proofs` | 1618 | `TypeCorrect`: `[]TypeOK`; `MarksAreSafe`: `[]MarkHasRule` |
| `ReconcileSerial_proofs` | 1824 | `InstalledFirst`: `[]InstalledBeforeMarked`; `ChainIsBuilt`: `[]ChainFollowsConfig`; `CleanupLeavesNothing`: `[]CleanupComplete`; `RefinesChain`: `KeepsChainOrder` |
| `DnsCache_proofs` | 1450 | `CacheTypes`: `[]TypeOK`; `ResolutionsAreRecent`: `[]AnswersAreRecent`; `NothingElseUndoes`: `[]OnlyRacesUndo`; `CacheImplementsStore`: `SavesAreAtomic` |
| `DnsProxy_proofs` | 1589 | `ProxyTypes`: `[]TypeOK`; `ProxyServes`: `Serves`; `AnswersAreCached`: `[]CachedBeforeAnswered`; `UpstreamsInOrder`: `[]FailoverInOrder`; `WaitsAreBounded`: `ServedInTurn` |
| `DomainRouting_proofs` | 1018 | `RoutingTypes`: `[]RoutingTypeOK`; `MarksAreOneAnswer`: `[]MarkedAreRecent`; `GivenRepliesStay`: `[]GivenStays`; `PoliciesUseGiven`: `ReconcileUsesGiven` |
| `PolicyFile_proofs` | 2160 | `FileTypes`: `[]TypeOK`; `FinishedEditsStay`: `[]EditsKept`; `DriftEnds`: `[]RefreshEndsDrift`; `PassesAreTrue`: `[]PassIsTrue`; `WritersStayValid`: `[]WritersKeepValid` |
| `StatusReport_proofs` | 1290 | `ReportTypes`: `[]ViewOK`; `ReportIsConsistent`: `[]AddressHasRule`; `ReportHasRoutes`: `[]AddressHasTable`; `UnknownMeansUnread`: `[]UnknownIsUnread` |
| `HostDns_proofs` | 943 | `ScriptTypes`: `[]TypeOK`; `RollbackRestores`: `[]RollbackGivesBack`; `ApplyRecovers`: `[]FailedApplyRecovers` |

Each proof has a lemma for each action, or for each kind of step that treats its
invariant alike, and the theorem combines them.

**`TypeCorrect`** (`Reconcile_proofs`): `Spec => []TypeOK`, for any egresses,
configurations, policies and processes. `TypeOK` says more than types: a process
stays within the commands of its kind, so that a command runs once and only the
service sleeps or is restarted. It is not inductive. `PolicyAt(p)` and
`EgressAt(p)` index into lists, so `LocalInv` adds, with `LocalOK(p)`, what the
locals satisfy where they are used: the position is within the list at `inspect`
and `add`, the egress in hand is one of those still to handle, the destination
list is not empty at `add`. There is a lemma for each action and, from these,
`NextLocal`.

**`MarksAreSafe`** (`Reconcile_proofs`): `Spec => []MarkHasRule` under two
assumptions, both of which are needed:

- `ExactListing`: the listing test is true of an egress exactly when its rule is
  listed. Run `rule_listing` shows a configuration where it is not.
- `CleanupOrderly`: there is no cleanup, or processes are serialized and a
  cleanup's commands succeed. A cleanup beside a reconcile, or one that fails to
  delete the table and goes on to the rules, leaves marks without rules.

Reconciles beside one another need no assumption: without a cleanup the theorem
holds for any number of concurrent reconciles, failures, kills and edits. The
inductive invariant `MarkInv` adds to `LocalInv` and `MarkHasRule`: which healthy
egresses already have their rule at each point of a pass (`RuleOK`), that a running
cleanup is alone (`Alone`), and that the chain stays empty once it has deleted the
table (`StaysEmpty`). The first is why an appended rule's mark has an ip rule; the
other two are why a cleanup may delete one. `RulesGrow` and `AloneKept` carry the
parts of the other processes through a step of one.

**Serialized reconciles** (`ReconcileSerial_proofs`), under `ExactListing` and
`Serialized` (at most one process is busy, which `reload-policy.sh` ensures by
stopping the service and nothing else does). `SerialInv` adds to `LocalInv` that at
most one process is busy, and for that one: the egresses it is through with have
their rule and the pass's route, if the kernel has not taken it (`InstalledOK`); what a cleanup without a failure
has already removed is gone (`CleanOK`); all rules of the chain are of policies up
to the position of its builder (`ChainOK`). The first gives `InstalledFirst`, the
second `CleanupLeavesNothing`. For `RefinesChain`, every action maps to a step of
`PolicyChain` or leaves `chain` and `builder` alone; `ChainOK` is why an appended
rule keeps the order. It needs `Serialized`: two builders interleave their rules.

`ChainIsBuilt` needs the contents of the chain as well. `FollowInv` adds to `SerialInv`
that the chain is `Built` up to the position in hand, and that destinations are
pending only while rules are added. An appended rule keeps this because the rules of
the policy in hand are the last ones of the chain (`HandIsLast`), which follows from
the file order and from `PoliciesDistinct`: `Config::validate` refuses a second policy
of the same id (`src/config.rs:371`), and with one the two would share their rules.
`Built` compares the chain with the lists of destinations position by position and
uses no recursion, so that it can be proved about.

**The cache** (`DnsCache_proofs`). `AnswersAreRecent` is not inductive: a stale
answer comes from an entry that some process had written from a copy that it had
loaded earlier. `RecentInv` says that every entry, on disk or in a loaded copy, is
backed by a real answer of its time (`Backed`), which is kept by merging, pruning,
losing and writing back.

`NothingElseUndoes` and `CacheImplementsStore` are about programs that share the file
as they do, with no assumption of who runs beside whom: `SharedSpec` is `Spec` with the
two history variables. The inductive invariant `SharedInv` has a part that always holds
(`LooseInv`) and one that holds until the first race (`Orderly`): one program at most
fills the file, a readable file has whatever was saved, and each program has what
`HandInv` says in hand. One that is not behind finds the file as it has read it, and
while it looks a domain up, none of the file's entries is younger than the time read;
when it is about to truncate, its copy is one permitted change of them and keeps what
was saved; while it writes, the file is truncated. Of a program that is behind nothing
is known, and it may still fail, be killed or look up in vain without harm. A change of
the file by one program puts all others that have read it behind, which is why only two
cases of each lemma remain: the file has not changed, or the program is behind.
`Truncate` is then a save of `CacheStore` or a race, a failure or kill at `write` a
loss, and everything else a stutter, the write itself included. Whoever reads a torn
file in between gives up. After the race the abstract specification only keeps `raced`.

**The proxy** (`DnsProxy_proofs`). `IInv` says that the datagrams waiting, in hand
and answered are in order of arrival (`InOrder`), that an answer arriving at the
socket in use is to the question in hand from the upstream in hand (`OwnSocket`),
and what the response held is permitted to be (`Ready`). From it follows the
refinement of `DnsService`: `Send` is its answer, everything else a stutter or an
arrival. `CachedInv` and `OrderInv` add what the cache holds of an answer, and that
the failed upstreams are the first ones of the list; `TypeInv` that each datagram
binds at most one socket per upstream. `WaitsAreBounded` is the safety half of
`EveryQueryEnds`: `InOrder` says that a datagram has one place in line (`LineOnce`), and
`StepsOK` that each step of the proxy leaves fewer for the datagram in hand. What
fairness adds is only that the proxy takes its steps.

**From answer to mark** (`DomainRouting_proofs`). The service here starts its own
operations, so `RecentInv` is proved once more for these steps and taken from
`DnsCache_proofs` for all others. `RouteInv` adds the pass: policies still to apply have
no rules, the policy in hand has only addresses of its resolution, which read the cache
after the chain was emptied (`HandOK`), and every other marked domain has all of one
usable answer, unless the pass was broken off (`MarkedBy`). That `since` is no later
than the reading is what turns a recent resolution into a usable answer.

`GivenInv` carries a reply from the proxy's client to the next reconcile: the readable
file has it, and so has the copy of every program between reading and writing
(`CopyOK`), so that whoever writes next writes it back. That holds from the moment of
the save because no other program held an older copy then, which is the condition under
which `given` records the reply; a file that has never been written has no replies to
lose, and one that was torn is not readable. A failed lookup changes neither the
addresses nor the window of an entry, a prune keeps configured domains, and a new answer
takes `given` back. `PoliciesUseGiven` follows: the entry a reconcile reads is fresh, so
it looks nothing up. What the two add to `RepliesGetMarked`, which only TLC checks, is
the part without fairness: a delay, never other addresses.

**The policy file** (`PolicyFile_proofs`). `Types` gives each kind of program the
shape of its locals at each step. `EditsInv` is about the window between reading
and writing: while there is but one writer in it, what it is about to write is the
file with its own change (`WindowOK`). `InspectInv` says what a refresh or validate
that was not disturbed has seen so far: exactly how the host is, of the egresses whose
inspection did not fail. `WritesInv` rests
on one lemma per script that `Valid(Edited(s, c))` holds exactly if the script
overlooks nothing, which is where `ScriptAssumption` is needed.

**The status** (`StatusReport_proofs`). `RuleInv` adds to `MarkInv` that the marks of
the lines a status holds have ip rules while it has not listed these, are in its
listing afterwards and printed OK in the end (`HasRule`); it needs `CleanupOrderly`
and that no text passes for another's (`MarksApart`). `TextInv` follows the text of
the chain in the same way.

`ReportHasRoutes` combines this with `TableInv`, which says of the routes what
`MarkInv` says of the rules: the table of every egress that is marked holds a route, or
one that the kernel has taken away since (`Tabled`), and a cleanup comes to the routes only
when the table of the marks is gone, so that a status which read marks before has
seen the chain change. `HasTable` carries that through the lines a status holds.

**Host DNS** (`HostDns_proofs`). `ScriptInv` follows one undisturbed script (`calm`):
a whole snapshot is what the links had when its apply began (`SnapsOK`, `FreshOK`);
while a restore runs, every link that is there has what the snapshot noted but for
the commands still to run (`RestoreOK`); while a repair runs, the links point at the
proxy but for the commands left, and proxy and network are up (`RepairOK`). `Works`
needs one link at least that points at the proxy, hence `Fixed`.

Only model-checked: liveness (`Recovers`, `EveryQueryEnds`, `ServiceComesUp`,
`RepliesGetMarked`), which with fairness and ENABLED is out of the prover's reach.

## 5. Not modelled

- Host DNS by NetworkManager profiles or `resolvconf`, the backup and legacy revert,
  and the emergency restore: what they give back depends on what NetworkManager
  and systemd-resolved do, which no code here shows.
- Tunnel, WireGuard, Amnezia and Wi-Fi detection: one reading of the system, printed.
  Install, build, uninstall and test scripts: file copies and checks.
- Dry runs (no command is issued), commands that only list, logging, argument
  parsing, JSON syntax, the syntax of names, checks of single values in
  `Config::validate`, and DNS packets but for what the proxy tells apart.
- Two editing scripts beside one another lose edits, as any two programs that
  rewrite a file; `EditsKept` excludes that and the repository promises nothing else.
- A clock that is set back, and `dns_cache.enabled = false` (no shared state).

## 6. Plan

1. `DomainRouting` with a refresh beside service and proxy, once states are fewer (an
   instance with one has more than four million states), and with the health of egresses.
2. `HostDns` with the method `nm`, once NetworkManager's part is specified.
