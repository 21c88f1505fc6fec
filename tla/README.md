# FloppyGuard: TLA+ specifications

FloppyGuard is a reverse-proxy manager (nginx, certificates) with a WireGuard hub. In all of it the hub
stores what should be true (which sites may not reach each other, which ports a site opens, which
tunnels and hosts exist), and something else, on another machine, in the kernel or in nginx, has to come
to agree with it while requests overlap, commands fail, messages are lost and processes are killed. This
directory models that, checks it with TLC and proves the central invariants with TLAPS.

Paths below are relative to `src/backend/` unless they say otherwise.

## 1. The system

| component | state | operations | talks to |
|---|---|---|---|
| site isolation (`internal/site-isolation*.js`) | table `site_isolation`; the kernel's `inet floppyguard_sites`; the boot copy in `/etc/nftables.d`; in memory the last script, error, live views, missing streaks | replace (PUT), apply, trigger, schedule, overview, start | WireGuard status, metadata store, nft |
| agent registration (`internal/agent.js`) | the row's `reg_token` and `agent_token`; the agent's `config.env` | create, register, getConfig, resetToken, install script, the loop's retry | curl in both directions |
| Freigaben on the hub (`internal/agent-ingress*.js`) | `agent.ingress_mode`, `agent_ingress_rule` | create, update, delete, setMode, createBulk, disableBulk | direct links (line cap) |
| Freigaben on the gateway (script in `internal/agent.js`) | chain FG_IN and its jump, the cached ruleset, hash in `/run` | apply, remove, self-heal, boot restore, heartbeat | polls getConfig; the hub's delete check reads the report |
| direct links on the gateway (script in `internal/agent.js`) | interface `fgd<id>`, its config, hash, routing table, ip rules, path and counters in `/run` | direct_step, direct_up, direct_teardown, direct_health, start, EXIT trap | polls getConfig; the FG_IN filter |
| direct links on the hub (`internal/agent-direct-link*.js`) | table `agent_direct_link`: sides, transfer net, port, pinned keys, reported status | create, update, delete, deleteForAgent, recordStatus, payloadFor | Freigaben (line cap, mode), site isolation, the gateways' heartbeats |
| mesh on the hub (`internal/agent.js`, `wireguard.js`, `wireguard-plan.js`, `routes/wireguard.js`) | metadata store file, `wg0.conf`, the kernel's peers and routes, `wg_link_name`, `acl` and `config_text` per agent | PUT /metadata, apply-metadata, restore, createPeer, updatePeer, deletePeer, agent update, uploadConfig, syncHubConf, syncAgentConfigs, reconciler | all agents, wg, ip |
| mesh on the gateway (script in `internal/agent.js`) | the interface's conf with its only PrivateKey, peers, iptables rules, routes, HASH_FILE, POSTUP_APPLIED | poll, apply_config, sync_routes, heartbeat | polls getConfig |
| nginx configuration (`internal/nginx.js`, `host.js`) | `<id>.conf`, `.bak`, `.disabled`, what nginx has loaded, `nginx_online` and `nginx_err` in the rows | configure, bulkGenerateConfigs, stash, restore, test, reload | hosts, certificates, access lists, default site |
| hosts, streams, access lists, default site | rows, password files | create, update, enable, disable, delete | nginx configuration |
| certificates (`internal/certificate.js`, `cert-alerts.js`) | rows, certbot's lineage, the renewal backup, credentials files, failure map and state file | renewal timer, request, renew, delete, daily mail, recovery at start | certbot, nginx |
| application update (`internal/app-update.js`, `scripts/update.sh`) | checkout, dependencies, built frontend, migrations, `update-status.json` | start, status, every step of the update and of its rollback | git, yarn, systemd |
| authentication, 2FA, OIDC, users | rows, rate-limit buckets | login, challenge, link, permissions | all routes |
| Cloudflare DNS, geo filter, notifications, audit log | settings, rows, files | timers and requests | external services |
| HTTP layer, models, web interface | none of their own | | |

Where the difficulty is:

- **Interleaving in one Node process.** Handlers are asynchronous; every `await` is a point at which
  another request, a timer or an apply may run. Serialisation exists only where the code builds it:
  the apply chain and `replaceLock` of site isolation, row locks in the Freigaben, `withWriteLock` of
  the mesh, `withConfigLock` of nginx; nothing in `register`, `getConfig`, the direct links, the rows of
  the hosts and the renewal of a certificate.
- **Machines that lose contact.** An agent polls with curl; the hub runs a handler to its end even when
  the caller has given up. The agent's shell script writes several files and kernel tables one after
  the other and can be stopped between any two.
- **Views that go blind.** The links that site isolation plans from come from a file and from a live
  status, either of which may be missing at the moment of an apply.
- **Changes of many parts.** An apply on a gateway, a save of a host, a renewal and an update each
  replace several files or kernel tables, and each has an undo of its own that can be cut short too.
- **Things nobody is told about.** `nft flush ruleset`, `netfilter-persistent reload`, an interface
  that is taken down: the code has to notice by looking.

What makes each part correct is listed with the runs in section 4; `PROJECT.json` lists the hazards
by source line.

## 2. The modules

A module is the state of one component, one action per handler or per stretch of code between two
awaits or two commands, and the properties. `MC...` modules give the constants their values, `...Proofs`
modules hold the theorems about the component of that name (section 5).
Definitions keep the names of the code; a definition that is commented "Fault injection" (`CopyConfUnchecked`, `FetchOld`) is a deliberately
wrong variant used to show that a property can fail; no specification uses it. Every module separates what
the code does from what may go wrong around it, and bounds the latter by a constant (`MaxFaults`, ...).

### SiteIsolation

`pairs` is the table, `meta`, `readable`, `peer` and `outage` are what the WireGuard side shows,
`table` is the kernel and `boot` the boot copy. `run` is the apply that is executing; its `pc` is the
await it is in: reading metadata, reading the status, listing the table, loading it, writing the copy.
`queue` is the promise chain behind it. `rep` is the save that holds `replaceLock`, `obs` an overview
request between its status read and its effect on the cache. `loadLinks`, `planSiteIsolation`,
`withHeldLinks`, `siteNetworks` and `linksUnresolved` are operators translated from the functions of the same name
(the last from the fail-closed test in `applyOnce`). A network is a set of address atoms, a script is
its pairs and its sets. `ApplyNftFails` covers both outcomes of a failed `nft -f`: the table is
unchanged, or nft was killed at its timeout after the kernel had committed.

`steady` is a history variable: the links that have had a metadata entry and a peer throughout, both
together always making them a site with an IPv4 network.

Left out: the `SITE_ISOLATION_DISABLED` switch, the detection of hand-written drop rules (read only),
names, comments and counters in the script, failures of the database itself.

### AgentRegistration

The row (`reg`, `tok`), `config.env` (`file`), the loop's memory (`mem`), the install script (`inst`)
and the calls in flight (`calls`, one per sender and one whose sender has given up). `register` and
`getConfig` are each a lookup and a patch, and other handlers may begin between the two. The loop's write
of a rotated token to `config.env` may fail: the loop then goes on with the token in memory
(`rotate_token`). The install script carries the row's `reg_token` and may be downloaded again while an
agent runs with that one. Three history variables: `overlapped` (a handler has begun while another was half
done), `stale` (the last write of `config.env` failed), `again` (the row's last `reg_token` has been
downloaded a second time). Tokens are numbers in the order in which they are drawn.

Left out: the status column, which decides nothing, the delete of an agent (in IngressFilter), and an
install script that ends at a failing command of its own (`set -e`): it is run again.

### IngressRules

Rows, mode, row lock, and requests of several administrators, each in its transaction: lock, load,
check and write. A rule is on or off, its line count, and its count of alias lines. `Accepted` is the
conjunction of the checks of the six operations, `After` what they write. Saving a direct link reads
the other links, checks the cap and writes, outside any transaction; `crossed` is a history variable that
says that a rule or another link has been written between a link's reads and its write, or a link
between a rule's check and its write.

Left out: the contents of a rule, the catalogue, tester and preview (they only read).

### IngressFilter

One gateway from the hub's mode and rules to iptables. A ruleset stands for its text and for its
hash. The agent's script is a program counter (`pc`); `apply_ingress` is called from three places
(the poll, the self-heal, the boot restore) and `job` holds its arguments and where it returns to.
iptables-restore and the placement of the jump are one step, every file written is a step, and every one of
them may fail: the script runs inside `if apply_ingress`, where `set -e` does nothing, so a failing copy is
followed by the write of the hash. Kills and reboots fall between any two steps, and the hub's rows may change between
the two reads of `getConfig`. History: `torn` (a write of the last apply failed or was cut off), `mixed` (the
ruleset in place, or the one being applied, is of rows that changed between the two reads).

Left out: the forced delete of an agent that has been silent for an hour (it leaves the filter on
purpose), rule counters, the check of the delete for direct links.

### DirectLink

One link on one gateway. A function of the script is the sequence of its commands; `todo` is what is
left of the one that runs, and one step executes one command, so a stop, a reboot or a change of the
surroundings can fall between any two. A stop may come at any moment; before `SetTrap`, the last command of
the start, it ends the script without emptying the tables. `missed` is a history variable: the agent before
was killed ("kill"), and the next one stopped before its trap was set ("term"). `want` is the hub's entry (a config, Off, or Gone), `resp` what the
last poll returned; `filter` is what FG_IN does with the interface. The counters are capped at 3, the
thresholds, where the code caps at 1000: above the threshold the value makes no difference.
`CutShort` lets a SIGKILL fall between two commands.

Which networks the gateway may have locally is the constant `Lans`.

Left out: conntrack, rp_filter, the healing of PostUp rules, re-resolution of endpoints, error texts
and the status report, and other links on the gateway.

### DirectLinkHub

The rows of `agent_direct_link` and the gateways that poll. A save is three steps: what it loads first,
the check against mesh and other links (`validateComplete`), the write. `recordStatus` reads the agent's
rows and then updates them one by one; `hb` holds the updates a handler still has to make, `late` those
of one whose curl has given up. A key is the gateway, the link and a number: a gateway that is
installed anew draws another one. `mesh` is what surrounds the links: separated sites, overlapping
networks, restricted agents. A gateway's whole reaction to an answer is one step (`direct_step`); its
commands are in DirectLink. `raced` remembers that saves have overlapped, or that a save has cleared a
key which a running `recordStatus` had read.

Left out: endpoints, MTU, names, the partner's networks, the forced delete, the read-only checks.

### MeshSync

The hub's four copies of the mesh (`store`, `conf`, `live` with `routes`, and the agents' rows) and the
requests that change them, each split where it awaits. `lock` is the promise chain of `withWriteLock`;
`Requeue` is the end of one locked section and the wait for the next. A configuration text is the set of
networks of its hub peer; a link is its public key. A row has both restrictions: `allowed_networks`, which wins, and
the whitelist of sites; an empty whitelist is stored as none and means the full mesh
(`sanitizeAclSites`). `cascadeLinkRenames` is a list of row updates with its way
back (`AfterFailure`). A deletion plans its agents before it queues for the lock and again under it; an agent bound
to a name it does not know, or to further names, blocks it, and a `wg0.conf` that is missing does
not (`"noconf"`). `Timer` is the process of the five-minute reconciler. `lost` says that a fault
or a restart has undone a sync since the last full one. Three more history variables: `home` (the link an
agent was bound to, whatever its name is now), `dying` (the links a deletion has begun to remove), `crossed` (a
step has come between a rename or a deletion and the bindings it works on, see `Cross`).

Left out: client links, several interfaces, key rotation, MASQUERADE rules of the hub; `wg0.conf` is missing at
deletions only.

### AppliedConfig and GatewayConfig

AppliedConfig is what a gateway promises: it records a configuration only while it runs that
configuration as a whole, may forget what it recorded, and reports what it has recorded. GatewayConfig is how
it is done: the loop and `apply_config` command by command (`wg syncconf` or `wg-quick up`, routes, PostDown,
PostUp, the two files of the record of applied hooks, cp over the conf, HASH_FILE, heartbeat). Every command and
every write may fail, also those whose failure the script swallows (`|| true`); kills fall between any two
and inside each, reboots anywhere. A file that was opened and not written to its end is `Broken`.
The refinement mapping is `Running`: the configuration of which peers, rules, routes and conf are all in
place, None while they are not. `unsure` is a history variable: the set of what the faults so far may have done
to rules and routes. "lacking": a rule of the recorded PostUp may be missing; "extra": one that the
recorded PostDown does not remove may be live; "routes": sync_routes may have left a route out or behind. An apply that swaps
the hooks, or brings the interface up, settles the doubts it can (`Doubts`), and `Running` asks for rules and routes
as far as they are not in doubt.

Left out: the self-update of the script (only that the loop starts anew), Address and MTU changes, and the failing
commands inside `dedupe_iface_rules`.

### HostConfig

Rows of hosts of the four types, of one access list and of the default site, the three files of a host,
what nginx has loaded, and up to two requests with program counters. Everything behind `withConfigLock` is
one step per file operation while `lock` is held; the rows are read and written without it. A conf is the
settings and list rules it was rendered from; nginx -t refuses the settings in `Rejected`. `raced`,
`refused` and `cut` remember the hosts that two requests worked on, that a save failed for before nginx.js
recorded an outcome (nginx -t fails beforehand, or rendering fails and the previous conf is put back), and
whose conf was being replaced at a restart.

Left out: permissions, Cloudflare records, `.err` copies, streams' and hosts' field validation.

### CertRenewal

The timer, one user, certbot's lineage as its three parts (archive, live link, renewal conf) and the
backup of it. Moving aside, putting back and recovering are folds over those parts in the code's order, so
that a stop leaves any prefix of them (`Interrupted`). certbot, with its own lock, and nginx are external and
modelled from the calls. `Overlap = FALSE` keeps a renewal of an incomplete lineage from starting while
another process works on the same certificate; the code does not (section 4).

Left out: uploaded certificates, the HTTP test, plugin installation, wording of mails.

### AppUpdate

`scripts/update.sh` step by step with its rollback, the backend's service and the status file. The new
release may be good, crash, or apply its migrations and never answer. An update may fail at any step (the restarts
of the service too), be terminated, or be cut off by a reboot, and the backend may stop at any time, which makes systemd start
whatever is checked out. `early` is a history variable: systemd has started the new code, and it has
applied its migrations, between the merge and the updater's own restart.

## 3. Bounds

Every unbounded counter has a named bound (`MaxChanges`, `MaxFaults`, ...) that the guards use.

- Site isolation, safety: three links (one typed by inference, one with complete metadata, one
  that may vanish and return), two saves, one change, one fault of any kind, one overview, one apply
  waiting behind the running one. Two saves are what it takes for an older apply to come after a newer
  one; two pairs are what it takes for a plan to resolve only in part. Liveness uses two links.
- Registration: one reset, one lost curl, one crash, two downloads of the install script, one failing write of
  `config.env`; eight tokens are more than that many calls can draw.
- Freigaben: two administrators, three rule ids under a cap of two rules, one link, a cap of two
  lines with rules of one line (and of two, which the per-rule cap refuses), each with an alias line, the case in which
  the check on save and the build differ; five requests. Five reach the caps, restrict the agent and then race for its
  last rules. Administrators and
  rules are symmetric; the run checks invariants only.
- Filter: one rule, four changes of mode or rules (open, restricted and back with the same ruleset
  returning; a deletion), one flush, one kill or reboot, and one failing command, failing write, hub-side error or lost heartbeat.
- Direct link: three configs (an update in place and a new interface), two networks, two changes, one
  failure, two stops, kills or reboots: what it takes to be killed and then stopped before the trap is set.
- Direct links on the hub: three agents, one stored link that may move and one draft that clashes with it;
  two requests at a time and in all, one event (a lost or late heartbeat, an answer without links, a
  reinstallation, or one of three changes of the mesh). One link is the id limit, so that the draft's row is
  beyond it. Two requests are what it takes to disable and delete, to move and reset, or to overlap.
- Mesh: two sites and a third peer that may be created, two agents (one restricted, without a configuration
  yet), two requests of any kind (the agent updates restrict an agent both by site and by network, move it to the other
  link, and unbind one) and one fault. The patches include a swap of two names, the hardest case of
  the rename cascade.
- Gateway: a hand-written conf and four configurations, two of which differ in nothing but their peer and the
  last of which returns to the hooks of the first; eleven kinds of fault and three faults, so that a retry can
  fail as well. The hub does not return to an earlier configuration (`Reverts`).
- Hosts: three hosts, one of them created, in three combinations of types; one refused setting; two requests of
  eight kinds; two versions of the access list; one restart.
- Certificates: three, of which one has an incomplete lineage, one a DNS challenge and one is requested; one
  user, one aging, two events (stop, failing certbot, host that breaks nginx -t, daily mail).
- Update: three updates and five faults, with and without migrations.

## 4. What is checked

| run | properties | what they mean |
|---|---|---|
| `isolation_saves` | `AppliedMatchesStored` | outside a save, an applier without an error has loaded the stored pairs |
| | `BootCopyCurrent` | when the applier says so, the boot copy is the last loaded script |
| | `SeparationKept` | no apply takes a stored pair out of the table while both links have always been recorded as sites |
| `isolation_live` | `Converges` | the table comes to hold what pairs and links ask for, or links-unresolved is reported |
| `registration_install` | `Recoverable` | `config.env` holds a token that still works, or one from before a reset, unless handlers overlapped, the last write of `config.env` failed, or the `reg_token` was downloaded twice |
| | `RevokedStaysRevoked` | a replaced or revoked `agent_token` never becomes valid again, handlers overlapping freely |
| | `EventuallyAuthenticated` | an agent installed since the last reset ends up polling with its `agent_token`, the `reg_token` retired |
| `ingress_saves` | `NotEmptyRestricted` | a restricted agent always has an active rule |
| | `Buildable` | every saved ruleset exceeds the build's cap by no more than its alias lines, unless a link save crossed another save |
| `filter_apply` | `NotCutOff` | the gateway runs or keeps a filter that admits nothing only if the answer it came from mixed two states of the rows |
| | `CacheIsReported` | what a reboot would restore is what the agent reports, unless a write of the last apply failed or was cut off |
| | `Converges` | the gateway ends up running what the hub wants, and the hub knows it, with the same exception |
| `direct_paths` | `Watched` | a filled routing table belongs to a link that is up and that the health check looks at |
| | `StoppedUsesHub` | after a stop nothing is routed through the link, unless the agent before was killed and this one stopped before its trap was set |
| | `FailsOver` | a partner that stays away is eventually not routed to, with or without the hub (same exception) |
| | `Converges` | interface, table and files come to be what hub, filter, LAN and partner call for |
| `direct_hub` | `KeyOfSide` | a pinned key is the key of the gateway the side belongs to now |
| | `ComesUp` | a link that stays enabled and unblocked comes up on both gateways with each other's keys |
| | `ComesDown` | a link that is off, deleted, moved, separated, overlapped or cut goes down on every gateway that still polls |
| | `ChangedKeyShown` | a gateway whose key is not the pinned one comes to be shown as such, however that happened |
| `mesh_requests` | `NeverMoreThanAllowed` | with all requests ended, no agent's stored configuration has a network its rules forbid |
| | `BindingsFollow` | after renames and swaps, also half failed ones, every agent is bound to the name its link now has, unless names and bindings were changed across each other |
| | `CascadeTakesOwn` | a deletion takes the agents of the deleted link and no others, also those rebound while it waits (same exception) |
| | `RevokedStaysOut` | a sync that read the conf before a deletion does not set the peer again |
| | `Converges` | every agent's configuration comes to be what store and rules say, after any fault |
| `gateway_apply` | `ImplementsApplied` | GatewayConfig implements AppliedConfig: the hash is written only while all of that configuration is in place, rules and routes as far as no failed command has put them in doubt |
| | `RulesExact` | retries leave no rule missing, doubled or left over, except where a swap of the hooks lost commands or was cut short and no whole one has followed |
| | `Delivered` | a configuration the hub keeps wanting is in the end live in all its parts (in the same sense) and reported |
| `hosts_saves` | `LiveSetValid` | whenever nobody holds the lock, what nginx would load passes nginx -t |
| | `MetaTruthful` | the row of a host says what nginx serves, and a stopped host is not served |
| | `Recoverable` | a host that works by its row has a working conf on disk, in one of its three places, at every moment of every save, and so when a restart cuts one short |
| `cert_timer` | `CertificateKept` | a recorded certificate is on disk or comes back at the next start, wherever the backend stops |
| | `Served` | a renewed certificate whose reload failed is served in the end |
| | `Renewed` | every certificate near its end is renewed or deleted in the end |
| `app_update` | `Startable` | the code that is checked out can always start with the database as it is, unless systemd had started the new code before the updater |
| | `RestoredIsOld` | "the previous version was restored" is said only when it is back in every place (the database with the same exception) |
| | `UpdateEnds` | the status of an update becomes a final one, however the updater ended |

The runs of SiteIsolation and IngressRules also check `TypeOK`, which there says the part of the types the code
has to work for (addresses an nft set can hold, pairs of distinct links, the caps of the Freigaben). The other
modules state a `TypeOK`, and some of them further properties, that hold under the same configurations and are
not part of a run (`CurrentTokenOnly`, `CompletedRuns` and `HubAgrees` are proved): `CurrentTokenOnly`, `KeepsHealing`, `LinksFit`, `PinnedKept`, `HubAgrees`, `UniqueNames`,
`RequestsEnd`, `NoDuplicateIssue`, `CredentialsWhileNeeded`, `CompletedRuns`.

**Exceptions.** Some properties do not hold of every behaviour of the code, and say so. What they except is never
cut from the model: it is explored, a history variable remembers it, and each exception has a counterexample below
that shows the property fails without it. Three constants do cut behaviours of the code, and the counterexamples below show
what for: `CutShort = FALSE` of DirectLink (`Watched`; a kill between two commands), `Overlap = FALSE` of CertRenewal
(`CertificateKept`; two renewals of one incomplete lineage), and `Reverts = FALSE` of GatewayConfig (`Delivered`;
the hub returns to an earlier configuration after a failed apply).

| variable | the behaviours it excepts | properties |
|---|---|---|
| `overlapped` | two registration handlers overlapped on the agent | `Recoverable`, `EventuallyAuthenticated` |
| `stale`, `again` | the last write of `config.env` failed; the row's `reg_token` was downloaded a second time | the same |
| `crossed` (IngressRules) | a link save and another save came between each other's check and write | `Buildable` |
| `torn` | a write of the last ruleset's apply failed or was cut off, and no answer has been put in place since | `CacheIsReported`, `Converges` (filter) |
| `mixed` | the ruleset is of an answer that read two states of the rows | `NotCutOff` |
| `missed` | a killed or replaced agent, and the next one stopped before its trap was set | `StoppedUsesHub`, `FailsOver` |
| `raced` (DirectLinkHub) | saves of a link overlapped, or a save cleared a key that a heartbeat was about to write | `KeyOfSide` |
| `crossed` (MeshSync) | a rename, deletion or rebinding came between another one and the rows it works on, or a rename ended half done | `BindingsFollow`, `CascadeTakesOwn` |
| `unsure` | commands whose failure the script swallows failed in a swap of hooks or a route sync, or the swap was cut short, and no whole one has followed | `ImplementsApplied`, `RulesExact`, `Delivered` |
| `raced`, `refused`, `cut` (HostConfig) | two requests on one host; a save that failed without a recorded outcome; a restart inside a save | `MetaTruthful`, `Recoverable`, `LiveSetValid` |
| `early` | systemd started the new release between the merge and the updater's restart | `Startable`, `RestoredIsOld` |

**Fairness.** Nothing an administrator, a fault or the environment does is fair. Fair are: in site
isolation the event loop (a started apply or save goes on) and the reconciler timer; in registration
the handlers, the delivery of responses beyond the bounded losses, the loop's sleep and its retry
interval (strong fairness, since the interval elapses while the loop goes round); in IngressFilter
and DirectLink the agent's script, restarted by systemd, and polls: a poll may go unanswered any
number of times, but not for ever (strong fairness of the answer). In DirectLink a stopped agent may stay
stopped, which `Converges` excepts. In DirectLinkHub and MeshSync the handlers the hub has started, the
gateways' polls and the reconciler's interval; in GatewayConfig the loop, restarted by systemd; in CertRenewal the
timer, the handlers, certbot's end, the back-off's end, the start after a stop and the repair of a host
that breaks nginx -t (a person must do that one; without it `Served` cannot hold); in AppUpdate the
updater's steps, systemd's restart of the backend and the page that asks for the status.

Deadlock is checked except where everything may be done: all requests served (Freigaben, mesh, hosts, certificates,
update), or no direct link left.

### What does not hold

TLC finds a counterexample for each of the following. No configuration is kept for them; each is an existing
configuration with the constants changed as given. Where a line of the repository says otherwise, it is quoted.

| module and property | constants | what happens |
|---|---|---|
| SiteIsolation `OutageNeverLifts` | as `SiteIsolationSaves`; `Still...` entries, peers and bodies, `Faults = {}`, `MaxPuts = 1` | a site without a metadata entry is held for one apply of an outage (`internal/site-isolation.js:259`); the second apply of the same outage drops its pair if another pair still resolves, although "a missing or unreadable view of the links never lifts a separation" (`src/README.md:211`) |
| SiteIsolation `OutageKeepsAddresses` | `Cold...` definitions, `Faults = {"restart"}` | the live views are process memory: a restart of the backend while WireGuard is down makes the next apply take the tunnel addresses out of the sets; `site-isolation.js:94-98` says the last live view is used |
| SiteIsolation `EnforcedIsEventuallyReal` | as `SiteIsolationLive`, `Faults = {"persist","nftables"}`, `MaxFaults = 2`, `MaxPuts = 2` | nftables restarts between `nft -f` and a failing write of the boot copy; from then on the hash is equal, a table is there, and the missing pair is shown as enforced. For the same reason `isolation_live` has no restart of nftables among its faults |
| AgentRegistration `RecoverableOverlapped` | as `AgentRegistrationInstall` | two overlapping `register` calls with one `reg_token` both issue a token and the agent keeps the one that was overwritten; `internal/agent.js:2721-2723` calls register idempotent |
| AgentRegistration `RecoverableUnsaved` | as `AgentRegistrationInstall` | the installer's register is lost, the loop registers by itself, and its write of `config.env` fails (`agent.js:1851`, logged only); its poll retires the `reg_token` that the file still has, and after a restart the agent has no valid token; `agent.js:2721-2723`: "a lost HTTP response doesn't brick the agent" |
| AgentRegistration `RecoverableAgain` | as `AgentRegistrationInstall` | the script is downloaded again before the first poll and writes the `reg_token` into `config.env` anew; the answer to its register is lost, and the poll of the agent that runs retires that token |
| AgentRegistration `RetiredOnlyAfterReceipt` | as `AgentRegistrationInstall` | a `getConfig` looked up before a reset retires the `reg_token` issued after it (`agent.js:2767`) |
| IngressRules `BuildableAlias` | as `IngressRulesSaves` | the cap on save (`internal/agent-ingress-rules.js:207`) leaves out the alias lines that `buildIngressRestore` counts; line 203 says it "enforces the same cap" |
| IngressRules `BuildableCrossed` | as `IngressRulesSaves` | the link check reads the rules without the row lock; a rule saved in between exceeds the cap |
| IngressFilter `DeletedRunsNoFilter` | as `IngressFilterApply` | the delete decides on the last heartbeat (`agent.js:166`): a gateway that has polled a dropping ruleset and not reported it keeps it; `agent.js:2511-2512`: "Only delete once the gateway runs no dropping filter" |
| IngressFilter `NotCutOffEver` | as `IngressFilterApply` | the mode is read before, the rules after the agent was opened and its last rule deleted |
| IngressFilter `CacheIsReportedEver`, `ConvergesTorn` | as `IngressFilterApply` | `cp` to the cache fails (`agent.js:752`) and the new hash is written all the same: after a reboot or a flush the gateway runs the old ruleset, reports the new hash, and the hub never sends it again |
| IngressFilter `ShownIsRun` | `MayDelete = FALSE` | a kill between `remove_ingress` and the write of NONE leaves the old hash in `/run`; the same ruleset wanted again is not applied and shown as set |
| IngressFilter `HealsWithoutHub` | `SPECIFICATION HubDownSpec`, `MaxFaults = 2` | both boot restores fail, `/run` has no hash, and the self-heal returns at once until the hub answers |
| DirectLink `Watched` | `CutShort = TRUE` | SIGKILL between filling the table and writing the path leaves a table that three failed checks do not empty |
| DirectLink `StoppedUsesHubEver`, `FailsOverEver` | as `DirectLinkPaths` | the trap that empties the tables is set after the links are brought up (`agent.js:1527`): an agent that is stopped before that, after a SIGKILL or a self-update had left the tables filled, leaves them filled; nobody empties them until the agent is started again |
| DirectLinkHub `DeletedRunsNoLink` | as `DirectLinkHubSaves` | a link is switched off or deleted and its agent deleted before the gateway's next poll: it runs the link for ever. `agent.js:2477`: "must be switched off (and torn down by the agent) first"; the check looks at the row only |
| DirectLinkHub `KeyOfSide` without `raced` | as `DirectLinkHubSaves` | a side moves between the read and the write of the old gateway's heartbeat (`internal/agent-direct-link.js:505`): its key is pinned on the new gateway's side, and shown as changed at the next heartbeat |
| DirectLinkHub `LinksFit` without `raced` | `Stored = <<>>`, `MAX_DIRECT_LINK_ID = 2` | two creates are validated before either is written; both rows have one net, one pair and one port |
| MeshSync `BindingsFollowAlways`, `CascadeTakesOwnAlways` | as `MeshSyncRequests` | the rename cascade runs after the lock is released: a second rename, or a deletion planned in between, meets rows that still have the old names. A deletion plans by the name its link had when it was requested, and takes the agents by the ids it found: one that is rebound between plan and delete is deleted with the link it has left |
| MeshSync `NoGhostLink` | as `MeshSyncRequests` | a metadata write checked against the live peers is written after a deletion has removed one; `routes/wireguard.js:107-110` and `wireguard.js:26-29` say the lock prevents that |
| MeshSync `UnboundTunnelOnly` | as `MeshSyncRequests` | an upload or a sync that read the row while it was bound writes the networks back after the unbinding (`agent.js:2333-2337`) |
| MeshSync `UniqueNames` | a restore that names one link like another | a restored backup is not checked against the names of links it does not contain; `wireguard.js:3268-3271`: "The update paths already guard this" |
| GatewayConfig `ImplementsAppliedEver`, `NoRuleMissing`, `NoRuleLeft` | `Faults = {"hook"}`, or `{"kill"}`; `{"reboot","cp"}`, `{"record","cp"}` | a command of PostUp or PostDown fails and is swallowed (`agent.js:1711`, `1715`), the hash is recorded with a rule missing or left over, and no retry follows; a kill inside the swap, or a record of hooks that does not match the rules, does the same by a detour. `"wgup"` breaks `NoRuleLeft` only, `"route"` `ImplementsAppliedEver` only |
| GatewayConfig `ReportsWhatRuns`, `Delivered` | `Reverts = TRUE` | a failed apply leaves the new peers under the old hash; the hub returns to the old configuration, the hashes agree, and nothing is applied. `agent.js:2171`: "Report the hash the agent actually RUNS" |
| GatewayConfig `KeyKept` | as `GatewayConfigApply` | cp over the conf is cut short (`agent.js:1729`), and the PrivateKey, which exists nowhere else, is gone |
| HostConfig `KeptIsServed` | `Procs = {p1}`, `MaxRequests = 3` | a host is disabled, changed and enabled with a configuration nginx refuses: the previous conf that is put back is that of a disabled host, an empty shell; `internal/nginx.js:425`: "The previous conf is live again — the host stays online" |
| HostConfig `LastSaveServed`, `StaysStopped`, `NamesUnique` | as `HostConfigSaves` | rows are written outside the lock: two saves of a host can be configured in the other order, an update that read the row before a disable puts the host back, two saves can take one name |
| CertRenewal `CertificateKept` | one certificate, incomplete; `Overlap = TRUE`, `Operations <- RenewFirst`, `MaxEvents = 0` | timer and user renew at once (`internal/certificate.js:1308` has no single flight): the second recovers and moves the first one's backup; the first certbot run fails and restores, the second fails, removes the restored archive and throws on the rename of an entry its backup no longer has. `certificate.js:1344-1345`: "without destroying the still-valid certificate if certbot fails" |
| CertRenewal `ServedAlways` | as `CertRenewalTimer` | `reloadPending` dies with the process; after a restart nobody reloads nginx for a certificate already recorded. `certificate.js:323`: "Retried every timer tick until a reload succeeds" |
| CertRenewal `NewestKept`, `NoOrphan` | as `CertRenewalTimer` | a certbot run that broke off leaves an archive the recovery takes for the certificate; a deletion during a request leaves a lineage without a row |
| CertRenewal `AlertsAgree` | as `CertRenewalTimer` | `onFailure` of the timer and `checkExpiring` write back a state file they read before a user's renewal succeeded, and nothing calls `forget` |
| AppUpdate `RetryInstalls` | as `AppUpdateRelease` | an update that was cut off after the merge is retried and reports "up to date" over old dependencies; `scripts/update.sh:165-166` excludes it for failures only |
| AppUpdate `FinalStays` | as `AppUpdateRelease` | a status read as active is overwritten as stale after the updater has written its final one |
| AppUpdate `StartableEver`, `RestoredEver` | as `AppUpdateRelease` | the backend restarts by itself after the merge and applies the migrations before the updater's own restart; the rollback then skips their reversal |

More limits. What `DirectLink.Converges` claims: a stop between `wg syncconf` and the write of the hash leaves the new
peer under the old hash; if the hub then returns to the old config, the hashes agree and the peer is not
corrected. A stop between the removal of the bookkeeping and of the rule for the hub address, or a
failed `wg-quick up` followed by switching the link off, leaves an ip rule behind (the latter the config file as
well); `Settled` therefore speaks of the link's rule for links that are gone and of nothing but interface
and table for links that are off. GatewayConfig: while `unsure` has "lacking" or "extra", the properties claim nothing
of missing or of left-over rules. A whole swap settles a doubt only where its record is that of the rules: after
a lost record a rule of the hooks before that may stay until the next boot. HostConfig: a
restart inside `configure` can leave an untested conf in the live set; `LiveSetValid` excepts those hosts.
`Recoverable` speaks of the moment of the restart, and afterwards of the hosts no request was working on: of the
others nobody restores the backup.

## 5. What is proved

The theorems hold for all values of the constants: any number of links, agents, hosts, administrators,
rules, requests and faults. They assume what the `ASSUME`s of the modules say of the constants, which TLC
evaluates in every run. Two of these say more than types. `MeshStart`: at the start no agent's stored
configuration has a network its whitelist forbids. `HostAssumption`: nginx serves the hosts that exist at
the start, so their settings are accepted and no two streams have one port.

Each module follows one pattern: an inductive invariant, one lemma or step per action that it is kept, and the
property as a consequence. TLC has checked each invariant as an invariant of the component's configuration
before it was proved.

| module | theorem | states |
|---|---|---|
| SiteIsolationProofs | `TypeCorrect`, `AppliedMatches`, `BootCopy`, `Separation` | `TypeOK`, `AppliedMatchesStored`, `BootCopyCurrent`, `SeparationKept` |
| IngressRulesProofs | `TypeCorrect`, `NotEmpty`, `AlwaysBuildable` | `TypeOK`, `NotEmptyRestricted`, `Buildable` |
| IngressFilterProofs | `TypeCorrect`, `NeverCutOff`, `CacheReported` | `TypeOK`, `NotCutOff`, `CacheIsReported` |
| AgentRegistrationProofs | `TypeCorrect`, `Revoked`, `AlwaysRecoverable`, `CurrentToken` | `TypeOK`, `RevokedStaysRevoked`, `Recoverable`, `CurrentTokenOnly` |
| MeshSyncProofs | `NeverMore`, `RevokedOut`, `CopiesAgree` | `NeverMoreThanAllowed`, `RevokedStaysOut`, `HubAgrees` |
| GatewayConfigProofs | `TypeCorrect`, `ExactAlways`, `Implements` | `TypeOK`, `RulesExact`, `ImplementsApplied` |
| HostConfigProofs | `LiveAlwaysValid`, `AlwaysRecoverable`, `AlwaysTruthful` | `LiveSetValid`, `Recoverable`, `MetaTruthful` |
| AppUpdateProofs | `TypeCorrect`, `AlwaysStartable`, `Restored`, `Completed` | `TypeOK`, `Startable`, `RestoredIsOld`, `CompletedRuns` |

No theorem assumes more of the constants than that. The exceptions are those of the properties themselves (section 4),
and every theorem covers the behaviours before, in and after them.

**SiteIsolation.** `TypeOK /\ ViewInv /\ PlanInv /\ OrderInv /\ AppliedMatchesStored /\ BootCopyCurrent`.

- `ViewInv`: whatever the code remembers of a steady link (the metadata copies of a running apply or
  save, the links a save has loaded, the live cache, an overview in flight) shows it as a site with
  networks, or admits that it has no live view. Without it an apply could plan from a copy read before
  the last change.
- `PlanInv`: the script that an apply carries has every pair it was given whose links are steady, and no
  pair it was not given.
- `OrderInv`: one save at a time, at most one apply of it in the chain, queued after its commit; an
  apply has read the stored pairs or, while a save is in flight, the ones before it.

`Separation` follows from the invariant for each action that can change the table while an apply runs;
it is an action property, `[][...]_vars`.

**IngressRules.** `TypeOK /\ LockInv /\ NotEmptyRestricted`. `LockInv`: a transaction past `lockAgent` holds
the lock and knows the mode, past `loadRules` it knows the rules, and past its checks the write it is about to
make satisfies them. That is why a check of what was read is a check of what is there. `AcceptedNotEmpty` and
`AcceptedWithinCaps` then show that every accepted request leaves a state that satisfies the checks.
`AlwaysBuildable` has a second invariant, `CapInv`, on top of this one: while nothing has crossed, the rules fit
on the hub interface and the enabled links (alias lines aside), a rule past its checks still fits with the links
there are (`RuleFits`), and a link that is about to be enabled has found room for one more interface
(`LinkFits`). The lines are counted as the set of pairs of a rule and a number, so
that the theorems on finite sets take the place of an induction over the rules.

**IngressFilter.** Both properties are about a value that travels, from the hub's rows into the answer of a
poll, into the arguments of `apply_ingress`, into the kernel and onto the disk, and from the disk at a boot or by
the self-heal into the kernel again. `NoCut` says of every place on that way that the ruleset there is not the one
that drops everything, or is of a mixed answer: the rows themselves never ask for that filter, and a `getConfig`
whose rows did not change gives what they ask for. `Copies` says what the
two files, `/run` and the arguments of a running apply have to do with each other at every step between two writes,
while nothing is `torn`: which of them is still the old ruleset, which the new one.

**AgentRegistration.** `TypeOK /\ DrawnInv /\ AgentInv /\ PatchInv /\ RevokedStaysRevoked`. A handler between its
SELECT and its UPDATE could write a token that was revoked in the meantime; `PatchInv` says that a pending
`register` carries one that nobody else has, neither the row nor the agent, the script or another call. `Recoverable`
needs the whole exchange (`ExchangeInv`, while no two handlers have overlapped, no write is `stale`, and no
`reg_token` was downloaded `again`): who may know which token of the last reset, and
that a `reg_token` is retired only after a `getConfig` that authenticated with its successor.

**MeshSync.** `ReqOK /\ RowOK /\ LockOK /\ Granted`. While requests run, a stored configuration may grant too
much. `Granted` says why it will not stay so: some request has its sync of the agents still before it, or the
sync that runs has the row's present binding and has yet to come to that agent. That a running sync is not
overtaken by another one rests on `LockOK`, the order of `withWriteLock`. For `RevokedOut` the steps that add peers
are shown to add those that `wg0.conf` lists (`AddsListed`). `CopiesAgree` (store, `wg0.conf`, kernel and routes, while
no fault has happened) has an invariant of its own, `HubInv`: two copies agree or some request still has the
step before it that makes them agree, and a key that is being added or removed is one request's (`KeysOK`).
The latter is needed because deletePeer removes the kernel's peer after it has left the lock. No run lists `HubAgrees`;
TLC has checked it, and `HubInv`, on the configuration of `mesh_requests` and
on four creates, deletes, changes and restores of which three overlap.

**GatewayConfig.** `FlagOK /\ DataOK /\ ApplyInv /\ AtLeastInv /\ AtMostInv`. A hash may be recorded only while conf,
peers, routes and rules are those of the configuration fetched, as far as they are not in doubt. `ApplyInv` says
for each command of `apply_config` which of these are in place already. The rules have two halves. `AtLeastInv`:
unless "lacking" is in doubt, the rules of the recorded hooks are live at every command outside a swap.
`AtMostInv`: unless "extra" is, no other rule is live and none twice, between two attempts of which one may have
ended inside the swap. `Implements` shows that the initial states are initial states of AppliedConfig and that every step under `Running`
is a step of it or a stutter: the write of the hash is its record, a write of the hash that fails and leaves none is its `Forget`. AppliedConfig has no fairness, so this is its whole specification.

**HostConfig.** `LiveSetValid` says nothing of a configuration that is being replaced under the lock. `IInv` does:
putting the backups back would make the live set acceptable (`Under`), and a stashed conf is acceptable
(`StashOK`), since a refused save of a stashed host puts it back into a live set that may have changed since.
`Recoverable` has an invariant of its own, `RInv = RowsOK /\ KindsOK /\ Sole /\ Kept`: a host whose saves did not
race is one request's at a time (`Sole`), and its one good conf is live or stashed, or in the backup while it is
being replaced, step by step through that request (`Local`). An update writes the row's outcome back last, so a
row that is about to say "ok" again counts as one that does (`Due`).
`MetaTruthful` needs two more. `SInv`: from a passed `nginx -t` to the reload after it nginx accepts what is on disk,
so the reload that is not checked in the code does what the row will say of it, and confs are stashed for a
certificate request only. `TInv`: a host nobody works on has the conf its row was rendered to on disk, and the
row tells what nginx runs (`Truth`); for the host of a running request, `Honest` says phase by phase which of
conf, row and running configuration are still the old ones, which are the new ones, and what the rest of the
request will make equal again.

**AppUpdate.** `TypeOK /\ RollbackInv /\ Startable /\ RestoredIsOld`. `RollbackInv` adds what the steps of
`update.sh` rely on. `DatabaseInv`: before the updater's own restart the release's migrations are applied only if `early`, and
nothing that can apply them comes between their reversal and the checkout of the old code. `ServiceInv`: the service is
stopped from that reversal to the restart of the old version. `TreeInv`: what each step finds in the tree.

Only model-checked:

- all liveness (`Converges`, `Delivered`, `Served`, ...): it needs fairness and ENABLED, which the prover does
  not handle;
- `BindingsFollow` and `CascadeTakesOwn` of MeshSync: they depend on the list of row updates a cascade
  makes, on the order in which a swap of names takes them, and on what `crossed` has seen of other requests;
- `Watched` and `StoppedUsesHub` of DirectLink, `KeyOfSide` of DirectLinkHub and
  `CertificateKept` of CertRenewal: section 6 says what their invariants would have to state.

## 6. What is not modelled, and the plan

The backend parts whose steps depend on other processes, machines or overlapping requests are modelled. That is about an
eighth of the repository's source lines: half of it is the web interface, and much of the rest is
validation, rendering and row access around the modelled decisions.

Not modelled:

- the web interface, the HTTP and model layers, audit log and reports: they decide nothing the hub depends on;
- authentication, 2FA, OIDC, users: single-row requests whose substance is comparison and cryptography;
- Cloudflare DNS, geo filter, IP ranges, notifications: calls of services whose guarantees are not in
  the source;
- key rotation and the hub's own interface settings in `wireguard.js`, traffic statistics;
- uploaded certificates; the text of nginx templates, of WireGuard configurations and of rules beyond what
  a property tells apart.

Next:

1. Proofs, in this order: `KeyOfSide` and `PinnedKept` of DirectLinkHub (every pending write's side belongs to
   its gateway, unless `raced`); `CertificateKept` of CertRenewal (the parts of a lineage are in place or in the
   backup, for every prefix of a move); `Watched` of DirectLink; `BindingsFollow` and `CascadeTakesOwn` of MeshSync.
2. Abstract specifications for site isolation ("a table that follows a set of pairs") and the Freigaben
   ("requests are atomic").
3. The two ends of a direct link composed: DirectLinkHub with two instances of DirectLink.
4. Pure algorithms (network overlap, plan of addresses) as operators against a reference definition.
5. Key rotation and restore of a backup as files.
