---------------------------- MODULE SiteIsolation ----------------------------
(***************************************************************************)
(* "Standorte untereinander": the hub keeps a set of site pairs that must  *)
(* not reach each other and enforces them with one nftables table,         *)
(* inet floppyguard_sites (backend/internal/site-isolation.js and          *)
(* site-isolation-rules.js).                                               *)
(*                                                                         *)
(* The applier is an asynchronous program: it reads the stored pairs, the  *)
(* WireGuard metadata store and the live WireGuard status one after the    *)
(* other, plans the table, loads it with nft and writes a copy for the     *)
(* next boot.  One action below is the code between two awaits.  Applies   *)
(* are serialised by a promise chain (queue, run), saves by a lock (rep);  *)
(* the overview page and the metadata writers interleave freely.           *)
(*                                                                         *)
(* Data.  A network is a set of address atoms; Covered are the atoms an    *)
(* ipv4_addr interval set can hold (no IPv6, no default route).  Names,    *)
(* comments and the layout of the nft script are left out: two scripts are *)
(* the same when they hold the same sets and the same drop rules.          *)
(***************************************************************************)
EXTENDS Naturals, Sequences, FiniteSets

CONSTANTS
    Links,          \* link ids ("wg0:<public key>")
    OnWg0,          \* the links that are peers of the hub interface wg0
    Addrs,          \* address atoms
    Covered,        \* the atoms that fit an ipv4_addr set
    None,           \* "not there": null, undefined, no Map entry, no table
    Entries,        \* the metadata entries a writer may store for a link
    PeersOf,        \* the WireGuard peers a link may have
    Outages,        \* the sets of links a status read may fail to show
    Bodies,         \* the pair lists an administrator may save
    Faults,         \* which of "nft", "persist", "flush", "nftables", "restart" occur
    BootInclude,    \* does /etc/nftables.conf include the boot copy?
    MaxChanges, MaxFaults, MaxPuts, MaxReads, MaxQueue   \* bounds

Types == {"site", "client"}             \* SITE_LINK_TYPES or not
Entry == [type : Types \cup {"none"}, nets : SUBSET Addrs]
Peer  == [nets : SUBSET Addrs, tun : SUBSET Addrs]
View  == [type : Types \cup {"none"}, nets : SUBSET Addrs, tun : SUBSET Addrs]
Link  == [type : Types \cup {"none"}, nets : SUBSET Addrs, tun : SUBSET Addrs,
          live : BOOLEAN]
Pairs == {q \in SUBSET Links : \E a, b \in Links : a # b /\ q = {a, b}}
Script == [pairs : SUBSET Pairs, sets : [Links -> SUBSET Covered]]

ASSUME ConstantsAssumption ==
    /\ OnWg0 \subseteq Links /\ Covered \subseteq Addrs
    /\ Entries \in [Links -> SUBSET (Entry \cup {None})]
    /\ PeersOf \in [Links -> SUBSET (Peer \cup {None})]
    /\ Outages \subseteq SUBSET Links /\ Bodies \subseteq SUBSET Pairs
    /\ BootInclude \in BOOLEAN
    /\ {MaxChanges, MaxFaults, MaxPuts, MaxReads, MaxQueue} \subseteq Nat

(* null is a value of its own, never a record. *)
ASSUME NoneAssumption ==
    None \notin Entry /\ None \notin Peer /\ None \notin View /\ None \notin Link
    /\ None \notin Script

HOLD_APPLIES == 1       \* applies a vanished link keeps its last sets

VARIABLES
    pairs,      \* the rows of table site_isolation
    meta,       \* metadata store: link -> entry
    readable,   \* can the metadata store be read and parsed?
    peer,       \* the peers WireGuard runs
    outage,     \* links the live status does not show at present
    liveCache,  \* loadLinks' last live view of each link
    script,     \* applier state: last script loaded (state.hash / .appliedPairs)
    err,        \* applier state: error_code of the last apply, or "none"
    persisted,  \* applier state: is the boot copy that of the last script?
    lastLinks,  \* the links of the last applied script
    missing,    \* missingStreak
    queue,      \* applies waiting in the promise chain
    run,        \* the apply that is executing
    scheduled,  \* is the debounce timer armed?
    rep,        \* the save (PUT) that holds replaceLock
    obs,        \* status read by an overview whose loadLinks has not finished
    table,      \* the kernel's table inet floppyguard_sites
    boot,       \* /etc/nftables.d/floppyguard-sites.nft
    steady,     \* history: the links that have always been recorded as sites
    changes, faults, puts, reads        \* what the bounds count

store   == <<meta, readable, peer, outage, steady, changes>>
applier == <<script, err, persisted, lastLinks>>
vars == <<pairs, store, liveCache, applier, missing, queue, run, scheduled,
          rep, obs, table, boot, faults, puts, reads>>

-----------------------------------------------------------------------------
(* Pure rules *)

(* Two network routes make a peer of wg0 a hub link, one is enough elsewhere. *)
classifyLinkType(l, nets) ==
    IF Cardinality(nets) >= (IF l \in OnWg0 THEN 2 ELSE 1) THEN "site" ELSE "client"

(* One record of the live status: metadata first, AllowedIPs otherwise. *)
buildLinkRecord(l, m, p) ==
    [type |-> IF m # None /\ m.type # "none" THEN m.type ELSE classifyLinkType(l, p.nets),
     nets |-> IF m # None /\ m.nets # {} THEN m.nets ELSE p.nets,
     tun  |-> p.tun]

(* The live status; it reads the metadata store itself and throws with it. *)
getStatus ==
    [l \in Links |-> IF readable /\ peer[l] # None /\ l \notin outage
                     THEN buildLinkRecord(l, meta[l], peer[l]) ELSE None]

CacheLive(cache, live) ==
    [l \in Links |-> IF live[l] # None THEN live[l] ELSE cache[l]]

(* The links as the planner sees them, from the metadata m read earlier, the *)
(* live status and the cache that the same call has already refreshed.       *)
loadLinks(m, live, cache) ==
    LET v(l) == IF cache[l] # None THEN cache[l]
                ELSE [type |-> "none", nets |-> {}, tun |-> {}]
    IN [l \in Links |->
          IF m[l] # None
          THEN [type |-> IF m[l].type # "none" THEN m[l].type ELSE v(l).type,
                nets |-> IF m[l].nets # {} THEN m[l].nets ELSE v(l).nets,
                tun  |-> v(l).tun,
                live |-> cache[l] # None]
          ELSE IF live[l] # None
          THEN [type |-> live[l].type, nets |-> live[l].nets,
                tun  |-> live[l].tun,  live |-> TRUE]
          ELSE None]

isSiteLink(k) == k # None /\ k.type = "site"

(* Fault injection: no check for IPv6 networks and default routes. *)
siteNetworksUnchecked(k) == k.nets \cup k.tun

siteNetworks(k) == (k.nets \cup k.tun) \cap Covered

(* sanitizePairs throws unless every link of the list is a current site. *)
sanitizePairs(body, links) == \A p \in body : \A l \in p : isSiteLink(links[l])

(* The pairs that get a drop rule. *)
planSiteIsolation(ps, links) ==
    {p \in ps : \A l \in p : isSiteLink(links[l]) /\ siteNetworks(links[l]) # {}}

(* Only sites of a planned pair get a set. *)
buildSiteIsolationNft(ps, links) ==
    LET plan == planSiteIsolation(ps, links)
    IN [pairs |-> plan,
        sets  |-> [l \in Links |-> IF l \in UNION plan THEN siteNetworks(links[l]) ELSE {}]]

(* A link of a stored pair that is gone from the input keeps its last applied *)
(* version for HOLD_APPLIES applies.                                          *)
withHeldLinks(ps, links) ==
    [l \in Links |-> IF links[l] = None /\ l \in UNION ps /\ missing[l] < HOLD_APPLIES
                     THEN lastLinks[l] ELSE links[l]]

(* missingStreak; a count above HOLD_APPLIES is as good as any other. *)
bumpStreaks(ps, links) ==
    [l \in Links |-> IF links[l] # None \/ l \notin UNION ps THEN 0
                     ELSE IF missing[l] > HOLD_APPLIES THEN missing[l]
                     ELSE missing[l] + 1]

(* Fault injection: without the check for links that have no live view. *)
linksUnresolvedNotBlind(ps, links) ==
    /\ ps # {}
    /\ \/ \A l \in Links : ~isSiteLink(links[l])
       \/ \A p \in ps : \E l \in p : ~isSiteLink(links[l])

(* Stored pairs, but the view of the links cannot be trusted with them. *)
linksUnresolved(ps, links) ==
    /\ ps # {}
    /\ \/ \A l \in Links : ~isSiteLink(links[l])
       \/ \A p \in ps : \E l \in p : ~isSiteLink(links[l])
       \/ \E p \in ps : /\ p \notin planSiteIsolation(ps, links)
                        /\ \E l \in p : links[l] # None /\ links[l].live = FALSE

-----------------------------------------------------------------------------
(* The apply that is executing *)

NoLinks == [l \in Links |-> None]
Empty   == [pairs |-> {}, sets |-> [l \in Links |-> {}]]
NoRun == [pc |-> "idle", op |-> "timer", pairs |-> {}, meta |-> NoLinks,
          links |-> NoLinks, script |-> Empty]
NoRep == [pc |-> "idle", meta |-> NoLinks, body |-> {}, links |-> NoLinks,
          before |-> {}]

Done == /\ run' = NoRun
        /\ rep' = IF run.op = "replace" THEN NoRep ELSE rep

(* applyOnce after its input is there, up to the next await: hold vanished  *)
(* links, plan, fail closed, skip the load when nothing has changed.        *)
Plan(op, ps, links) ==
    LET held == withHeldLinks(ps, links)
        new  == buildSiteIsolationNft(ps, held)
        next(pc) == [pc |-> pc, op |-> op, pairs |-> ps, meta |-> NoLinks,
                     links |-> held, script |-> new]
    IN /\ missing' = bumpStreaks(ps, links)
       /\ \/ /\ linksUnresolved(ps, held)
             /\ err' = "links-unresolved"
             /\ run' = NoRun
             /\ rep' = IF op = "replace" THEN NoRep ELSE rep
          \/ /\ ~linksUnresolved(ps, held)
             /\ run' = next(IF op = "timer" /\ new = script /\ err = "none"
                            THEN "list" ELSE "nft")
             /\ rep' = IF op = "replace" THEN [rep EXCEPT !.pc = "applying"] ELSE rep
             /\ UNCHANGED err

(* chain.then(() => applyOnce(opts)): the head of the chain starts.  A save  *)
(* passes its own pairs and links in, any other apply queries the pairs.     *)
StartApply ==
    /\ run.pc = "idle" /\ queue # <<>>
    /\ queue' = Tail(queue)
    /\ \/ /\ Head(queue) = "replace"
          /\ Plan("replace", rep.body, rep.links)
       \/ /\ Head(queue) # "replace"
          /\ run' = [NoRun EXCEPT !.pc = "meta", !.op = Head(queue), !.pairs = pairs]
          /\ UNCHANGED <<err, missing, rep>>
    /\ UNCHANGED <<pairs, store, liveCache, script, persisted, lastLinks,
                   scheduled, obs, table, boot, faults, puts, reads>>

(* loadLinks: read the metadata store; a corrupt or unreadable one throws. *)
ApplyReadMeta ==
    /\ run.pc = "meta"
    /\ \/ /\ readable
          /\ run' = [run EXCEPT !.pc = "status", !.meta = meta]
          /\ UNCHANGED <<err, rep>>
       \/ /\ ~readable
          /\ err' = "input"
          /\ Done
    /\ UNCHANGED <<pairs, store, liveCache, script, persisted, lastLinks, missing,
                   queue, scheduled, obs, table, boot, faults, puts, reads>>

(* loadLinks: the live status arrives, then everything up to the next await. *)
ApplyPlan ==
    /\ run.pc = "status"
    /\ liveCache' = CacheLive(liveCache, getStatus)
    /\ Plan(run.op, run.pairs, loadLinks(run.meta, getStatus, liveCache'))
    /\ UNCHANGED <<pairs, store, script, persisted, lastLinks, queue, scheduled,
                   obs, table, boot, faults, puts, reads>>

(* Fault injection: an unchanged script is skipped without looking at nft. *)
ApplyListUnseen ==
    /\ run.pc = "list"
    /\ \/ persisted /\ Done
       \/ ~persisted /\ run' = [run EXCEPT !.pc = "persist"] /\ UNCHANGED rep
    /\ UNCHANGED <<pairs, store, liveCache, applier, missing, queue, scheduled,
                   obs, table, boot, faults, puts, reads>>

(* nft list table: an unchanged script is not loaded again while the table  *)
(* is there; only a boot copy that failed earlier is written again.         *)
ApplyList ==
    /\ run.pc = "list"
    /\ \/ /\ table # None /\ persisted
          /\ Done
       \/ /\ ~(table # None /\ persisted)
          /\ run' = [run EXCEPT !.pc = IF table = None THEN "nft" ELSE "persist"]
          /\ UNCHANGED rep
    /\ UNCHANGED <<pairs, store, liveCache, applier, missing, queue, scheduled,
                   obs, table, boot, faults, puts, reads>>

(* nft -c -f and nft -f: the table is replaced in one transaction. *)
ApplyNft ==
    /\ run.pc = "nft"
    /\ table' = run.script
    /\ script' = run.script
    /\ err' = "none"
    /\ lastLinks' = [l \in Links |-> IF l \in UNION run.script.pairs THEN run.links[l]
                                     ELSE None]
    /\ run' = [run EXCEPT !.pc = "persist"]
    /\ UNCHANGED <<pairs, store, liveCache, persisted, missing, queue, scheduled,
                   rep, obs, boot, faults, puts, reads>>

(* Fault injection: a failed load that is logged but not kept in state.error. *)
ApplyNftFailsUnreported ==
    /\ run.pc = "nft"
    /\ "nft" \in Faults /\ faults < MaxFaults /\ faults' = faults + 1
    /\ table' \in {table, run.script}
    /\ Done
    /\ UNCHANGED <<pairs, store, liveCache, applier, missing, queue, scheduled, obs,
                   boot, puts, reads>>

(* nft fails: it rejects the script, or it is killed at its timeout, and the *)
(* transaction may by then have been committed.                              *)
ApplyNftFails ==
    /\ run.pc = "nft"
    /\ "nft" \in Faults /\ faults < MaxFaults /\ faults' = faults + 1
    /\ table' \in {table, run.script}
    /\ err' = "nft"
    /\ Done
    /\ UNCHANGED <<pairs, store, liveCache, script, persisted, lastLinks, missing,
                   queue, scheduled, obs, boot, puts, reads>>

(* persistReported: write and rename the boot copy. *)
ApplyPersist ==
    /\ run.pc = "persist"
    /\ boot' = run.script
    /\ persisted' = TRUE
    /\ Done
    /\ UNCHANGED <<pairs, store, liveCache, script, err, lastLinks, missing, queue,
                   scheduled, obs, table, faults, puts, reads>>

(* Fault injection: a failed write leaves state.persisted as it was. *)
ApplyPersistFailsKept ==
    /\ run.pc = "persist"
    /\ "persist" \in Faults /\ faults < MaxFaults /\ faults' = faults + 1
    /\ Done
    /\ UNCHANGED <<pairs, store, liveCache, applier, missing, queue, scheduled, obs,
                   table, boot, puts, reads>>

ApplyPersistFails ==
    /\ run.pc = "persist"
    /\ "persist" \in Faults /\ faults < MaxFaults /\ faults' = faults + 1
    /\ persisted' = FALSE
    /\ Done
    /\ UNCHANGED <<pairs, store, liveCache, script, err, lastLinks, missing, queue,
                   scheduled, obs, table, boot, puts, reads>>

-----------------------------------------------------------------------------
(* Triggers *)

(* schedule(): syncAgentConfigs, which every link change and the reconciler  *)
(* call, arms one debounce timer.                                            *)
Trigger ==
    /\ ~scheduled
    /\ scheduled' = TRUE
    /\ UNCHANGED <<pairs, store, liveCache, applier, missing, queue, run, rep, obs,
                   table, boot, faults, puts, reads>>

TimerFires ==
    /\ scheduled /\ Len(queue) < MaxQueue
    /\ scheduled' = FALSE
    /\ queue' = Append(queue, "timer")
    /\ UNCHANGED <<pairs, store, liveCache, applier, missing, run, rep, obs, table,
                   boot, faults, puts, reads>>

-----------------------------------------------------------------------------
(* PUT /api/site-isolation *)

(* The request gets the lock and loadLinks reads the metadata store. *)
ReplaceStart(body) ==
    /\ rep.pc = "idle" /\ puts < MaxPuts /\ puts' = puts + 1
    /\ readable
    /\ rep' = [NoRep EXCEPT !.pc = "status", !.body = body, !.meta = meta]
    /\ UNCHANGED <<pairs, store, liveCache, applier, missing, queue, run, scheduled,
                   obs, table, boot, faults, reads>>

(* The live status arrives; the list is validated against that view. *)
ReplaceLinks ==
    /\ rep.pc = "status"
    /\ liveCache' = CacheLive(liveCache, getStatus)
    /\ LET links == loadLinks(rep.meta, getStatus, liveCache')
       IN rep' = IF sanitizePairs(rep.body, links)
                 THEN [rep EXCEPT !.pc = "commit", !.meta = NoLinks, !.links = links]
                 ELSE NoRep
    /\ UNCHANGED <<pairs, store, applier, missing, queue, run, scheduled, obs, table,
                   boot, faults, puts, reads>>

(* The transaction that replaces all rows commits. *)
ReplaceCommit ==
    /\ rep.pc = "commit"
    /\ pairs' = rep.body
    /\ rep' = [rep EXCEPT !.pc = "stored", !.before = pairs]
    /\ UNCHANGED <<store, liveCache, applier, missing, queue, run, scheduled, obs,
                   table, boot, faults, puts, reads>>

(* After the audit log entry the forced apply joins the chain. *)
ReplaceApply ==
    /\ rep.pc = "stored"
    /\ queue' = Append(queue, "replace")
    /\ rep' = [rep EXCEPT !.pc = "queued"]
    /\ UNCHANGED <<pairs, store, liveCache, applier, missing, run, scheduled, obs,
                   table, boot, faults, puts, reads>>

-----------------------------------------------------------------------------
(* overview() and verdict() share loadLinks, and with it the live cache *)

OverviewReadStatus ==
    /\ obs = None /\ readable /\ reads < MaxReads /\ reads' = reads + 1
    /\ obs' = getStatus
    /\ UNCHANGED <<pairs, store, liveCache, applier, missing, queue, run, scheduled,
                   rep, table, boot, faults, puts>>

OverviewFillCache ==
    /\ obs # None
    /\ liveCache' = CacheLive(liveCache, obs)
    /\ obs' = None
    /\ UNCHANGED <<pairs, store, applier, missing, queue, run, scheduled, rep, table,
                   boot, faults, puts, reads>>

-----------------------------------------------------------------------------
(* The surroundings: metadata writers, WireGuard, nftables, the process *)

(* Is link l recorded as a site with an IPv4 network, and does its peer agree? *)
RecordedSite(l, m, p) ==
    /\ m # None /\ p # None
    /\ buildLinkRecord(l, m, p).type = "site"
    /\ buildLinkRecord(l, m, p).nets \cap Covered # {}

Change == /\ changes < MaxChanges
          /\ changes' = changes + 1
          /\ steady' = {l \in steady : RecordedSite(l, meta'[l], peer'[l])}
          /\ UNCHANGED <<pairs, liveCache, applier, missing, queue, run, scheduled,
                         rep, obs, table, boot, faults, puts, reads>>

(* mutateMetadataStore: create, edit, rename or delete the entry of a link. *)
WriteMeta(l) ==
    /\ \E m \in Entries[l] \ {meta[l]} : meta' = [meta EXCEPT ![l] = m]
    /\ readable
    /\ UNCHANGED <<readable, peer, outage>>
    /\ Change

(* wg set: WireGuard gains, loses or changes a peer. *)
SetPeer(l) ==
    /\ \E p \in PeersOf[l] \ {peer[l]} : peer' = [peer EXCEPT ![l] = p]
    /\ UNCHANGED <<meta, readable, outage>>
    /\ Change

(* An interface goes down or `wg show` fails, and recovers. *)
SetOutage ==
    /\ \E o \in Outages \ {outage} : outage' = o
    /\ UNCHANGED <<meta, readable, peer>>
    /\ Change

(* The metadata file becomes unreadable (EACCES, corrupt JSON) or is repaired. *)
SetReadable ==
    /\ readable' = ~readable
    /\ UNCHANGED <<meta, peer, outage>>
    /\ Change

Fault(kind) == kind \in Faults /\ faults < MaxFaults /\ faults' = faults + 1

(* `flush ruleset` by someone else *)
FlushRuleset ==
    /\ Fault("flush")
    /\ table' = None
    /\ UNCHANGED <<pairs, store, liveCache, applier, missing, queue, run, scheduled,
                   rep, obs, boot, puts, reads>>

(* systemctl restart nftables, and the part of a hub reboot that concerns it *)
RestartNftables ==
    /\ Fault("nftables")
    /\ table' = IF BootInclude THEN boot ELSE None
    /\ UNCHANGED <<pairs, store, liveCache, applier, missing, queue, run, scheduled,
                   rep, obs, boot, puts, reads>>

(* The backend process dies and comes back: start() forces one apply. *)
RestartBackend ==
    /\ Fault("restart")
    /\ liveCache' = NoLinks
    /\ script' = None /\ err' = "none" /\ persisted' = FALSE
    /\ lastLinks' = NoLinks /\ missing' = [l \in Links |-> 0]
    /\ queue' = <<"start">> /\ run' = NoRun /\ scheduled' = FALSE
    /\ rep' = NoRep /\ obs' = None
    /\ UNCHANGED <<pairs, store, table, boot, puts, reads>>

-----------------------------------------------------------------------------
Init ==
    /\ pairs = {} /\ readable = TRUE /\ outage = {}
    /\ meta \in [Links -> UNION {Entries[l] : l \in Links}]
    /\ \A l \in Links : meta[l] \in Entries[l]
    /\ peer \in [Links -> UNION {PeersOf[l] : l \in Links}]
    /\ \A l \in Links : peer[l] \in PeersOf[l]
    /\ steady = {l \in Links : RecordedSite(l, meta[l], peer[l])}
    /\ liveCache = NoLinks
    /\ script = None /\ err = "none" /\ persisted = FALSE
    /\ lastLinks = NoLinks /\ missing = [l \in Links |-> 0]
    /\ queue = <<"start">> /\ run = NoRun /\ scheduled = FALSE
    /\ rep = NoRep /\ obs = None
    /\ table = None /\ boot = None
    /\ changes = 0 /\ faults = 0 /\ puts = 0 /\ reads = 0

ApplyStep == \/ StartApply \/ ApplyReadMeta \/ ApplyPlan \/ ApplyList \/ ApplyNft
             \/ ApplyPersist
ReplaceStep == ReplaceLinks \/ ReplaceCommit \/ ReplaceApply

Next ==
    \/ ApplyStep \/ ApplyNftFails \/ ApplyPersistFails
    \/ Trigger \/ TimerFires
    \/ \E body \in Bodies : ReplaceStart(body)
    \/ ReplaceStep
    \/ OverviewReadStatus \/ OverviewFillCache
    \/ \E l \in Links : WriteMeta(l) \/ SetPeer(l)
    \/ SetOutage \/ SetReadable
    \/ FlushRuleset \/ RestartNftables \/ RestartBackend

Spec == Init /\ [][Next]_vars

(* The event loop keeps running what it has started, the reconciler keeps    *)
(* triggering; saves, link changes and faults need not happen.               *)
Fairness == /\ WF_vars(ApplyStep) /\ WF_vars(ReplaceStep)
            /\ WF_vars(OverviewFillCache)
            /\ WF_vars(Trigger) /\ WF_vars(TimerFires)

FairSpec == Spec /\ Fairness

-----------------------------------------------------------------------------
(* Properties *)

Maps(S) == [Links -> S \cup {None}]

RunType == [pc : {"idle", "meta", "status", "list", "nft", "persist"},
            op : {"start", "timer", "replace"}, pairs : SUBSET Pairs,
            meta : Maps(Entry), links : Maps(Link), script : Script]
RepType == [pc : {"idle", "status", "commit", "stored", "queued", "applying"},
            meta : Maps(Entry), body : SUBSET Pairs, links : Maps(Link),
            before : SUBSET Pairs]

(* Every variable has its type.  The part that the code must work for: no     *)
(* script, loaded table or boot copy ever holds an address that an ipv4_addr  *)
(* set cannot take (siteNetworks skips IPv6 and default routes).              *)
TypeOK ==
    /\ pairs \in SUBSET Pairs
    /\ meta \in Maps(Entry) /\ readable \in BOOLEAN
    /\ peer \in Maps(Peer) /\ outage \in SUBSET Links /\ steady \in SUBSET Links
    /\ liveCache \in Maps(View)
    /\ script \in Script \cup {None}
    /\ err \in {"none", "input", "links-unresolved", "nft"}
    /\ persisted \in BOOLEAN
    /\ lastLinks \in Maps(Link)
    /\ missing \in [Links -> 0 .. HOLD_APPLIES + 1]
    /\ queue \in Seq({"start", "timer", "replace"})
    /\ run \in RunType /\ rep \in RepType
    /\ scheduled \in BOOLEAN
    /\ obs \in Maps(View) \cup {None}
    /\ table \in Script \cup {None} /\ boot \in Script \cup {None}
    /\ changes \in Nat /\ faults \in Nat /\ puts \in Nat /\ reads \in Nat

(* Has the save in progress stored its pairs without having applied them? *)
SaveInFlight == rep.pc \in {"stored", "queued", "applying"}

(* The stored pairs that no save in progress has just added. *)
KeptPairs == IF SaveInFlight THEN pairs \cap rep.before ELSE pairs

(* "A missing/unreadable view of the links never lifts a separation", for     *)
(* links that have a metadata entry: whatever the order of saves, applies,    *)
(* link changes, outages and restarts, no step of the applier takes a stored  *)
(* pair out of the kernel's table while both links have always been recorded  *)
(* as sites.  A pair the save in flight is only now adding is excepted: an    *)
(* apply that read the older rows may still run before the one it queued.     *)
SeparationKept ==
    [][ run' # run /\ table # None =>
          /\ table' # None
          /\ \A p \in KeptPairs :
                p \subseteq steady /\ p \in table.pairs => p \in table'.pairs ]_vars

(* Outside a save, an applier that reports no error has loaded the stored     *)
(* pairs: none that was removed is left in its script, and none whose links   *)
(* have always been recorded as sites is missing from it.  This is what the   *)
(* order of replaceLock, the apply chain and state.error is for: applies that *)
(* read older rows, failed applies and lost saves may not be the last word.   *)
AppliedMatchesStored ==
    ~SaveInFlight /\ err = "none" /\ script # None =>
        /\ script.pairs \subseteq pairs
        /\ \A p \in pairs : p \subseteq steady => p \in script.pairs

(* state.persisted means what the boot-time include relies on: the boot copy  *)
(* is the last script that was loaded, except while it is being written.      *)
BootCopyCurrent ==
    persisted /\ run.pc # "persist" => boot = script

(* What the table should hold now, from the current view of the links. *)
CurrentLinks == loadLinks(meta, getStatus, CacheLive(liveCache, getStatus))

Settled ==
    IF linksUnresolved(pairs, CurrentLinks)
    THEN err = "links-unresolved"
    ELSE err = "none" /\ table = buildSiteIsolationNft(pairs, CurrentLinks)

(* Once the metadata store stays readable, the kernel's table comes to follow *)
(* the stored pairs and the current links and stays there (or the applier     *)
(* reports links-unresolved): triggers heal flushes, failed loads, stale      *)
(* views of a save, and lost saves.                                           *)
Converges == (<>[]readable) => <>[]Settled

(* overview(): "Enforced = the pair is in the table the hub actually runs";   *)
(* eventually it is, for every pair the page goes on showing as enforced.     *)
EnforcedIsEventuallyReal ==
    (<>[](readable /\ table # None)) =>
        []<>(script # None /\ table # None => script.pairs \subseteq table.pairs)

(* README, "Fail-safe behaviour: a missing or unreadable view of the links    *)
(* never lifts a separation": while neither metadata nor peers change, no     *)
(* apply takes a stored pair out of the table.                                *)
OutageNeverLifts ==
    [][ run' # run /\ table # None =>
          \A p \in KeptPairs : p \in table.pairs => p \in table'.pairs ]_vars

(* loadLinks: "the whole last live-derived view of that link (type, networks, *)
(* tunnel /32s) is used instead of null/[]", also when "wg0 not up yet at     *)
(* boot": while neither metadata nor peers change, no apply takes an address  *)
(* out of the set of a site whose pair stays.                                 *)
OutageKeepsAddresses ==
    [][ run' # run /\ table # None =>
          \A l \in UNION table.pairs :
             l \in UNION table'.pairs => table.sets[l] \subseteq table'.sets[l] ]_vars
=============================================================================
