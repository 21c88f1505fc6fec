------------------------------- MODULE MeshSync -------------------------------
(***************************************************************************)
(* The hub's mesh: the metadata store of the WireGuard links, wg0.conf, the *)
(* kernel's peers and routes, and the config_text the hub stores for every  *)
(* agent (src/backend/internal/wireguard.js, wireguard-plan.js, agent.js).  *)
(*                                                                         *)
(* Every request is split where the code awaits.  A section under           *)
(* withWriteLock starts when the request is at the head of the promise      *)
(* chain; rows of the agent table are read and patched without that lock.   *)
(*                                                                         *)
(* A link is identified by its public key.  Only site links are modelled    *)
(* (a client link contributes no network).  A config_text is the set of     *)
(* other-site networks of its hub peer: the tunnel subnet is always there.  *)
(***************************************************************************)
EXTENDS Naturals, Sequences, SequencesExt

CONSTANTS
    Links,       \* public keys of peers on wg0
    Nets,        \* site networks
    Names,       \* link names an administrator may give
    TempNames,   \* names of the form __fg_rename_..., one per link of a swap
    Agents,      \* rows of the agent table
    Procs,       \* concurrent requests
    Timer,       \* the process of the 5-minute reconciler
    Keep,        \* leave this field as it is
    None,        \* absent: no entry, no name, no text, no restriction
    Patches,     \* per kind of request: functions from some links to changes
    News,        \* metadata of the peers an administrator creates
    Updates,     \* agent updates: [agent, link, acl, allowed]; Keep leaves a column
    Uploads,     \* networks in a conf a gateway may upload
    Deletes,     \* deletes: [link, cascade], cascade: the bound agents may go too
    StartStore, StartRows,
    Faults,      \* subset of {"conf", "noconf", "wg", "db", "rename", "crash", "reboot"}
    MaxFaults,   \* bound: number of faults
    MaxRequests  \* bound: number of requests

ASSUME MeshBounds == MaxFaults \in Nat /\ MaxRequests \in Nat
ASSUME MeshTimer == Timer \notin Procs

VARIABLES
    store,   \* wireguard-metadata.json: link -> [name, nets] or None
    conf,    \* wg0.conf: link -> its site networks or None
    live,    \* the kernel's peers: link -> site networks or None
    routes,  \* kernel routes on wg0
    row,     \* agent rows: [link, acl, allowed, text, gone]; acl is allowed_sites,
             \* allowed is allowed_networks
    lock,    \* withWriteLock's chain: the head runs
    req,     \* per process: pc and the locals of the handler
    lost,    \* work a fault or a restart has undone since the last full sync
    home,    \* history: the link an agent was bound to, whatever its name is now
    dying,   \* history: the links a delete has begun to remove
    crossed, \* history: something has come between a rename or a delete and the
             \* bindings it works on (see Cross)
    nreq,    \* requests so far
    nfault   \* faults so far

past == <<home, dying, crossed>>
vars == <<store, conf, live, routes, row, lock, req, lost, past, nreq, nfault>>
hub == <<store, conf, live, routes>>

AllProcs == Procs \cup {Timer}
Present(f) == {l \in Links : f[l] # None}
Idle == [pc |-> "idle", kind |-> None, in |-> None, old |-> None,
         ops |-> <<>>, todo |-> {}]

\* the process is inside its withWriteLock section
HasLock(p) == lock # <<>> /\ Head(lock) = p
At(p, pc) == req[p].pc = pc
Goto(p, pc) == req' = [req EXCEPT ![p].pc = pc]
Finish(p) == req' = [req EXCEPT ![p] = Idle]
Release == lock' = Tail(lock)
Queue(p) == lock' = Append(lock, p)
\* the next locked section: createPeer still holds the lock, all others queue again
Requeue(p) == lock' = IF req[p].kind = "create" THEN lock ELSE Append(Tail(lock), p)

NoFault == UNCHANGED <<lost, nfault>>
Fault(kind) ==
    /\ kind \in Faults
    /\ nfault < MaxFaults
    /\ nfault' = nfault + 1
    /\ lost' = TRUE

\* the names are written and the bindings have yet to follow
Renaming(q) == At(q, "status") \/ (At(q, "cascade") /\ req[q].ops # <<>>)
\* a delete has planned which agents it takes
Taking(q) == \E pc \in {"dellive", "delmeta", "delagents"} : At(q, pc)
\* records that the condition has come about
Cross(cond) == crossed' = (crossed \/ cond) /\ UNCHANGED <<home, dying>>

\* processes are interchangeable: one of the idle ones takes the request
Begin(p, r) ==
    /\ At(p, "idle")
    /\ p = CHOOSE q \in Procs : At(q, "idle")
    /\ nreq < MaxRequests
    /\ nreq' = nreq + 1
    /\ req' = [req EXCEPT ![p] = r]
-----------------------------------------------------------------------------
(* Names and networks *)

\* the effective link names of a store; an unnamed link has a generated name nobody binds to
NamesOf(s) == [l \in Links |-> IF s[l] = None THEN None ELSE s[l].name]
linksByName(s, n) == {l \in Present(s) : s[l].name = n}
\* the link an agent bound to that name belongs to, if there is exactly one
LinkOf(s, n) == IF n # None /\ \E l \in Links : linksByName(s, n) = {l}
                THEN CHOOSE l \in Links : linksByName(s, n) = {l} ELSE None

\* An empty list of sites or networks is stored as null, which restricts nothing.
Sites == (SUBSET Names \ {{}}) \cup {None}
Allowed == (SUBSET Nets \ {{}}) \cup {None}

\* the networks an agent may route: those it was given, of those some site has, or
\* those of the sites it was given, or all; minus its own site's networks
computeOtherSiteNets(s, r) ==
    LET NetsOf(links) == UNION {s[l].nets : l \in links}
        Unique(l) == linksByName(s, s[l].name) = {l}
        reach == IF r.allowed # None THEN r.allowed \cap NetsOf(Present(s))
                 ELSE IF r.acl = None THEN NetsOf(Present(s))
                 ELSE NetsOf({l \in Present(s) : s[l].name \in r.acl /\ Unique(l)})
    IN  reach \ NetsOf(linksByName(s, r.link))

\* an agent that syncOneAgent does not skip
Syncable(s, r) ==
    /\ ~r.gone
    /\ r.link # None
    /\ r.text # None
    /\ \E l \in Links : linksByName(s, r.link) = {l}

Metas == [name : Names \cup {None}, nets : SUBSET Nets]
\* the hub starts with rows of its table, their configurations in step with the store
ASSUME MeshStart ==
    /\ StartStore \in [Links -> Metas \cup {None}]
    /\ StartRows \in [Agents -> [link : Names \cup {None}, acl : Sites, allowed : Allowed,
                                 text : SUBSET Nets \cup {None}, gone : BOOLEAN]]
    /\ \A a \in Agents : Syncable(StartStore, StartRows[a]) =>
          StartRows[a].text \subseteq computeOtherSiteNets(StartStore, StartRows[a])

merge(m, c) ==
    [name |-> IF c.name # Keep THEN c.name ELSE IF m = None THEN None ELSE m.name,
     nets |-> IF c.nets # Keep THEN c.nets ELSE IF m = None THEN {} ELSE m.nets]
mergeMetadataStorePatch(s, body) ==
    [l \in Links |-> IF l \in DOMAIN body THEN merge(s[l], body[l]) ELSE s[l]]

Conflicts(s, changed) ==
    \E l \in changed, k \in Present(s) : l # k /\ s[l].nets \cap s[k].nets # {}
LiveLinks(s) == [l \in Links |-> IF live[l] = None THEN None ELSE s[l]]
DuplicateName(s, changed) ==
    \E l \in changed, k \in Present(s) : l # k /\ s[l].name # None /\ s[l].name = s[k].name
-----------------------------------------------------------------------------
(* PUT /metadata, apply-metadata, restore and updatePeer *)

\* what updatePeer checks: one link, against the links that are live
updatePeerChecks(next, changed) ==
    Cardinality(changed) = 1 /\ ~Conflicts(LiveLinks(next), changed)
\* what a plan must satisfy to be applied
buildPlanPreview(next, changed) == ~Conflicts(next, changed) /\ ~DuplicateName(next, changed)
\* a restore takes the entries of live links from the backup and skips the others
mergeBackupIntoLive(body) == Restrict(body, DOMAIN body \cap Present(live))

\* what each request checks on the status it reads before the lock; only live links are patched
Accepted(kind, body) ==
    LET next == mergeMetadataStorePatch(store, body)
        changed == DOMAIN body
        known == changed \subseteq Present(live)
    IN  CASE kind = "put" -> known /\ ~Conflicts(next, changed)
          [] kind = "apply" -> known /\ buildPlanPreview(next, changed)
          [] kind = "peer" -> known /\ updatePeerChecks(next, changed)
          [] kind = "restore" -> TRUE

MetadataKinds == {"put", "apply", "peer", "restore"}
MetadataRequest(p, kind, body) ==
    /\ Accepted(kind, body)
    /\ Begin(p, [Idle EXCEPT !.pc = "write", !.kind = kind, !.in = mergeBackupIntoLive(body),
                             !.old = NamesOf(store)])
    /\ Cross(\E q \in Procs : req[q].kind \in MetadataKinds)
    /\ UNCHANGED <<hub, row, lock, lost, nfault>>

\* after its checks a request writes a backup of the store, then asks for the lock
Enqueue(p) ==
    /\ At(p, "write") \/ At(p, "delconf")
    /\ p \notin ToSet(lock)
    /\ Queue(p)
    /\ UNCHANGED <<hub, row, req, lost, past, nreq, nfault>>

\* renames between two stores, the previous name falling back to the status's
diffLinkRenames(before, fallback, after) ==
    LET Old(l) == IF before[l] # None THEN before[l] ELSE fallback[l]
        Moved == {l \in Links : Old(l) # None /\ after[l] # None /\ Old(l) # after[l]}
    IN  [i \in 1 .. Len(SetToSeq(Moved)) |->
            [from |-> Old(SetToSeq(Moved)[i]), to |-> after[SetToSeq(Moved)[i]]]]

\* Fault injection: renames made one after the other, also when they form a swap
cascadeStepsDirect(renames) ==
    [i \in DOMAIN renames |->
        [from |-> renames[i].from, to |-> renames[i].to, phase |-> "direct"]]

\* a chain or a swap of names goes through temporary names
cascadeSteps(renames) ==
    LET olds == {renames[i].from : i \in DOMAIN renames}
        tmp == SetToSeq(TempNames)
        Op(f, t, ph) == [from |-> f, to |-> t, phase |-> ph]
        N == Len(renames)
    IN  IF \A i \in DOMAIN renames : renames[i].to \notin olds
        THEN [i \in 1 .. N |-> Op(renames[i].from, renames[i].to, "direct")]
        ELSE [i \in 1 .. N |-> Op(renames[i].from, tmp[i], "temp")]
             \o [i \in 1 .. N |-> Op(tmp[i], renames[i].to, "final")]

\* the locked write; PUT and updatePeer check the names again under the lock
PatchWrite(p) ==
    LET next == mergeMetadataStorePatch(store, req[p].in)
        ops == cascadeSteps(diffLinkRenames(NamesOf(store), req[p].old, NamesOf(next)))
    IN
    /\ At(p, "write")
    /\ HasLock(p)
    /\ IF req[p].kind \in {"put", "peer"} /\ DuplicateName(next, DOMAIN req[p].in)
       THEN /\ Finish(p)
            /\ UNCHANGED store
       ELSE /\ store' = next
            /\ IF req[p].kind = "peer"
               THEN Goto(p, "status")
               ELSE req' = [req EXCEPT ![p].pc = "cascade", ![p].ops = ops]
    /\ Cross(NamesOf(store') # NamesOf(store) /\ \E q \in Procs : At(q, "delconf"))
    /\ Release
    /\ UNCHANGED <<conf, live, routes, row, lost, nreq, nfault>>

\* updatePeer compares the name of the status it read first with a new status
PeerStatus(p) ==
    LET moved == DOMAIN req[p].in \cap Present(live)
        names == [l \in Links |-> IF l \in moved THEN NamesOf(store)[l] ELSE None]
    IN
    /\ At(p, "status")
    /\ req' = [req EXCEPT ![p].pc = "cascade",
                          ![p].ops = cascadeSteps(diffLinkRenames(req[p].old, req[p].old, names))]
    /\ UNCHANGED <<hub, row, lock, lost, past, nreq, nfault>>

\* renameLinkBinding on some of the rows (all of them unless a statement fails)
Rebound(op, some) ==
    [a \in Agents |->
        LET r == row[a] IN
        [r EXCEPT !.link = IF @ = op.from /\ a \in some THEN op.to ELSE @,
                  !.acl = IF @ # None /\ op.from \in @ /\ a \in some /\ ~r.gone
                          THEN (@ \ {op.from}) \cup {op.to} ELSE @]]

\* what is left after a failed rename: rollback, one retry, or the next rename
AfterFailure(p) ==
    LET op == Head(req[p].ops)
        done == req[p].todo
    IN  CASE op.phase = "temp" -> SetToSeq({[from |-> o.to, to |-> o.from, phase |-> "back"] : o \in done})
          [] op.phase = "final" -> <<[op EXCEPT !.phase = "retry"]>> \o Tail(req[p].ops)
          [] OTHER -> Tail(req[p].ops)

\* one step of cascadeLinkRenames; todo collects the renames already made
CascadeRename(p) ==
    LET op == Head(req[p].ops) IN
    /\ At(p, "cascade")
    /\ req[p].ops # <<>>
    /\ \/ /\ row' = Rebound(op, Agents)
          /\ req' = [req EXCEPT ![p].ops = Tail(@),
                                ![p].todo = IF op.phase = "temp" THEN @ \cup {op} ELSE @]
          /\ NoFault /\ UNCHANGED past
       \/ /\ Fault("rename")
          /\ \E some \in SUBSET Agents : row' = Rebound(op, some)
          /\ req' = [req EXCEPT ![p].ops = AfterFailure(p)]
          /\ Cross(op.phase # "final")
    /\ UNCHANGED <<hub, lock, nreq>>

CascadeDone(p) ==
    /\ At(p, "cascade")
    /\ req[p].ops = <<>>
    /\ req' = [req EXCEPT ![p].pc = "hub", ![p].todo = {}]
    /\ Queue(p)
    /\ UNCHANGED <<hub, row, lost, past, nreq, nfault>>
-----------------------------------------------------------------------------
(* syncHubConfCore: conf first, then the kernel *)

\* networks of the conf's peers after buildPeerUpdates; a peer without metadata stays
buildPeerUpdates ==
    [l \in Links |-> IF conf[l] # None /\ store[l] # None THEN store[l].nets ELSE conf[l]]

SyncHubConf(p) ==
    /\ At(p, "hub")
    /\ HasLock(p)
    /\ \/ /\ conf' = buildPeerUpdates
          /\ req' = [req EXCEPT ![p].pc = "hublive",
                                ![p].todo = {l \in Links : conf[l] # buildPeerUpdates[l]}]
          /\ NoFault
          /\ UNCHANGED lock
       \/ /\ Fault("conf")
          /\ Goto(p, "agents")
          /\ Requeue(p)
          /\ UNCHANGED conf
    /\ UNCHANGED <<store, live, routes, row, past, nreq>>

\* every network of a peer gets a route on the interface
allRouteNets(c) == UNION {c[l] : l \in Present(c)}

\* Fault injection: wg set for every link of the store
SyncHubLiveFromStore(p) ==
    /\ At(p, "hublive")
    /\ HasLock(p)
    /\ live' = [l \in Links |-> IF store[l] # None THEN store[l].nets ELSE live[l]]
    /\ routes' = allRouteNets(conf)
    /\ req' = [req EXCEPT ![p].pc = "agents", ![p].todo = {}]
    /\ Requeue(p)
    /\ UNCHANGED <<store, conf, row, lost, nfault, past, nreq>>

\* wg set for changed and drifted peers; the routes follow the conf
SyncHubLive(p) ==
    LET drift == {l \in Present(conf) : live[l] # None /\ live[l] # conf[l]}
        set == req[p].todo \cup drift
    IN
    /\ At(p, "hublive")
    /\ HasLock(p)
    /\ \/ /\ live' = [l \in Links |-> IF l \in set THEN conf[l] ELSE live[l]]
          /\ NoFault
       \/ /\ set # {}
          /\ Fault("wg")
          /\ UNCHANGED live
    /\ routes' = allRouteNets(conf)
    /\ req' = [req EXCEPT ![p].pc = "agents", ![p].todo = {}]
    /\ Requeue(p)
    /\ UNCHANGED <<store, conf, row, past, nreq>>
-----------------------------------------------------------------------------
(* syncAgentConfigs: the rows are read once, then patched one by one *)

SyncRead(p) ==
    /\ At(p, "agents")
    /\ HasLock(p)
    /\ req' = [req EXCEPT ![p].pc = "agentone", ![p].old = row,
                          ![p].todo = {a \in Agents : Syncable(store, row[a])}]
    /\ UNCHANGED <<hub, row, lock, lost, past, nreq, nfault>>

syncOneAgent(p) ==
    LET a == CHOOSE x \in req[p].todo : TRUE
        wanted == computeOtherSiteNets(store, req[p].old[a])
    IN
    /\ At(p, "agentone")
    /\ req[p].todo # {}
    /\ req' = [req EXCEPT ![p].todo = @ \ {a}]
    /\ \/ /\ row' = IF wanted = req[p].old[a].text THEN row
                    ELSE [row EXCEPT ![a].text = wanted]
          /\ NoFault
       \/ /\ Fault("db")
          /\ UNCHANGED row
    /\ UNCHANGED <<hub, lock, past, nreq>>

SyncEnd(p) ==
    /\ At(p, "agentone")
    /\ req[p].todo = {}
    /\ Finish(p)
    /\ Release
    /\ UNCHANGED <<hub, row, lost, past, nreq, nfault>>

\* Fault injection: the timer fires and syncs nothing
ReconcileSkipped ==
    /\ At(Timer, "idle")
    /\ lost' = FALSE
    /\ UNCHANGED <<hub, row, req, lock, past, nreq, nfault>>

\* the reconciler takes the lock and syncs; what a fault left behind is repaired
Reconcile ==
    /\ At(Timer, "idle")
    /\ req' = [req EXCEPT ![Timer].pc = "agents", ![Timer].kind = "timer"]
    /\ Queue(Timer)
    /\ lost' = FALSE
    /\ UNCHANGED <<hub, row, past, nreq, nfault>>
-----------------------------------------------------------------------------
(* createPeer: everything under one lock *)

\* genkey never returns a key the hub has had or another request is about to add
Create(p, l, m) ==
    /\ StartStore[l] = None
    /\ conf[l] = None /\ live[l] = None /\ store[l] = None
    /\ \A q \in Procs : req[q].kind \in {"create", "delete"} => req[q].in.link # l
    /\ Begin(p, [Idle EXCEPT !.pc = "create", !.kind = "create",
                             !.in = [link |-> l, meta |-> m]])
    /\ Queue(p)
    /\ UNCHANGED <<hub, row, lost, past, nfault>>

CreateConf(p) ==
    LET l == req[p].in.link
        m == req[p].in.meta
        next == [LiveLinks(store) EXCEPT ![l] = m]
    IN
    /\ At(p, "create")
    /\ HasLock(p)
    /\ IF Conflicts(next, {l}) \/ DuplicateName(next, {l})
       THEN /\ Finish(p)
            /\ Release
            /\ UNCHANGED conf
       ELSE /\ conf' = [conf EXCEPT ![l] = m.nets]
            /\ Goto(p, "createlive")
            /\ UNCHANGED lock
    /\ UNCHANGED <<store, live, routes, row, lost, past, nreq, nfault>>

CreateLive(p) ==
    LET l == req[p].in.link IN
    /\ At(p, "createlive")
    /\ \/ /\ live' = [live EXCEPT ![l] = conf[l]]
          /\ Goto(p, "createmeta")
          /\ NoFault
          /\ UNCHANGED <<conf, lock>>
       \/ /\ Fault("wg")
          /\ conf' = [conf EXCEPT ![l] = None]
          /\ Finish(p)
          /\ Release
          /\ UNCHANGED live
    /\ UNCHANGED <<store, routes, row, past, nreq>>

CreateMeta(p) ==
    /\ At(p, "createmeta")
    /\ store' = [store EXCEPT ![req[p].in.link] = req[p].in.meta]
    /\ Goto(p, IF req[p].in.meta.nets = {} THEN "agents" ELSE "hub")
    /\ UNCHANGED <<conf, live, routes, row, lock, lost, past, nreq, nfault>>
-----------------------------------------------------------------------------
(* deletePeer: conf, kernel, metadata, bound agents, then both syncs *)

\* agents bind by the link's name; a name that another link also has keeps its agents
boundName(l) ==
    LET name == NamesOf(store)[l] IN
    IF \E k \in Present(live) : k # l /\ NamesOf(store)[k] = name THEN None ELSE name

planBoundAgentCascade(name) ==
    {a \in Agents : ~row[a].gone /\ name # None /\ row[a].link = name}
\* agents are only taken along when the request says so, and when none has a blocker
\* (rules that are not torn down, open direct links): some may have one at any time
MayCascade(plan, cascade) == plan = {} \/ cascade

Delete(p, l, cascade) ==
    LET plan == planBoundAgentCascade(boundName(l)) IN
    /\ live[l] # None
    /\ MayCascade(plan, cascade)
    /\ Begin(p, [Idle EXCEPT !.pc = "delconf", !.kind = "delete", !.old = boundName(l),
                             !.in = [link |-> l, cascade |-> cascade], !.todo = plan])
    /\ Cross(\E q \in Procs : Renaming(q))
    /\ UNCHANGED <<hub, row, lock, lost, nfault>>

\* Fault injection: the plan is not made again under the lock
DeleteConfPlanned(p) ==
    /\ At(p, "delconf")
    /\ HasLock(p)
    /\ conf' = [conf EXCEPT ![req[p].in.link] = None]
    /\ Goto(p, "dellive")
    /\ Release
    /\ UNCHANGED <<store, live, routes, row, lost, past, nreq, nfault>>

\* the plan is made again under the lock; when wg0.conf is not there ("noconf": it comes
\* back later as it was) there is nothing to remove and the delete carries on
DeleteConf(p) ==
    LET plan == planBoundAgentCascade(req[p].old) IN
    /\ At(p, "delconf")
    /\ HasLock(p)
    /\ \/ /\ MayCascade(plan, req[p].in.cascade)
          /\ req' = [req EXCEPT ![p].pc = "dellive", ![p].todo = plan]
          /\ dying' = dying \cup {req[p].in.link}
          /\ \/ conf' = [conf EXCEPT ![req[p].in.link] = None] /\ NoFault
             \/ Fault("noconf") /\ UNCHANGED conf
       \/ /\ plan # {}                             \* refused, nothing changed
          /\ Finish(p)
          /\ NoFault
          /\ UNCHANGED <<conf, dying>>
       \/ /\ Fault("conf")
          /\ Finish(p)
          /\ UNCHANGED <<conf, dying>>
    /\ Release
    /\ UNCHANGED <<store, live, routes, row, home, crossed, nreq>>

DeleteLive(p) ==
    /\ At(p, "dellive")
    /\ \/ /\ live' = [live EXCEPT ![req[p].in.link] = None]
          /\ NoFault
       \/ /\ Fault("wg")
          /\ UNCHANGED live
    /\ Goto(p, "delmeta")
    /\ Queue(p)
    /\ UNCHANGED <<store, conf, routes, row, past, nreq>>

DeleteMeta(p) ==
    /\ At(p, "delmeta")
    /\ HasLock(p)
    /\ store' = [store EXCEPT ![req[p].in.link] = None]
    /\ Goto(p, "delagents")
    /\ Release
    /\ UNCHANGED <<conf, live, routes, row, lost, past, nreq, nfault>>

\* a blocker that came up since the check keeps its agent
DeleteAgents(p) ==
    /\ At(p, "delagents")
    /\ \E kept \in SUBSET req[p].todo :
          row' = [a \in Agents |->
                    [row[a] EXCEPT !.gone = @ \/ a \in req[p].todo \ kept]]
    /\ req' = [req EXCEPT ![p].pc = "hub", ![p].todo = {}]
    /\ Queue(p)
    /\ UNCHANGED <<hub, lost, past, nreq, nfault>>
-----------------------------------------------------------------------------
(* agent update and upload-config: the row is read, then patched *)

\* tunnel-only reach of an agent without a link
stripToTunnelOnly == {}

UpdateRead(p, u) ==
    /\ ~row[u.agent].gone
    /\ \/ u.link \notin {Keep, row[u.agent].link}
       \/ u.acl \notin {Keep, row[u.agent].acl}
       \/ u.allowed \notin {Keep, row[u.agent].allowed}
    /\ Begin(p, [Idle EXCEPT !.pc = "update", !.kind = "update", !.in = u,
                             !.old = row[u.agent]])
    /\ UNCHANGED <<hub, row, lock, lost, past, nfault>>

\* a rebinding: the link of that name is the agent's from now on
Bind(a, name) ==
    /\ home' = [home EXCEPT ![a] = LinkOf(store, name)]
    /\ crossed' = (crossed \/ \E q \in Procs : Renaming(q) \/ (Taking(q) /\ a \in req[q].todo))
    /\ UNCHANGED dying

\* Fault injection: the patch without the resync
UpdatePatchOnly(p) ==
    LET u == req[p].in IN
    /\ At(p, "update")
    /\ row' = [row EXCEPT ![u.agent].acl = IF u.acl = Keep THEN @ ELSE u.acl,
                          ![u.agent].allowed = IF u.allowed = Keep THEN @ ELSE u.allowed]
    /\ Finish(p)
    /\ UNCHANGED <<hub, lock, lost, past, nreq, nfault>>

UpdatePatch(p) ==
    LET u == req[p].in
        old == req[p].old
        unbind == u.link = None /\ old.link # None /\ old.text # None
    IN
    /\ At(p, "update")
    /\ row' = [row EXCEPT ![u.agent].link = IF u.link = Keep THEN @ ELSE u.link,
                          ![u.agent].acl = IF u.acl = Keep THEN @ ELSE u.acl,
                          ![u.agent].allowed = IF u.allowed = Keep THEN @ ELSE u.allowed,
                          ![u.agent].text = IF unbind THEN stripToTunnelOnly ELSE @]
    /\ IF u.link = Keep THEN UNCHANGED past ELSE Bind(u.agent, u.link)
    /\ Goto(p, "agents")
    /\ Queue(p)
    /\ UNCHANGED <<hub, lost, nreq, nfault>>

UploadRead(p, a, nets) ==
    /\ ~row[a].gone
    /\ row[a].text = None
    /\ Begin(p, [Idle EXCEPT !.pc = "upload", !.kind = "upload", !.old = row[a],
                             !.in = [agent |-> a, nets |-> nets]])
    /\ UNCHANGED <<hub, row, lock, lost, past, nfault>>

UploadPatch(p) ==
    LET bound == req[p].old.link # None IN
    /\ At(p, "upload")
    /\ row' = [row EXCEPT ![req[p].in.agent].text =
                  IF bound THEN req[p].in.nets ELSE stripToTunnelOnly]
    /\ IF bound THEN Goto(p, "agents") /\ Queue(p)
                ELSE Finish(p) /\ UNCHANGED lock
    /\ UNCHANGED <<hub, lost, past, nreq, nfault>>
-----------------------------------------------------------------------------
(* The hub's process ends, or the host reboots and wg-quick loads the conf *)

Crash ==
    /\ Fault("crash")
    /\ \E p \in AllProcs : ~At(p, "idle")
    /\ req' = [p \in AllProcs |-> Idle]
    /\ lock' = <<>>
    /\ Cross(\E p \in Procs : Renaming(p))
    /\ UNCHANGED <<hub, row, nreq>>

Reboot ==
    /\ Fault("reboot")
    /\ req' = [p \in AllProcs |-> Idle]
    /\ lock' = <<>>
    /\ live' = conf
    /\ routes' = allRouteNets(conf)
    /\ Cross(\E p \in Procs : Renaming(p))
    /\ UNCHANGED <<store, conf, row, nreq>>
-----------------------------------------------------------------------------
Init ==
    /\ store = StartStore
    /\ conf = [l \in Links |-> IF store[l] = None THEN None ELSE store[l].nets]
    /\ live = conf
    /\ routes = allRouteNets(conf)
    /\ row = StartRows
    /\ lock = <<>>
    /\ req = [p \in AllProcs |-> Idle]
    /\ lost = FALSE
    /\ home = [a \in Agents |-> LinkOf(store, row[a].link)]
    /\ dying = {}
    /\ crossed = FALSE
    /\ nreq = 0
    /\ nfault = 0

Sync(p) ==
    \/ SyncRead(p) \/ syncOneAgent(p) \/ SyncEnd(p)

Handle(p) ==
    \/ Enqueue(p) \/ PatchWrite(p) \/ PeerStatus(p) \/ CascadeRename(p) \/ CascadeDone(p)
    \/ SyncHubConf(p) \/ SyncHubLive(p)
    \/ CreateConf(p) \/ CreateLive(p) \/ CreateMeta(p)
    \/ DeleteConf(p) \/ DeleteLive(p) \/ DeleteMeta(p) \/ DeleteAgents(p)
    \/ UpdatePatch(p) \/ UploadPatch(p)

Request(p) ==
    \/ \E k \in MetadataKinds :
          \E body \in Patches[k] : MetadataRequest(p, k, body)
    \/ \E l \in Links, m \in News : Create(p, l, m)
    \/ \E d \in Deletes : Delete(p, d.link, d.cascade)
    \/ \E u \in Updates : UpdateRead(p, u)
    \/ \E a \in Agents, nets \in Uploads : UploadRead(p, a, nets)

Next ==
    \/ \E p \in Procs : Request(p) \/ Handle(p)
    \/ \E p \in AllProcs : Sync(p)
    \/ Reconcile \/ Crash \/ Reboot

Spec == Init /\ [][Next]_vars

\* awaited calls return, the interval timer fires; nobody has to send a request
Fairness ==
    /\ \A p \in Procs : WF_vars(Handle(p))
    /\ \A p \in AllProcs : WF_vars(Sync(p))
    /\ WF_vars(Reconcile)
FairSpec == Spec /\ Fairness
-----------------------------------------------------------------------------
(* Properties *)

\* Types: the store and the rows hold names and networks that exist, the lock's
\* chain holds every process at most once.
TypeOK ==
    /\ store \in [Links -> Metas \cup {None}]
    /\ conf \in [Links -> SUBSET Nets \cup {None}]
    /\ live \in [Links -> SUBSET Nets \cup {None}]
    /\ routes \subseteq Nets
    /\ \A a \in Agents :
          /\ row[a].link \in Names \cup TempNames \cup {None}
          /\ row[a].acl = None \/ row[a].acl \subseteq Names \cup TempNames
          /\ row[a].allowed \in Allowed
          /\ row[a].text = None \/ row[a].text \subseteq Nets
    /\ home \in [Agents -> Links \cup {None}] /\ dying \subseteq Links
    /\ \A i, j \in DOMAIN lock : lock[i] = lock[j] => i = j

Quiet == \A p \in AllProcs : At(p, "idle")

\* Once every request has ended, no agent's stored configuration grants a network
\* its ACL does not allow, whatever the requests interleaved with: every patch of
\* a row or of the store is followed by a sync that starts after it.
NeverMoreThanAllowed ==
    Quiet /\ ~lost =>
        \A a \in Agents : Syncable(store, row[a]) =>
            row[a].text \subseteq computeOtherSiteNets(store, row[a])

\* Without faults the hub's three copies agree when every request has ended: the
\* kernel's peers are those of wg0.conf, the networks those of the store, and no
\* network two concurrent writers routed stays in the kernel's routes.
HubAgrees ==
    Quiet /\ nfault = 0 =>
        /\ live = conf
        /\ \A l \in Present(conf) : store[l] # None => conf[l] = store[l].nets
        /\ routes = allRouteNets(conf)

\* A revoked peer never comes back to the kernel: a step that adds a peer adds one
\* wg0.conf lists, so no sync that read the conf before a delete sets it afterwards.
RevokedStaysOut ==
    [][\A l \in Links : live[l] = None /\ live'[l] # None => conf[l] # None]_vars

\* Every agent moves with its link: renames, also swaps and chains of names, take the
\* bindings along, so that an agent is bound to the name its link has now.
BindingsFollowAlways ==
    Quiet => \A a \in Agents :
        LET l == home[a] IN
        row[a].link # None /\ ~row[a].gone /\ l # None =>
            (l \notin dying => row[a].link = store[l].name)

\* ... also when the second half of a swap fails once; but not when two requests that
\* write metadata overlap, when the first half or a plain rename fails, when the hub
\* ends in between, or when an agent is rebound while names are changing.
BindingsFollow == ~crossed => BindingsFollowAlways

\* The cascade of a delete takes agents of the deleted link and no others, also when
\* an agent is rebound while the delete waits for the lock, or the names change after
\* the plan ("an agent bound since the check above must not be orphaned", deletePeer).
TakesOwn ==
    \A a \in Agents : row'[a].gone /\ ~row[a].gone =>
        /\ row[a].link # None
        /\ \E p \in Procs : At(p, "delagents") /\ home[a] \in {req[p].in.link, None}

\* ... but the plan goes by the name the link had at the request and by the ids it has
\* found: not when a rename has come in before the plan or an agent is rebound after it.
CascadeTakesOwn == [][~crossed => TakesOwn]_vars
CascadeTakesOwnAlways == [][TakesOwn]_vars

\* The stored configurations converge to what the store and the ACLs say, after
\* any faults: the reconciler repairs what a lost trigger or a crash left behind.
Converges ==
    <>[](\A a \in Agents : Syncable(store, row[a]) =>
            row[a].text = computeOtherSiteNets(store, row[a]))

\* An agent without a link routes the tunnel subnet only (agent.js, update and
\* uploadConfig: the sync skips it, so anything else would be served forever).
UnboundTunnelOnly ==
    Quiet => \A a \in Agents :
        row[a].link = None /\ row[a].text # None => row[a].text = stripToTunnelOnly

\* The store has no link without a peer (wireguard.js and routes/wireguard.js: a
\* ghost entry counts as a site and is advertised to every agent).
NoGhostLink ==
    Quiet /\ nfault = 0 => \A l \in Links : store[l] # None => live[l] # None

\* Link names are unique (createPeer: two links of one name freeze both agents).
UniqueNames == ~DuplicateName(store, Present(store))
=============================================================================
