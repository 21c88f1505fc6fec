--------------------------- MODULE DirectLinkHub ---------------------------
(***************************************************************************)
(* The hub's side of the direct links (backend/internal/agent-direct-link.js *)
(* and -rules.js) with the gateways that poll it.  An administrator saves  *)
(* links; each gateway makes its own key for a link and reports the public *)
(* half in its heartbeat; the hub pins the first key it is told and sends  *)
(* it to the partner.  Every await of a save, of an agent's delete and of  *)
(* a heartbeat is a point at which the others may write the same row.      *)
(*                                                                         *)
(* A row is the columns of agent_direct_link: side A listens, side B       *)
(* dials.  An answer to a gateway shows the rows of one moment; what the   *)
(* gateway does with it, and the rows its heartbeat then meets, are the    *)
(* same step (PollAbsent is a heartbeat that meets newer rows than the     *)
(* gateway has seen); the gateway's commands are in DirectLink.            *)
(* The line cap that a save also checks is in IngressRules; endpoint, MTU, *)
(* names and the partner's networks are left out, and so are the read-only *)
(* checks.                                                                 *)
(***************************************************************************)
EXTENDS Naturals, Sequences, FiniteSets, FiniteSetsExt, TLC

CONSTANTS
    Agents, Nets, Ports,
    Drafts,                 \* bodies of a create
    Bodies,                 \* bodies of an update: the fields it has, and reset_keys
    Leaving,                \* the agents that may be deleted
    Meshes,                 \* what surrounds the links: the pairs of agents whose
                            \* sites are apart, the transfer nets that overlap a
                            \* network, the agents with "nur Freigaben"
    Stored,                 \* the links that are there at the start, a sequence
    MAX_DIRECT_LINK_ID,
    None,
    MaxOpen, MaxRequests,   \* requests at a time, and in all
    MaxEvents               \* faults, and changes of the mesh

Sides == {"a", "b"}
Other(s) == IF s = "a" THEN "b" ELSE "a"
Ids == 1 .. MAX_DIRECT_LINK_ID + MaxRequests

Link == [a : Agents, b : Agents, net : Nets, port : Ports, enabled : BOOLEAN,
         nat : SUBSET Sides]

ASSUME ConstantsAssumption ==
    /\ Drafts \subseteq Link /\ \A d \in Drafts : d.a # d.b
    /\ \A y \in Bodies : /\ DOMAIN y.fields \subseteq DOMAIN (CHOOSE d \in Drafts : TRUE)
                         /\ y.reset \in BOOLEAN
    /\ Leaving \subseteq Agents
    /\ Meshes \subseteq [apart : SUBSET SUBSET Agents, nets : SUBSET Nets,
                          restricted : SUBSET Agents]
    /\ Stored \in Seq(Link) /\ Len(Stored) <= MAX_DIRECT_LINK_ID
    /\ {MAX_DIRECT_LINK_ID, MaxOpen, MaxRequests, MaxEvents} \subseteq Nat

VARIABLES
    row,        \* agent_direct_link, by id
    next,       \* the table's id counter
    agents,     \* the agents that are not deleted
    mesh,       \* the mesh as it is now
    reqs,       \* the requests of administrators in flight
    gw,         \* per gateway: its keys, and the configs its interfaces run
    hb,         \* the running recordStatus of each gateway: its writes to come
    late,       \* one whose caller has given up
    draws,      \* keys each gateway has generated
    raced,      \* history: have saves overlapped, has a write hit a row that
                \* a recordStatus had read
    used        \* what the bounds count

hub   == <<row, next, agents, reqs>>
sites == <<gw, draws>>
vars  == <<hub, mesh, sites, hb, late, raced, used>>

Use(what, max) == used[what] < max /\ used' = [used EXCEPT ![what] = @ + 1]
Fault == Use("events", MaxEvents)

-----------------------------------------------------------------------------
(* agent-direct-link-rules.js *)

SidesOf(l) == {l.a, l.b}

(* The sites of the two agents are separated, the same, or not both known.   *)
Apart(l) == l.a = l.b \/ SidesOf(l) \in mesh.apart

natRestrictedConflict(l) ==
    \/ l.a \in mesh.restricted /\ "b" \in l.nat
    \/ l.b \in mesh.restricted /\ "a" \in l.nat

directNetConflict(l) == l.net \in mesh.nets

Clash(l, o) ==
    \/ l.net = o.net
    \/ SidesOf(l) = SidesOf(o)
    \/ l.a = o.a /\ l.port = o.port

assertNoLinkClash(l, id) ==
    \A o \in Ids \ {id} : row[o] # None => ~Clash(l, row[o])

assertDirectLinkFits(l, id, known) ==
    /\ assertNoLinkClash(l, id)
    /\ l.enabled => /\ SidesOf(l) \subseteq known
                    /\ ~Apart(l) /\ ~natRestrictedConflict(l) /\ ~directNetConflict(l)

-----------------------------------------------------------------------------
(* Requests of administrators *)

Columns(l) == l @@ [key |-> [s \in Sides |-> None], changed |-> [s \in Sides |-> FALSE]]

(* A request among equal ones is told apart by a number. *)
Among(S, r) ==
    S \cup {[r EXCEPT !.no = Min({n \in 1 .. MaxOpen : [r EXCEPT !.no = n] \notin S})]}

Begin(r) ==
    /\ Cardinality(reqs) < MaxOpen /\ Use("requests", MaxRequests)
    /\ reqs' = Among(reqs, r)
    /\ raced' = IF reqs # {} THEN raced \cup {"saves"} ELSE raced
    /\ UNCHANGED <<row, next, agents, mesh, sites, hb, late>>

Save(id, link, fields, cleared) ==
    [kind |-> "save", at |-> "check", id |-> id, link |-> link, fields |-> fields,
     cleared |-> cleared, agents |-> agents, no |-> 0]

(* create: the agents are loaded, everything else is read by the check. *)
BeginCreate(d) == Begin(Save(None, d, d, {}))

(* Fault injection: a moved side keeps its key. *)
ClearedReset(old, body) == IF body.reset THEN Sides ELSE {}

(* A side that moves to another agent must report its own key first; resetting *)
(* the keys clears both sides.                                                 *)
Cleared(old, body) ==
    IF body.reset THEN Sides
    ELSE {s \in Sides : s \in DOMAIN body.fields /\ body.fields[s] # old[s]}

BeginUpdate(id, body) ==
    LET old == row[id] merged == body.fields @@ old IN
    /\ old # None /\ merged.a # merged.b
    /\ Begin(Save(id, [f \in DOMAIN merged \ {"key", "changed"} |-> merged[f]],
                  body.fields, Cleared(old, body)))

Done(r)    == reqs' = reqs \ {r}
Goes(r, q) == reqs' = Among(reqs \ {r}, q)

Saving(r, at) == r.kind = "save" /\ r.at = at

(* validateComplete: the mesh and the other links are read and checked. *)
Check(r) ==
    /\ Saving(r, "check")
    /\ IF assertDirectLinkFits(r.link, r.id, r.agents)
       THEN Goes(r, [r EXCEPT !.at = "write"]) ELSE Done(r)
    /\ UNCHANGED <<row, next, agents, mesh, sites, hb, late, raced, used>>

(* The rows ids are deleted one after the other. *)
Drop(r, ids) ==
    IF ids = {} THEN Done(r) ELSE Goes(r, [kind |-> "drop", ids |-> ids, no |-> 0])

(* insertAndFetch; a row beyond the limit is deleted again. *)
Insert(r) ==
    /\ Saving(r, "write") /\ r.id = None
    /\ row' = [row EXCEPT ![next] = Columns(r.link)]
    /\ next' = next + 1
    /\ Drop(r, {next} \ 1 .. MAX_DIRECT_LINK_ID)
    /\ UNCHANGED <<agents, mesh, sites, hb, late, raced, used>>

(* The writes that recordStatus handlers still have to make. *)
Pending == UNION {hb[g] : g \in {g \in Agents : hb[g] # None}}
             \cup (IF late = None THEN {} ELSE late)

(* The patch: the fields of the body and the cleared columns, nothing else. *)
Patch(r) ==
    /\ Saving(r, "write") /\ r.id # None
    /\ row' = IF row[r.id] = None THEN row
              ELSE [row EXCEPT ![r.id] =
                      [(r.fields @@ @) EXCEPT
                          !.key = [s \in Sides |-> IF s \in r.cleared THEN None ELSE @[s]],
                          !.changed = [s \in Sides |-> s \notin r.cleared /\ @[s]]]]
    /\ Done(r)
    /\ raced' = IF r.cleared # {} /\ \E w \in Pending : w.id = r.id
                THEN raced \cup {"beats"} ELSE raced
    /\ UNCHANGED <<next, agents, mesh, sites, hb, late, used>>

delete(id) ==
    /\ row[id] # None /\ Use("requests", MaxRequests)
    /\ row' = [row EXCEPT ![id] = None]
    /\ UNCHANGED <<next, agents, reqs, mesh, sites, hb, late, raced>>

(* Delete of an agent.  deleteBlocker refuses while it has an enabled link   *)
(* (ifacesFor); the agent is marked deleted; then deleteForAgent reads its   *)
(* links and removes them one by one.                                        *)
LinksOf(g) == {id \in Ids : row[id] # None /\ g \in SidesOf(row[id])}

BeginDeleteAgent(g) ==
    /\ g \in agents /\ \A id \in LinksOf(g) : ~row[id].enabled
    /\ Begin([kind |-> "agent", agent |-> g, no |-> 0])

MarkDeleted(r) ==
    /\ r.kind = "agent"
    /\ agents' = agents \ {r.agent}
    /\ Goes(r, [r EXCEPT !.kind = "links"])
    /\ UNCHANGED <<row, next, mesh, sites, hb, late, raced, used>>

deleteForAgent(r) ==
    /\ r.kind = "links" /\ Drop(r, LinksOf(r.agent))
    /\ UNCHANGED <<row, next, agents, mesh, sites, hb, late, raced, used>>

DropRow(r) ==
    /\ r.kind = "drop"
    /\ LET id == Min(r.ids) IN Drop(r, r.ids \ {id}) /\ row' = [row EXCEPT ![id] = None]
    /\ UNCHANGED <<next, agents, mesh, sites, hb, late, raced, used>>

-----------------------------------------------------------------------------
(* The gateways *)

SideOf(g, l) == IF l.a = g THEN "a" ELSE "b"

Active(l) ==
    /\ l.enabled /\ SidesOf(l) \subseteq agents
    /\ ~Apart(l) /\ ~directNetConflict(l) /\ ~natRestrictedConflict(l)

Config(g, l, peer) ==
    [peer |-> peer, side |-> SideOf(g, l), net |-> l.net, port |-> l.port]

(* Fault injection: the gateway is sent the key of its own side. *)
payloadForOwn(g, l) ==
    LET peer == l.key[SideOf(g, l)] IN
    IF Active(l) /\ peer # None THEN Config(g, l, peer) ELSE None

(* The config of a link for one of its sides; None while the link is not     *)
(* active or the partner's key is not known.                                 *)
payloadFor(g, l) ==
    LET peer == l.key[Other(SideOf(g, l))] IN
    IF Active(l) /\ peer # None THEN Config(g, l, peer) ELSE None

NewKey(g, id) == [agent |-> g, id |-> id, n |-> draws[g]]
Nothing == [key |-> None, conf |-> None]

(* Fault injection: an entry without a config is left as it runs. *)
direct_stepKeep(g, id) ==
    LET old == gw[g][id] IN
    IF id \notin LinksOf(g) \/ id > MAX_DIRECT_LINK_ID THEN Nothing
    ELSE LET conf == payloadFor(g, row[id]) IN
         [key  |-> IF old.key = None THEN NewKey(g, id) ELSE old.key,
          conf |-> IF conf = None THEN old.conf ELSE conf]

(* direct_step: a link that is sent gets a key; without a config it is taken *)
(* down; one that is not sent, or whose id is out of range, is forgotten.    *)
direct_step(g, id) ==
    LET old == gw[g][id] IN
    IF id \notin LinksOf(g) \/ id > MAX_DIRECT_LINK_ID THEN Nothing
    ELSE [key  |-> IF old.key = None THEN NewKey(g, id) ELSE old.key,
          conf |-> payloadFor(g, row[id])]

(* The heartbeat reports every link that has a key; recordStatus reads the   *)
(* agent's rows and has a write to make for each of them.                    *)
Report(g, new) ==
    {[id |-> id, side |-> SideOf(g, row[id]), key |-> new[id].key,
      known |-> row[id].key[SideOf(g, row[id])]] :
        id \in {id \in LinksOf(g) : new[id].key # None}}

(* A handler with writes left to make. *)
Open(ws) == IF ws = {} THEN None ELSE ws

(* One round of the loop up to the heartbeat.  A round of a gateway that has *)
(* no link and is sent none does nothing.                                    *)
Round(g, new, reported) ==
    /\ g \in agents /\ hb[g] = None
    /\ LinksOf(g) # {} \/ \E id \in Ids : gw[g][id] # Nothing
    /\ gw' = [gw EXCEPT ![g] = new]
    /\ draws' = IF \E id \in Ids : new[id].key = NewKey(g, id)
                THEN [draws EXCEPT ![g] = @ + 1] ELSE draws
    /\ hb' = [hb EXCEPT ![g] = Open(reported)]
    /\ UNCHANGED <<hub, mesh, late, raced>>

(* getConfig, direct_step, heartbeat; the heartbeat may get lost. *)
Poll(g) ==
    LET new == [id \in Ids |-> direct_step(g, id)] IN
    \/ Round(g, new, Report(g, new)) /\ UNCHANGED used
    \/ Round(g, new, {}) /\ Fault

(* payloadFor fails: the key is left out and the gateway keeps what it runs, *)
(* and reports it.                                                           *)
PollAbsent(g) == Round(g, gw[g], Report(g, gw[g])) /\ Fault

(* The key column after a report: learned once, then pinned. *)
Kept(w, key) == IF w.known = None THEN w.key ELSE key

(* Fault injection: a differing key is not remarked on. *)
ChangedQuiet(w) == FALSE

(* Does the status that is written carry KEY_CHANGED_ERROR? *)
Changed(w) == w.known # None /\ w.key # w.known

Min1(ws) == CHOOSE w \in ws : \A v \in ws : w.id <= v.id

(* One update of recordStatus, with what it read of the row. *)
Write(w, others) ==
    /\ row' = IF row[w.id] = None THEN row
              ELSE [row EXCEPT ![w.id].key[w.side] = Kept(w, @),
                               ![w.id].changed[w.side] = Changed(w)]
    /\ raced' = IF \E v \in others : v.id = w.id /\ v.side = w.side
                THEN raced \cup {"beats"} ELSE raced

recordStatus(g) ==
    /\ hb[g] # None
    /\ LET w == Min1(hb[g]) left == hb[g] \ {w} IN
       Write(w, Pending \ {w}) /\ hb' = [hb EXCEPT ![g] = Open(left)]
    /\ UNCHANGED <<next, agents, reqs, mesh, gw, draws, late, used>>

(* curl gives up; the handler goes on. *)
Timeout(g) ==
    /\ Fault /\ hb[g] # None /\ late = None
    /\ late' = hb[g] /\ hb' = [hb EXCEPT ![g] = None]
    /\ UNCHANGED <<hub, mesh, gw, draws, raced>>

LateStatus ==
    /\ late # None
    /\ LET w == Min1(late) left == late \ {w} IN
       Write(w, Pending \ {w}) /\ late' = Open(left)
    /\ UNCHANGED <<next, agents, reqs, mesh, sites, hb, used>>

(* The gateway is installed anew: its keys are gone. *)
Reinstall(g) ==
    /\ Fault /\ hb[g] = None
    /\ gw' = [gw EXCEPT ![g] = [id \in Ids |-> Nothing]]
    /\ UNCHANGED <<hub, mesh, draws, hb, late, raced>>

(* Sites are separated, networks added, Freigaben switched on, or back. *)
Change ==
    /\ Use("events", MaxEvents)
    /\ mesh' \in Meshes \ {mesh}
    /\ UNCHANGED <<hub, sites, hb, late, raced>>

-----------------------------------------------------------------------------
Init ==
    /\ row = [id \in Ids |-> IF id <= Len(Stored) THEN Columns(Stored[id]) ELSE None]
    /\ next = Len(Stored) + 1
    /\ agents = Agents
    /\ mesh = [apart |-> {}, nets |-> {}, restricted |-> {}]
    /\ reqs = {}
    /\ gw = [g \in Agents |-> [id \in Ids |-> Nothing]]
    /\ hb = [g \in Agents |-> None] /\ late = None
    /\ draws = [g \in Agents |-> 0]
    /\ raced = {}
    /\ used = [what \in {"requests", "events"} |-> 0]

RequestStep ==
    \E r \in reqs : \/ Check(r) \/ Insert(r) \/ Patch(r)
                    \/ MarkDeleted(r) \/ deleteForAgent(r) \/ DropRow(r)

Next ==
    \/ \E d \in Drafts : BeginCreate(d)
    \/ \E id \in Ids, y \in Bodies : BeginUpdate(id, y)
    \/ \E g \in Leaving : BeginDeleteAgent(g)
    \/ RequestStep
    \/ \E id \in Ids : delete(id)
    \/ \E g \in Agents : \/ Poll(g) \/ PollAbsent(g) \/ recordStatus(g)
                         \/ Timeout(g) \/ Reinstall(g)
    \/ LateStatus
    \/ Change

Spec == Init /\ [][Next]_vars

(* The hub runs the handlers it has started, and the gateways keep polling. *)
Fairness ==
    /\ WF_vars(RequestStep)
    /\ \A g \in Agents : WF_vars(Poll(g)) /\ WF_vars(recordStatus(g))
    /\ WF_vars(LateStatus)

FairSpec == Spec /\ Fairness

-----------------------------------------------------------------------------
(* Properties *)

Keys == [agent : Agents, id : Ids, n : Nat]
Configs == [peer : Keys, side : Sides, net : Nets, port : Ports]

TooHigh(id) == id > MAX_DIRECT_LINK_ID
LinkIds == 1 .. MAX_DIRECT_LINK_ID

(* Types; and what create's limit is for: a row beyond it exists only while  *)
(* the request that inserted it is taking it back, and no gateway ever has a *)
(* key or an interface for one.                                              *)
TypeOK ==
    /\ \A id \in Ids : row[id] # None =>
          /\ [f \in DOMAIN row[id] \ {"key", "changed"} |-> row[id][f]] \in Link
          /\ row[id].key \in [Sides -> Keys \cup {None}]
          /\ row[id].changed \in [Sides -> BOOLEAN]
          /\ TooHigh(id) => \E r \in reqs : r.kind = "drop" /\ id \in r.ids
    /\ next \in Nat /\ agents \subseteq Agents
    /\ \A g \in Agents, id \in Ids :
          /\ gw[g][id].key \in Keys \cup {None} /\ gw[g][id].conf \in Configs \cup {None}
          /\ TooHigh(id) => gw[g][id].key = None
    /\ raced \subseteq {"saves", "beats"}

(* The stored links fit together, as long as no two saves have overlapped:   *)
(* no two share a transfer net, a pair of agents or a listening port, and an *)
(* enabled one joins two agents that exist - whatever is deleted, moved and  *)
(* switched in between, and whatever the gateways report.                    *)
LinksFit ==
    "saves" \notin raced =>
        \A i \in Ids : row[i] # None =>
            /\ \A j \in Ids \ {i} : row[j] # None => ~Clash(row[i], row[j])
            /\ row[i].a # row[i].b
            /\ row[i].enabled => SidesOf(row[i]) \subseteq agents

(* A pinned key is the key of the gateway that the side belongs to now: the  *)
(* partner is never sent the key of an agent that has left the link.  Saves  *)
(* that overlap, and a save that clears a key between the read and the write *)
(* of a heartbeat, are excepted: they are what can break it.                 *)
KeyOfSide ==
    raced = {} =>
        \A id \in Ids, s \in Sides :
            row[id] # None /\ row[id].key[s] # None =>
                row[id].key[s].agent = row[id][s] /\ row[id].key[s].id = id

(* "Pinned: a changed key is only taken after the admin confirms it": a key  *)
(* gives way to another one only through a reset or a move, unless two       *)
(* heartbeats of the same gateway overlap.                                   *)
PinnedKept ==
    [][ \A id \in Ids, s \in Sides :
          row[id] # None /\ row'[id] # None /\ row[id].key[s] # None =>
            \/ row'[id].key[s] \in {row[id].key[s], None}
            \/ "beats" \in raced' ]_vars

Ready(id) ==
    /\ row[id] # None /\ Active(row[id])
    /\ \A s \in Sides : row[id].key[s] \in {None, gw[row[id][s]][id].key}

(* Both gateways run the link, each with the other's key. *)
Working(id) ==
    /\ row[id] # None
    /\ \A s \in Sides :
          gw[row[id][s]][id].conf = [peer |-> gw[row[id][Other(s)]][id].key, side |-> s,
                                     net |-> row[id].net, port |-> row[id].port]

(* A link that stays enabled and unblocked, with no wrong key pinned, comes  *)
(* up on both gateways with each other's keys, whatever was moved, reset,    *)
(* reinstalled, lost or left unanswered before.                              *)
ComesUp == \A id \in LinkIds : <>[]Ready(id) => <>[]Working(id)

(* A link that is switched off, deleted, moved away, separated, overlapped   *)
(* by a network or cut by "nur Freigaben" goes down on every gateway that    *)
(* still belongs to the hub.                                                 *)
ComesDown ==
    \A g \in Agents, id \in LinkIds :
        <>[](g \in agents /\ ~(id \in LinksOf(g) /\ Active(row[id])))
            => <>[](gw[g][id].conf = None)

(* The administrator is told: a side whose gateway has another key than the  *)
(* pinned one, however that came about, comes to show the changed key, so    *)
(* that it can be learned again.                                             *)
ChangedKeyShown ==
    \A id \in LinkIds, s \in Sides :
        <>[](/\ row[id] # None /\ row[id].a # row[id].b
             /\ row[id][s] \in agents
             /\ row[id].key[s] \notin {None, gw[row[id][s]][id].key})
            => <>[](row[id] # None /\ row[id].changed[s])

(* deleteBlocker: "An enabled direct link must be switched off (and torn     *)
(* down by the agent) first - a deleted agent never polls again and would    *)
(* keep fgd<id>": no gateway of a deleted agent still runs a link.           *)
DeletedRunsNoLink ==
    \A g \in Agents \ agents, id \in Ids : gw[g][id].conf = None
=============================================================================
