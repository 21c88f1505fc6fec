----------------------------- MODULE DirectLink -----------------------------
(***************************************************************************)
(* One direct link on one gateway (backend/internal/agent.js, the direct_*  *)
(* functions of the loop script).  The agent brings up the interface the   *)
(* hub describes, checks the partner's health at every tick, and fills the *)
(* link's routing table only while the partner answers; with an empty table *)
(* the hub routes carry the traffic.                                       *)
(*                                                                         *)
(* The script is a sequence of commands and so is the model: a function of *)
(* the script is the sequence of its commands, todo is what is left of the *)
(* one that runs, and one step executes one command.  A stop, a kill or a  *)
(* change around the gateway may come between any two of them.             *)
(*                                                                         *)
(* A config is what the hub sends for the link: the [Interface] part       *)
(* ("head") and the partner's networks; it stands for its own hash.  Error *)
(* texts, conntrack, rp_filter, the PostUp rules and the endpoint are left *)
(* out, and so are other links: what one link does to another is to keep   *)
(* the rule for the hub address in place.                                  *)
(***************************************************************************)
EXTENDS Naturals, Sequences

CONSTANTS
    Heads, Nets,        \* [Interface] parts and networks
    Configs,            \* the configs the hub may send
    Lans,               \* the sets of networks the gateway may have locally
    Off, Gone,          \* the hub's entry is switched off, or is not there
    Keep, Absent,       \* an answer that is rejected, or says nothing
    None,
    MaxChanges,         \* changes by the hub, the filter, the LAN, the partner
    MaxFaults,          \* commands that fail, pings and interfaces that are lost
    MaxEnds,            \* stops, kills and reboots
    CutShort            \* may a kill come between two commands of a function?

DIRECT_FAILS == 3
DIRECT_OKS   == 3

ASSUME ConstantsAssumption ==
    /\ Configs \subseteq [head : Heads, nets : SUBSET Nets]
    /\ {Off, Gone, Keep, Absent, None} \cap Configs = {} /\ \A s \in SUBSET Nets : s # None
    /\ {MaxChanges, MaxFaults, MaxEnds} \subseteq Nat
    /\ Lans \subseteq SUBSET Nets /\ CutShort \in BOOLEAN

VARIABLES
    want,           \* what the hub has for this gateway: a config, Off or Gone
    filter,         \* FG_IN: lets the interface through ("open"), or "lacks" it
    lan,            \* networks of the main table that are not behind a tunnel
    reach,          \* does the partner answer through the tunnel?
    known, key,     \* $id.iface and $id.table; $id.key
    hash, conf,     \* $id.hash; /etc/wireguard/fgd<id>.conf
    routes,         \* $id.routes
    link,           \* the config the interface runs, None while it is down
    tbl,            \* the networks in the link's routing table
    rules,          \* the ip rules: the link's ("table") and "hubsrc"
    path,           \* $id.path in /run: "direct", "hub", or None
    fails, oks,     \* $id.fail and $id.ok in /run
    pc,             \* where the loop is
    todo,           \* commands left of the running function
    resp,           \* the hub's last answer for this link
    ok,             \* the result of the last ping
    missed,         \* history: has an agent ended without emptying the tables
                    \* ("kill"), and the next one too ("term")?
    used            \* what the bounds count

env    == <<want, filter, lan, reach>>
disk   == <<known, key, hash, conf, routes>>
kernel == <<link, tbl, rules>>
run    == <<path, fails, oks>>
agent  == <<pc, todo, resp, ok>>
vars   == <<env, disk, kernel, run, agent, missed, used>>

Use(what, max) == used[what] < max /\ used' = [used EXCEPT ![what] = @ + 1]
Fault == Use("faults", MaxFaults)

-----------------------------------------------------------------------------
(* The functions of the script, as sequences of commands *)

direct_routes_off == <<"flush", "hub">>
direct_routes_on  == <<"fill", "direct">>

direct_teardown(forget) ==
    direct_routes_off \o <<"delrule", "down", "rmconf", "rmstate">>
      \o (IF forget THEN <<"forget">> ELSE <<>>) \o <<"delhubsrc">>

(* direct_up when the interface cannot be updated in place *)
Bounce == direct_routes_off \o <<"down", "rmhash", "conf", "up", "hash", "zero">>

(* Only the [Peer] part changed. *)
InPlace == link # None /\ conf # None /\ conf.head = resp.head

direct_ingress_ok == filter # "lacks"

-----------------------------------------------------------------------------
(* The commands *)

Op(name) == todo # <<>> /\ Head(todo) = name
Then(s)  == todo' = s \o Tail(todo) /\ UNCHANGED <<pc, resp, ok, missed>>

(* The routing table: emptied; filled with the partner's networks, except    *)
(* those that overlap a local one, behind the two rules.                     *)
Flush ==
    /\ Op("flush") /\ Then(<<>>)
    /\ tbl' = IF known THEN {} ELSE tbl
    /\ UNCHANGED <<env, disk, link, rules, run, used>>

Fill ==
    /\ Op("fill")
    /\ \/ /\ known /\ link # None /\ routes # None /\ Then(<<>>)
          /\ tbl' = routes \ lan
          /\ rules' = {"table", "hubsrc"}
       \/ /\ ~(known /\ link # None /\ routes # None)
          /\ todo' = Tail(Tail(todo))               \* return 1
          /\ UNCHANGED <<tbl, rules, pc, resp, ok, missed>>
    /\ UNCHANGED <<env, disk, link, run, used>>

WritePath ==
    /\ \E p \in {"hub", "direct"} : Op(p) /\ path' = p
    /\ Then(<<>>)
    /\ UNCHANGED <<env, disk, kernel, fails, oks, used>>

(* The interface goes, and with it the kernel drops the routes through it. *)
Down ==
    /\ Op("down") /\ Then(<<>>)
    /\ link' = None /\ tbl' = {}
    /\ UNCHANGED <<env, disk, rules, run, used>>

DelRule ==
    /\ \/ Op("delrule") /\ rules' = rules \ {"table"}
       \/ Op("delhubsrc") /\ rules' = IF hash = None THEN rules \ {"hubsrc"} ELSE rules
    /\ Then(<<>>)
    /\ UNCHANGED <<env, disk, link, tbl, run, used>>

RmConf ==
    /\ Op("rmconf") /\ Then(<<>>) /\ conf' = None
    /\ UNCHANGED <<env, known, key, hash, routes, kernel, run, used>>

RmState ==
    /\ Op("rmstate") /\ Then(<<>>)
    /\ hash' = None /\ routes' = None /\ fails' = 0 /\ oks' = 0
    /\ UNCHANGED <<env, known, key, conf, kernel, path, used>>

Forget ==
    /\ Op("forget") /\ Then(<<>>)
    /\ known' = FALSE /\ key' = FALSE /\ path' = None
    /\ UNCHANGED <<env, hash, conf, routes, kernel, fails, oks, used>>

(* direct_up: a filter that lacks the interface takes the link down. *)
direct_up ==
    /\ Op("direct_up")
    /\ \/ ~direct_ingress_ok /\ Then(direct_teardown(FALSE)) /\ used' = used
       \/ direct_ingress_ok /\ Then(<<>>) /\ Fault          \* cannot write the config
       \/ direct_ingress_ok /\ Then(IF InPlace THEN <<"syncconf">> ELSE Bounce) /\ used' = used
    /\ UNCHANGED <<env, disk, kernel, run>>

SyncConf ==
    /\ Op("syncconf")
    /\ \/ /\ link # None /\ Then(<<"conf", "hash", "again">>)
          /\ link' = resp /\ used' = used
       \/ /\ Then(Bounce) /\ link' = link
          /\ IF link = None THEN used' = used ELSE Fault
    /\ UNCHANGED <<env, disk, tbl, rules, run>>

(* After an update in place a routed link gets its new networks. *)
Again ==
    /\ Op("again") /\ Then(IF path = "direct" THEN direct_routes_on ELSE <<>>)
    /\ UNCHANGED <<env, disk, kernel, run, used>>

(* The files of direct_up. *)
WriteFile ==
    /\ \/ Op("conf")   /\ conf' = resp /\ UNCHANGED <<hash, fails, oks>>
       \/ Op("rmhash") /\ hash' = None /\ UNCHANGED <<conf, fails, oks>>
       \/ Op("hash")   /\ hash' = resp /\ UNCHANGED <<conf, fails, oks>>
       \/ Op("zero")   /\ fails' = 0 /\ oks' = 0 /\ UNCHANGED <<conf, hash>>
    /\ Then(<<>>)
    /\ UNCHANGED <<env, known, key, routes, kernel, path, used>>

(* wg-quick up; after a failure direct_up returns without a hash. *)
Up ==
    /\ Op("up")
    /\ \/ link' = conf /\ Then(<<>>) /\ used' = used
       \/ link' = link /\ todo' = <<>> /\ UNCHANGED <<pc, resp, ok, missed>> /\ Fault
    /\ UNCHANGED <<env, disk, tbl, rules, run>>

(* An interface that is down although it should run is brought up again, at  *)
(* the start ("restart", which forgets a hash without a config) and by the   *)
(* health check ("restore").                                                 *)
Restore ==
    /\ Op("restart") \/ Op("restore")
    /\ hash' = IF Op("restart") /\ conf = None THEN None ELSE hash
    /\ \/ /\ link = None /\ conf # None /\ direct_ingress_ok
          /\ link' \in {conf, None}
          /\ IF link' = None THEN Fault ELSE used' = used
       \/ /\ ~(link = None /\ conf # None /\ direct_ingress_ok)
          /\ link' = link /\ used' = used
    /\ Then(<<>>)
    /\ UNCHANGED <<env, known, key, conf, routes, tbl, rules, run>>

(* The ping and the hysteresis: what it asks for is done before the counters *)
(* are written.                                                              *)
Fails(o) == IF o THEN 0 ELSE IF fails < DIRECT_FAILS THEN fails + 1 ELSE fails
Oks(o)   == IF ~o THEN 0 ELSE IF oks < DIRECT_OKS THEN oks + 1 ELSE oks

Switch(o) ==
    IF path = "direct"
    THEN IF Fails(o) >= DIRECT_FAILS THEN direct_routes_off ELSE direct_routes_on
    ELSE IF o /\ Oks(o) >= DIRECT_OKS THEN direct_routes_on ELSE <<>>

Ping ==
    /\ Op("ping")
    /\ ok' \in BOOLEAN /\ (ok' => reach /\ link # None)
    /\ IF reach /\ link # None /\ ~ok' THEN Fault ELSE used' = used
    /\ todo' = Switch(ok') \o <<"count">> \o Tail(todo)
    /\ UNCHANGED <<env, disk, kernel, run, pc, resp, missed>>

(* Fault injection: a check without an answer is not counted. *)
CountAnswers ==
    /\ Op("count") /\ Then(<<>>)
    /\ fails' = 0 /\ oks' = Oks(ok)
    /\ UNCHANGED <<env, disk, kernel, path, used>>

Count ==
    /\ Op("count") /\ Then(<<>>)
    /\ fails' = Fails(ok) /\ oks' = Oks(ok)
    /\ UNCHANGED <<env, disk, kernel, path, used>>

Command == \/ Flush \/ Fill \/ WritePath \/ Down \/ DelRule
           \/ RmConf \/ RmState \/ Forget
           \/ direct_up \/ SyncConf \/ Again \/ WriteFile \/ Up
           \/ Restore \/ Ping \/ Count

-----------------------------------------------------------------------------
(* The loop *)

At(p) == pc = p /\ todo = <<>>

(* Fault injection: the start marks every link as not routed. *)
StartReset ==
    /\ At("start") /\ pc' = "starting"
    /\ todo' = IF hash = None \/ ~known THEN <<>>
               ELSE IF link = None THEN direct_routes_off \o <<"restart">> ELSE <<"hub">>
    /\ UNCHANGED <<env, disk, kernel, run, resp, ok, missed, used>>

(* The agent starts: a link that is still up keeps its routes. *)
Start ==
    /\ At("start") /\ pc' = "starting"
    /\ todo' = IF hash # None /\ known /\ link = None
               THEN direct_routes_off \o <<"restart">> ELSE <<>>
    /\ UNCHANGED <<env, disk, kernel, run, resp, ok, missed, used>>

(* The trap is set once the links are back up. *)
SetTrap ==
    /\ At("starting") /\ pc' = "loop" /\ missed' = "no"
    /\ UNCHANGED <<env, disk, kernel, run, todo, resp, ok, used>>

(* /api/agent/config answers: with the link's entry, with an entry that the  *)
(* agent rejects, or without direct links.                                   *)
Poll ==
    /\ At("loop") /\ pc' = "step" /\ todo' = todo
    /\ \/ resp' = want /\ used' = used
       \/ resp' \in {Keep, Absent} /\ Fault
    /\ UNCHANGED <<env, disk, kernel, run, ok, missed>>

Unanswered ==
    /\ At("loop") /\ pc' = "wait" /\ todo' = todo
    /\ UNCHANGED <<env, disk, kernel, run, resp, ok, missed, used>>

(* Fault injection: only a link with a hash is taken down. *)
direct_stepHashed ==
    /\ At("step") /\ pc' = "wait"
    /\ \/ resp = Absent /\ todo' = <<>> /\ UNCHANGED <<disk, used>>
       \/ /\ resp = Gone /\ todo' = IF known THEN direct_teardown(TRUE) ELSE <<>>
          /\ UNCHANGED <<disk, used>>
       \/ /\ resp \in {Keep, Off} \cup Configs
          /\ known' = TRUE /\ key' = TRUE /\ UNCHANGED <<hash, conf, used>>
          /\ routes' = IF resp \in Configs THEN resp.nets ELSE routes
          /\ todo' = IF resp = Off /\ hash # None
                     THEN direct_teardown(FALSE)
                     ELSE IF resp \in Configs /\ ~(hash = resp /\ link # None)
                     THEN <<"direct_up">> ELSE <<>>
    /\ UNCHANGED <<env, kernel, run, resp, ok, missed>>

(* direct_step: what the hub has sent for the link is compared with what the *)
(* gateway has.                                                              *)
direct_step ==
    /\ At("step") /\ pc' = "wait"
    /\ \/ resp = Absent /\ todo' = <<>> /\ UNCHANGED <<disk, used>>
       \/ /\ resp = Gone /\ todo' = IF known THEN direct_teardown(TRUE) ELSE <<>>
          /\ UNCHANGED <<disk, used>>
       \/ /\ resp \in {Keep, Off} \cup Configs /\ known' = TRUE
          /\ ~key /\ Fault                          \* key generation failed
          /\ todo' = <<>> /\ UNCHANGED <<key, hash, conf, routes>>
       \/ /\ resp \in {Keep, Off} \cup Configs
          /\ known' = TRUE /\ key' = TRUE /\ UNCHANGED <<hash, conf, used>>
          /\ routes' = IF resp \in Configs THEN resp.nets ELSE routes
          /\ todo' = IF resp = Off /\ (hash # None \/ link # None)
                     THEN direct_teardown(FALSE)
                     ELSE IF resp \in Configs /\ ~(hash = resp /\ link # None)
                     THEN <<"direct_up">> ELSE <<>>
    /\ UNCHANGED <<env, kernel, run, resp, ok, missed>>

(* direct_wait: the health check of a link with a hash.  More ticks between  *)
(* two polls are polls without an answer in between.                         *)
direct_health ==
    /\ At("wait") /\ pc' = "loop"
    /\ todo' = IF hash = None \/ ~known THEN <<>>
               ELSE IF link # None /\ ~direct_ingress_ok THEN direct_teardown(FALSE)
               ELSE <<"restore", "ping">>
    /\ UNCHANGED <<env, disk, kernel, run, resp, ok, missed, used>>

-----------------------------------------------------------------------------
(* The ends of the agent *)

(* Fault injection: the trap only writes the path. *)
StopPathOnly ==
    /\ pc # "stopped" /\ Use("ends", MaxEnds)
    /\ pc' = "stopped" /\ todo' = <<>>
    /\ IF pc \in {"start", "starting"}
       THEN path' = path /\ missed' = IF missed = "kill" THEN "term" ELSE missed
       ELSE path' = (IF known THEN "hub" ELSE path) /\ missed' = "no"
    /\ UNCHANGED <<env, disk, kernel, fails, oks, resp, ok>>

(* systemctl stop: the EXIT trap, direct_all_off, empties the table, if it is *)
(* set already.                                                               *)
Stop ==
    /\ pc # "stopped" /\ Use("ends", MaxEnds)
    /\ pc' = "stopped" /\ todo' = <<>>
    /\ IF pc \in {"start", "starting"}
       THEN /\ missed' = IF missed = "kill" THEN "term" ELSE missed
            /\ UNCHANGED <<tbl, path>>
       ELSE /\ tbl' = (IF known THEN {} ELSE tbl) /\ path' = IF known THEN "hub" ELSE path
            /\ missed' = "no"
    /\ UNCHANGED <<env, disk, link, rules, fails, oks, resp, ok>>

StartAgain ==
    /\ pc = "stopped" /\ pc' = "start"
    /\ UNCHANGED <<env, disk, kernel, run, todo, resp, ok, missed, used>>

(* SIGKILL, after which systemd starts the agent again, and the exec of a    *)
(* self-update: no trap runs.                                                *)
Kill ==
    /\ pc \notin {"start", "stopped"} /\ (CutShort \/ todo = <<>>)
    /\ Use("ends", MaxEnds)
    /\ pc' = "start" /\ todo' = <<>> /\ missed' = IF missed = "term" THEN "term" ELSE "kill"
    /\ UNCHANGED <<env, disk, kernel, run, resp, ok>>

Reboot ==
    /\ Use("ends", MaxEnds)
    /\ link' = None /\ tbl' = {} /\ rules' = {} /\ path' = None /\ fails' = 0 /\ oks' = 0
    /\ pc' = "start" /\ todo' = <<>> /\ missed' = "no"
    /\ UNCHANGED <<env, disk, resp, ok>>

-----------------------------------------------------------------------------
(* Around the gateway *)

Filters == {"open", "lacks"}

(* The hub's entry, FG_IN, the local networks or the partner change. *)
Change ==
    /\ Use("changes", MaxChanges)
    /\ \/ want' \in (Configs \cup {Off, Gone}) \ {want} /\ UNCHANGED <<filter, lan, reach>>
       \/ filter' \in Filters \ {filter} /\ UNCHANGED <<want, lan, reach>>
       \/ lan' \in Lans \ {lan} /\ UNCHANGED <<want, filter, reach>>
       \/ reach' = ~reach /\ UNCHANGED <<want, filter, lan>>
    /\ UNCHANGED <<disk, kernel, run, agent, missed>>

(* Somebody takes the interface down. *)
LinkLost ==
    /\ link # None /\ Fault
    /\ link' = None /\ tbl' = {}
    /\ UNCHANGED <<env, disk, rules, run, agent, missed>>

-----------------------------------------------------------------------------
(* An agent that has never heard of the link, on an open gateway. *)
Init ==
    /\ want \in Configs \cup {Off, Gone} /\ filter = "open" /\ lan = {} /\ reach = TRUE
    /\ known = FALSE /\ key = FALSE /\ hash = None /\ conf = None /\ routes = None
    /\ link = None /\ tbl = {} /\ rules = {}
    /\ path = None /\ fails = 0 /\ oks = 0
    /\ pc = "start" /\ todo = <<>> /\ resp = Absent /\ ok = FALSE /\ missed = "no"
    /\ used = [w \in {"changes", "faults", "ends"} |-> 0]

Agent == Start \/ SetTrap \/ Command \/ direct_step \/ direct_health \/ Unanswered

Next == \/ Agent \/ Poll
        \/ Stop \/ StartAgain \/ Kill \/ Reboot
        \/ Change \/ LinkLost

Spec == Init /\ [][Next]_vars

(* A running agent goes on; polls are answered again and again. *)
FairSpec == Spec /\ WF_vars(Agent) /\ SF_vars(Poll)

-----------------------------------------------------------------------------
(* The variables have their types, and the bookkeeping of a link outlives    *)
(* what it describes: without $id.iface and $id.table no later teardown      *)
(* would find the hash, the interface or the routes.                         *)
TypeOK ==
    /\ want \in Configs \cup {Off, Gone} /\ filter \in Filters
    /\ lan \subseteq Nets /\ reach \in BOOLEAN
    /\ known \in BOOLEAN /\ key \in BOOLEAN
    /\ {hash, conf, link} \subseteq Configs \cup {None}
    /\ routes = None \/ routes \subseteq Nets
    /\ tbl \subseteq Nets /\ rules \subseteq {"table", "hubsrc"}
    /\ path \in {"direct", "hub", None}
    /\ fails \in 0 .. DIRECT_FAILS /\ oks \in 0 .. DIRECT_OKS
    /\ pc \in {"start", "starting", "loop", "step", "wait", "stopped"} /\ ok \in BOOLEAN
    /\ resp \in Configs \cup {Off, Gone, Keep, Absent} /\ missed \in {"no", "kill", "term"}
    /\ ~known => hash = None /\ link = None /\ tbl = {} /\ path # "direct"

(* A routing table that is not empty is watched: outside a function of the   *)
(* script the interface is up, and the files say "direct" and give the       *)
(* health check its hash, so that three failed checks empty the table.       *)
Watched ==
    tbl # {} /\ todo = <<>> => link # None /\ hash # None /\ path = "direct"

(* "Agent ends (stop, crash) -> empty the per-link tables, the hub routes    *)
(* take over": nothing is routed through the link while nobody checks it.    *)
(* The exception: an agent was killed, or replaced by a self-update, and the *)
(* next one was stopped before it had set its trap.                          *)
StoppedUsesHub == pc = "stopped" /\ tbl # {} => missed = "term"

(* "After 3 failed checks the table is emptied and the hub routes carry the  *)
(* traffic": a partner that stays away is eventually not routed to, by an    *)
(* agent that runs or by the trap of one that ended, with that exception.    *)
FailsOver == (<>[]~reach) => <>[](tbl = {} \/ (pc = "stopped" /\ missed = "term"))

(* What the gateway should come to, given the hub's entry, the filter and    *)
(* the partner.  Of the interface and its file only the [Interface] part is  *)
(* claimed: a stop between wg syncconf and the write of the hash leaves the  *)
(* new peer under the old hash, and if the hub then goes back to the old     *)
(* config nobody looks at the interface again.                               *)
Settled ==
    IF want = Gone
    THEN ~known /\ ~key /\ hash = None /\ link = None /\ tbl = {} /\ "table" \notin rules
    ELSE IF want = Off \/ filter = "lacks"
    THEN link = None /\ tbl = {}
    ELSE /\ hash = want
         /\ conf # None /\ conf.head = want.head
         /\ link # None /\ link.head = want.head
         /\ IF reach THEN path = "direct" /\ tbl = want.nets \ lan
            ELSE path # "direct" /\ tbl = {}

(* Once hub, filter, LAN and partner stay as they are, the gateway of a      *)
(* running agent runs the hub's config with the routes the partner's health  *)
(* allows, keeps the interface down while the link is switched off or the    *)
(* filter does not cover it, and forgets a link that is gone.                *)
Converges == <>[](pc = "stopped" \/ Settled)

-----------------------------------------------------------------------------
(* What does not hold: StoppedUsesHub and FailsOver without the exception.   *)
StoppedUsesHubEver == pc = "stopped" => tbl = {}
FailsOverEver == (<>[]~reach) => <>[](tbl = {})
=============================================================================
