---------------------------- MODULE GatewayConfig ----------------------------
(***************************************************************************)
(* The gateway's WireGuard configuration: one turn of the agent's loop, and *)
(* apply_config step by step (src/backend/internal/agent.js, the script     *)
(* buildLoopScript returns).  Commands and writes fail, also the ones whose *)
(* failure is swallowed (|| true); the process may be killed between and     *)
(* inside steps, and the machine may reboot.                                *)
(*                                                                         *)
(* A configuration is a number (its hash).  Its hooks are the iptables      *)
(* rules its PostUp adds and its PostDown removes, with the routes of its   *)
(* networks.  The PrivateKey exists only in the gateway's conf.             *)
(***************************************************************************)
EXTENDS Integers, FiniteSets

CONSTANTS
    Configs,    \* configurations the hub may store: numbers, older ones first
    Local,      \* the gateway's own conf at installation
    First,      \* what the hub makes of it when it is uploaded
    RulesOf,    \* configuration -> rules of its PostUp
    NetsOf,     \* configuration -> networks of its hub peer
    Deduped,    \* rules dedupe_iface_rules recognises (they name the interface)
    None,
    Broken,     \* a file that is empty: opened for writing, not written
    Reverts,    \* TRUE: the hub may return to an earlier configuration
    Faults,     \* which of the faults below may happen
    MaxFaults   \* bound: number of faults

ASSUME GatewayAssumption ==
    /\ Configs \subseteq Nat /\ None \notin Nat /\ Broken \notin Nat /\ None # Broken
    /\ Local \in Configs /\ First \in Configs \ {Local}
    /\ RulesOf \in [Configs -> SUBSET UNION {RulesOf[c] : c \in Configs}]
    /\ Reverts \in BOOLEAN
    /\ MaxFaults \in Nat

VARIABLES
    wanted,     \* the hub's config_text, None before the first upload
    shown,      \* config_applied_hash at the hub
    update,     \* the hub offers a newer loop script
    pc,         \* where the loop is
    got,        \* the configuration in the reply
    hash,       \* HASH_FILE
    conf,       \* /etc/wireguard/wgN.conf: a configuration, None, or Broken
    up,         \* the interface exists
    peers,      \* the configuration of the kernel's peers
    rules,      \* iptables rules -> number of copies
    routes,     \* routes on the interface
    rec,        \* POSTUP_APPLIED: the configuration whose PostUp it holds
    down,       \* POSTUP_APPLIED.down: the configuration whose PostDown it holds
    unsure,     \* history: what the faults so far may have done to rules and routes
    nfault

hubvars == <<wanted, shown, update>>
live == <<up, peers, rules, routes>>
disk == <<hash, conf, rec, down>>
vars == <<hubvars, pc, got, disk, live, unsure, nfault>>

Rules == UNION {RulesOf[c] : c \in Configs}
\* the rules and networks of the hooks in a file that may be missing or empty
RulesIn(h) == IF h \in Configs THEN RulesOf[h] ELSE {}
NetsIn(h) == IF h \in Configs THEN NetsOf[h] ELSE {}
SameHooks(h, g) == RulesIn(h) = RulesIn(g) /\ NetsIn(h) = NetsIn(g)
HasKey == conf \notin {None, Broken}

Fault(kind) ==
    /\ kind \in Faults
    /\ nfault < MaxFaults
    /\ nfault' = nfault + 1
NoFault == UNCHANGED nfault

Goto(l) == pc' = l

\* the PostUp that is live, by the record of an earlier attempt, else by the old conf
UpHooks == IF rec # None THEN rec ELSE conf

\* Fault injection: the old conf's hooks are undone, whatever the record says
DownHooksOfConf == conf

\* the PostDown that is run: the record's, else the old conf's
DownHooks == IF rec # None THEN down ELSE conf

\* History.  "lacking": a rule of the recorded PostUp may be missing; "extra": a rule
\* that the recorded PostDown does not remove may be live; "routes": sync_routes may have
\* left a route out or behind.  What is doubtful when the live rules are those of c:
Doubts(c) ==
    LET isUp == SameHooks(IF rec' # None THEN rec' ELSE conf', c)
        isDown == SameHooks(IF rec' # None THEN down' ELSE conf', c)
    IN {w \in {"lacking"} : ~isUp} \cup {w \in {"extra"} : ~(isUp /\ isDown)}

dedupe_iface_rules(r) == [x \in Rules |-> IF x \in Deduped /\ r[x] > 1 THEN 1 ELSE r[x]]
Added(r, some) == [x \in Rules |-> IF x \in some THEN r[x] + 1 ELSE r[x]]
Removed(r, some) == [x \in Rules |-> IF x \in some /\ r[x] > 0 THEN r[x] - 1 ELSE r[x]]
\* routes follow the peers; the ip commands, and the wg show they follow, may fail
sync_routes ==
    \/ /\ routes' = IF up THEN NetsIn(peers) ELSE routes
       /\ unsure' = unsure \ {"routes"}
       /\ NoFault
    \/ /\ Fault("route")
       /\ up
       /\ \/ routes' = routes                             \* nothing added or removed
          \/ routes' = {}                                 \* wg show: no networks, all are stale
          \/ routes' = routes \cup NetsIn(peers)          \* no route removed
          \/ routes' = routes \cap NetsIn(peers)          \* no route added
       /\ unsure' = unsure \cup {"routes"}
-----------------------------------------------------------------------------
(* The hub *)

Want ==
    /\ wanted # None
    /\ \E c \in Configs \ {Local} :
          /\ c > wanted \/ (Reverts /\ c < wanted)
          /\ wanted' = c
    /\ UNCHANGED <<shown, update, pc, got, disk, live, unsure, nfault>>
-----------------------------------------------------------------------------
(* The loop *)

\* start of the script: duplicates and routes are repaired, scratch files removed
Start ==
    /\ pc = "start"
    /\ rules' = IF up THEN dedupe_iface_rules(rules) ELSE rules
    /\ sync_routes
    /\ Goto("poll")
    /\ UNCHANGED <<hubvars, got, disk, up, peers>>

Fetch ==
    /\ pc = "poll"
    /\ got' = wanted
    /\ IF update
       THEN \* the verified new script is moved into place and executed
            /\ update' = FALSE
            /\ Goto("start")
       ELSE /\ Goto("got")
            /\ UNCHANGED update
    /\ UNCHANGED <<wanted, shown, disk, live, unsure, nfault>>

\* nothing to apply, or no config on the hub: the local one is uploaded
Settled ==
    /\ pc = "got"
    /\ got \in {hash, None}
    /\ \/ /\ wanted' = IF got = None /\ HasKey /\ wanted = None THEN First ELSE wanted
          /\ NoFault
       \/ /\ got = None
          /\ Fault("lost")
          /\ UNCHANGED wanted
    /\ Goto("beat")
    /\ UNCHANGED <<shown, update, got, disk, live, unsure>>

Applying == pc = "got" /\ got \notin {hash, None}
\* the end of an apply that failed: the hash stays, so the next poll tries again
Failed ==
    /\ rules' = IF up THEN dedupe_iface_rules(rules) ELSE rules
    /\ Goto("beat")

\* Fault injection: the hash is written before the apply
SyncconfHashFirst ==
    /\ Applying
    /\ HasKey
    /\ up
    /\ hash' = got
    /\ \/ /\ peers' = got
          /\ Goto("hooks")
          /\ NoFault
          /\ UNCHANGED rules
       \/ /\ Fault("syncconf")
          /\ Failed
          /\ UNCHANGED peers
    /\ UNCHANGED <<hubvars, got, conf, rec, down, up, routes, unsure>>

\* "(hidden)" stays in the new conf when the old one has no key
NoPrivateKey ==
    /\ Applying
    /\ ~HasKey
    /\ Failed
    /\ UNCHANGED <<hubvars, got, disk, up, peers, routes, unsure, nfault>>

Syncconf ==
    /\ Applying
    /\ HasKey
    /\ up
    /\ \/ /\ peers' = got
          /\ Goto("hooks")
          /\ NoFault
          /\ UNCHANGED rules
       \/ /\ Fault("syncconf")
          /\ Failed
          /\ UNCHANGED peers
    /\ UNCHANGED <<hubvars, got, disk, up, routes, unsure>>

Swap == ~SameHooks(UpHooks, got)

\* eval ... 2>/dev/null || true: a rule whose command fails stays, and apply_config goes on
PostDown ==
    /\ pc = "hooks"
    /\ Swap
    /\ \/ /\ rules' = Removed(rules, RulesIn(DownHooks))
          /\ routes' = routes \ NetsIn(DownHooks)
          /\ NoFault
          /\ UNCHANGED unsure
       \/ /\ Fault("hook")
          /\ \E some \in SUBSET RulesIn(DownHooks) \ {RulesIn(DownHooks)} : rules' = Removed(rules, some)
          /\ routes' \in {routes, routes \ NetsIn(DownHooks)}
          /\ unsure' = unsure \cup {"extra"}
    /\ Goto("postup")
    /\ UNCHANGED <<hubvars, got, disk, up, peers>>

\* the same hooks are live already
NoSwap ==
    /\ pc = "hooks"
    /\ ~Swap
    /\ Goto("cp")
    /\ UNCHANGED <<hubvars, got, disk, live, unsure, nfault>>

PostUp ==
    /\ pc = "postup"
    /\ \/ /\ rules' = Added(rules, RulesOf[got])
          /\ routes' = routes \cup NetsOf[got]
          /\ NoFault
          /\ unsure' = unsure \ {"lacking"}
       \/ /\ Fault("hook")
          /\ \E some \in SUBSET RulesOf[got] \ {RulesOf[got]} : rules' = Added(rules, some)
          /\ routes' \in {routes, routes \cup NetsOf[got]}
          /\ unsure' = unsure \cup {"lacking"}
    /\ Goto("down")
    /\ UNCHANGED <<hubvars, got, disk, up, peers>>

\* the two files of the record; a failing write is ignored: the file is as before, or empty
RecordDown ==
    /\ pc = "down"
    /\ \/ down' = got /\ NoFault
       \/ down' \in {down, Broken} /\ Fault("record")
    /\ Goto("record")
    /\ UNCHANGED <<hubvars, got, hash, conf, rec, live, unsure>>

Record ==
    /\ pc = "record"
    /\ \/ rec' = got /\ NoFault
       \/ rec' \in {rec, Broken} /\ Fault("record")
    /\ Goto("cp")
    /\ UNCHANGED <<hubvars, got, hash, conf, down, live, unsure>>

\* cp onto the conf: refused, or cut short after the old text is gone
CopyFails ==
    /\ \/ Fault("cp") /\ UNCHANGED conf
       \/ Fault("truncate") /\ conf' = Broken
    /\ Failed

\* Fault injection: a failed copy is recorded as applied
CopyConfUnchecked ==
    /\ pc = "cp"
    /\ \/ conf' = got /\ NoFault
       \/ Fault("cp") /\ UNCHANGED conf
    /\ Goto("clean")
    /\ UNCHANGED <<hubvars, got, hash, rec, down, live, unsure>>

CopyConf ==
    /\ pc = "cp"
    /\ UNCHANGED <<hubvars, got, hash, rec, down, up, peers, routes>>
    /\ \/ /\ conf' = got
          /\ Goto("clean")
          /\ NoFault
          /\ UNCHANGED <<rules, unsure>>
       \/ /\ CopyFails
          /\ unsure' = unsure \cup Doubts(got)

Clean ==
    /\ pc = "clean"
    /\ rec' = None
    /\ down' = None
    /\ sync_routes
    /\ Goto("hash")
    /\ UNCHANGED <<hubvars, got, hash, conf, up, peers, rules>>

\* the interface is down: the conf first, then wg-quick up
CopyConfDown ==
    /\ Applying
    /\ HasKey
    /\ ~up
    /\ \/ /\ conf' = got
          /\ rec' = None
          /\ down' = None
          /\ Goto("wgup")
          /\ NoFault
          /\ UNCHANGED rules
       \/ /\ CopyFails
          /\ UNCHANGED <<rec, down>>
    /\ UNCHANGED <<hubvars, got, hash, up, peers, routes, unsure>>

\* wg-quick up: peers, hooks and routes of the conf
BringUp(c) ==
    /\ up' = TRUE
    /\ peers' = c
    /\ rules' = Added(rules, RulesOf[c])
    /\ routes' = NetsOf[c]

\* a hook command that fails ends wg-quick: the interface is removed again, the rules of
\* the commands before it stay
WgQuickUp ==
    /\ pc = "wgup"
    /\ \/ /\ BringUp(conf)
          /\ Goto("hash")
          /\ NoFault
          /\ unsure' = unsure \ {"lacking", "routes"}
       \/ /\ Fault("wgup")
          /\ \E some \in SUBSET RulesOf[conf] :
                /\ rules' = Added(rules, some)
                /\ unsure' = IF some = {} THEN unsure ELSE unsure \cup {"extra"}
          /\ Goto("beat")
          /\ UNCHANGED <<up, peers, routes>>
    /\ UNCHANGED <<hubvars, got, disk>>

\* the write is not in a condition: when it fails, set -e ends the script
WriteHash ==
    /\ pc = "hash"
    /\ \/ /\ hash' = got
          /\ rules' = dedupe_iface_rules(rules)
          /\ Goto("beat")
          /\ NoFault
       \/ /\ Fault("hash")
          /\ hash' \in {hash, None}
          /\ Goto("start")
          /\ UNCHANGED rules
    /\ UNCHANGED <<hubvars, got, conf, rec, down, up, peers, routes, unsure>>

Heartbeat ==
    /\ pc = "beat"
    /\ \/ shown' = hash /\ NoFault
       \/ Fault("lost") /\ UNCHANGED shown
    /\ Goto("poll")
    /\ UNCHANGED <<wanted, update, got, disk, live, unsure>>
-----------------------------------------------------------------------------
(* Kill, reboot *)

\* SIGKILL between two steps
Kill ==
    /\ pc \notin {"start", "poll"}
    /\ Fault("kill")
    /\ Goto("start")
    /\ UNCHANGED <<hubvars, got, disk, live>>
    /\ unsure' = unsure \cup (CASE pc = "postup" -> Doubts(got) \cup {"lacking"}
                               [] pc \in {"down", "record", "cp", "clean"} -> Doubts(got)
                               [] OTHER -> {})

\* SIGKILL inside a step: a part of its work is done
KillInside ==
    /\ Fault("kill")
    /\ Goto("start")
    /\ \/ /\ pc = "hooks" /\ Swap
          /\ \E some \in SUBSET RulesIn(DownHooks) : rules' = Removed(rules, some)
          /\ unsure' = unsure \cup {"lacking"}
          /\ UNCHANGED <<disk, up, peers, routes>>
       \/ /\ pc = "postup"
          /\ \E some \in SUBSET RulesOf[got] : rules' = Added(rules, some)
          /\ UNCHANGED <<disk, up, peers, routes>>
          /\ unsure' = unsure \cup {"lacking"} \cup Doubts(got)
       \/ /\ pc = "down" /\ down' = Broken
          /\ UNCHANGED <<hash, conf, rec, live>>
          /\ unsure' = unsure \cup Doubts(got)
       \/ /\ pc = "record" /\ rec' = Broken
          /\ UNCHANGED <<hash, conf, down, live>>
          /\ unsure' = unsure \cup Doubts(got)
       \/ /\ pc = "cp" /\ conf' = Broken
          /\ UNCHANGED <<hash, rec, down, live>>
          /\ unsure' = unsure \cup Doubts(got)
       \/ /\ pc = "clean" /\ rec' = None
          /\ UNCHANGED <<hash, conf, down, live, unsure>>
       \/ /\ pc = "wgup"
          /\ up' = TRUE
          /\ peers' \in {None, conf}
          /\ \E some \in SUBSET RulesOf[conf] : rules' = Added(rules, some)
          /\ unsure' = unsure \cup {"lacking"}
          /\ UNCHANGED <<disk, routes>>
       \/ /\ pc = "hash" /\ hash' = None
          /\ UNCHANGED <<conf, rec, down, live, unsure>>
    /\ UNCHANGED <<hubvars, got>>

\* wg-quick@wgN brings the conf up at boot; the state directory survives
Reboot ==
    /\ Fault("reboot")
    /\ up' = HasKey
    /\ peers' = IF HasKey THEN conf ELSE None
    /\ rules' = [x \in Rules |-> IF x \in RulesIn(conf) THEN 1 ELSE 0]
    /\ routes' = NetsIn(conf)
    /\ Goto("start")
    /\ UNCHANGED <<hubvars, got, disk>>
    /\ unsure' = Doubts(conf)
-----------------------------------------------------------------------------
Init ==
    /\ wanted \in {None, First}
    /\ shown = None
    /\ update \in BOOLEAN
    /\ pc = "start"
    /\ got = None
    /\ hash = None
    /\ conf \in {Local, None}
    /\ up \in BOOLEAN /\ (conf = None => ~up)
    /\ peers = IF up THEN conf ELSE None
    /\ rules = [x \in Rules |-> IF up /\ x \in RulesOf[conf] THEN 1 ELSE 0]
    /\ routes = IF up THEN NetsOf[conf] ELSE {}
    /\ rec = None
    /\ down = None
    /\ unsure = {}
    /\ nfault = 0

Agent ==
    \/ Start \/ Fetch \/ Settled \/ NoPrivateKey
    \/ Syncconf \/ PostDown \/ NoSwap \/ PostUp \/ RecordDown \/ Record \/ CopyConf \/ Clean
    \/ CopyConfDown \/ WgQuickUp \/ WriteHash \/ Heartbeat

Next == Want \/ Agent \/ Kill \/ KillInside \/ Reboot

Spec == Init /\ [][Next]_vars
\* systemd restarts the loop, every command of it returns
FairSpec == Spec /\ WF_vars(Agent)
-----------------------------------------------------------------------------
(* Properties *)

\* Types: what is on disk and live are configurations, rules are counted.
TypeOK ==
    /\ wanted \in Configs \cup {None} /\ got \in Configs \cup {None}
    /\ shown \in Configs \cup {None} /\ hash \in Configs \cup {None}
    /\ conf \in Configs \cup {None, Broken}
    /\ {rec, down} \subseteq Configs \cup {None, Broken}
    /\ up \in BOOLEAN /\ peers \in Configs \cup {None}
    /\ rules \in [Rules -> Nat]
    /\ unsure \subseteq {"lacking", "extra", "routes"}

\* the configuration that is live in all its parts: peers, rules, routes and conf,
\* without the parts that "doubts" excuses
RunningBut(doubts) ==
    IF /\ up /\ HasKey /\ peers = conf /\ rec = None
       /\ "routes" \in doubts \/ routes = NetsOf[conf]
       /\ "lacking" \in doubts \/ \A x \in RulesOf[conf] : rules[x] > 0
    THEN conf ELSE None
Running == RunningBut(unsure)

Applied == INSTANCE AppliedConfig
    WITH running <- Running, recorded <- hash, reported <- shown

\* The gateway implements the abstract specification: the hash is written only
\* while the peers, the rules, the routes and the conf of that configuration are
\* all in place, and the hub is told no other hash.  Excused are the rules after a swap
\* of the hooks that lost commands or was cut short, until a swap or a boot that is
\* whole, and the routes after a sync_routes that lost commands, until the next.
ImplementsApplied == Applied!Spec

\* The same without the excuses.
AppliedEver == INSTANCE AppliedConfig
    WITH running <- RunningBut({}), recorded <- hash, reported <- shown
ImplementsAppliedEver == AppliedEver!Spec

\* Whatever fails on the way, a configuration the hub keeps wanting is in the end
\* live in all its parts and reported, as long as the conf still holds the key.
Delivered ==
    \A c \in Configs :
        <>[](wanted = c /\ HasKey) => <>[](Running = c /\ shown = c)

\* No rule is missing, left over or doubled after failed attempts and retries: the
\* PostUp record makes a retry undo and redo the right hooks (apply_config).  A rule may
\* be missing only after a PostUp that lost commands or a swap cut short, with no whole
\* swap since; left over or doubled, only after a PostDown that lost commands or a swap
\* whose record is not that of the rules, with no boot since.
RulesExact ==
    pc = "poll" /\ up /\ HasKey /\ rec = None =>
        /\ "lacking" \notin unsure => \A x \in RulesOf[conf] : rules[x] > 0
        /\ "extra" \notin unsure => \A x \in Rules : rules[x] <= IF x \in RulesOf[conf] THEN 1 ELSE 0

\* The two halves without the exceptions, when nothing is left to apply.
Done == pc = "poll" /\ up /\ HasKey /\ rec = None /\ hash = conf /\ wanted = hash
NoRuleMissing == Done => \A x \in RulesOf[conf] : rules[x] > 0
NoRuleLeft == Done => \A x \in Rules : rules[x] <= IF x \in RulesOf[conf] THEN 1 ELSE 0

\* The hash a gateway reports is the configuration its peers run (the loop's
\* comment: "Report the hash the agent actually RUNS").
ReportsWhatRuns ==
    pc = "poll" /\ up /\ HasKey /\ hash \in Configs /\ wanted = hash => peers = hash

\* The gateway keeps its PrivateKey.
KeyKept == conf # Broken
=============================================================================
