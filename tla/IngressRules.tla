---------------------------- MODULE IngressRules ----------------------------
(***************************************************************************)
(* The Freigaben of one agent on the hub (backend/internal/agent-ingress.js *)
(* and the line check of agent-direct-link.js).  Administrators change     *)
(* rules and the mode in transactions that lock the agent row, read the    *)
(* rules again, check the result and write.  A direct link of the agent    *)
(* repeats every rule line for its interface, so switching one on checks   *)
(* the same line cap, but outside of any transaction.                      *)
(*                                                                         *)
(* A rule is what the checks see of it: is it switched on, how many lines  *)
(* (sources x destinations x ports) does it expand to, and how many of     *)
(* them admit the partner's hub address and so get an alias line per link. *)
(***************************************************************************)
EXTENDS Naturals, FiniteSets

CONSTANTS
    Admins,         \* requests served at the same time
    RuleIds,        \* rules that may exist
    Links,          \* direct links of the agent
    Sizes,          \* line counts of a rule
    Aliases,        \* alias line counts of a rule (0: none)
    None,
    MAX_RULES_PER_AGENT, MAX_LINES_PER_RULE, MAX_LINES_TOTAL,
    MaxRequests     \* requests in a behaviour

Rule  == {r \in [on : BOOLEAN, lines : Sizes, alias : Aliases] : r.alias <= r.lines}
Modes == {"open", "restricted"}
Rules == [RuleIds -> Rule \cup {None}]

Ops ==
    [kind : {"create"}, id : RuleIds, rule : Rule] \cup
    [kind : {"update"}, id : RuleIds, rule : Rule] \cup
    [kind : {"switch"}, id : RuleIds, on : BOOLEAN] \cup
    [kind : {"delete"}, id : RuleIds] \cup
    [kind : {"bulk"}, ids : SUBSET RuleIds \ {{}}, rule : Rule] \cup
    [kind : {"disable"}, ids : SUBSET RuleIds \ {{}}] \cup
    [kind : {"mode"}, mode : Modes]
LinkOps == [kind : {"link"}, link : Links, on : BOOLEAN]

Request == [op : Ops, at : {"begin", "locked", "loaded", "checked"}, mode : Modes, rules : Rules]
           \cup [op : LinkOps, at : {"begin", "read", "write"}, links : SUBSET Links]

ASSUME ConstantsAssumption ==
    /\ Sizes \subseteq Nat \ {0} /\ Aliases \subseteq Nat
    /\ {MAX_RULES_PER_AGENT, MAX_LINES_PER_RULE, MAX_LINES_TOTAL} \subseteq Nat
    /\ MaxRequests \in Nat
    /\ IsFiniteSet(RuleIds) /\ IsFiniteSet(Links)
    /\ None \notin Rule /\ None \notin Request /\ None \notin Admins

VARIABLES
    mode,       \* agent.ingress_mode
    rules,      \* the rows of agent_ingress_rule, None where there is none
    links,      \* the enabled direct links
    lock,       \* who holds the row lock of the agent
    req,        \* admin -> the request being served, or None
    crossed,    \* history: has a save come between the check and the write of a link's,
                \* or a link's between those of another save?
    requests    \* requests begun

vars == <<mode, rules, links, lock, req, crossed, requests>>

-----------------------------------------------------------------------------
(* The checks *)

Exists(rs) == {i \in RuleIds : rs[i] # None}
Active(rs) == {i \in Exists(rs) : rs[i].on}

(* The lines the active rules expand to, and those that admit the partner's  *)
(* hub address.                                                              *)
Lines(rs)      == UNION {{<<i, n>> : n \in 1 .. rs[i].lines} : i \in Active(rs)}
AliasLines(rs) == UNION {{<<i, n>> : n \in 1 .. rs[i].alias} : i \in Active(rs)}

(* assertTotalLineCount(rules, ifaceCount) *)
LineCount(rs, ifaces) == Cardinality(Lines(rs)) * ifaces
assertTotalLineCount(rs, ifaces) == LineCount(rs, ifaces) <= MAX_LINES_TOTAL

assertRuleLineCount(r) == r.lines <= MAX_LINES_PER_RULE

assertNotEmptyRestricted(m, rs) == m = "restricted" => Active(rs) # {}

(* What a request makes of the rules it sees: of the rows it names ... *)
Named(op) == IF op.kind \in {"bulk", "disable"} THEN op.ids
             ELSE IF op.kind = "mode" THEN {} ELSE {op.id}

(* ... one is replaced, deleted or switched.  A bulk entry creates a missing  *)
(* rule and switches an existing one back on (bulkDedupe).                    *)
RowAfter(op, r) ==
    IF op.kind \in {"create", "update"} \/ (op.kind = "bulk" /\ r = None) THEN op.rule
    ELSE IF op.kind = "delete" \/ r = None THEN None
    ELSE [on    |-> (op.kind = "bulk") \/ (op.kind = "switch" /\ op.on),
          lines |-> r.lines, alias |-> r.alias]

After(op, rs) == [i \in RuleIds |-> IF i \in Named(op) THEN RowAfter(op, rs[i]) ELSE rs[i]]

(* The rows a request names exist, or do not exist yet. *)
Found(op, rs) ==
    /\ op.kind = "create" => rs[op.id] = None
    /\ op.kind \in {"update", "switch", "delete"} => rs[op.id] # None
    /\ op.kind = "disable" => op.ids \subseteq Exists(rs)

(* updateCanGrow: new targets, or the rule is switched on. *)
updateCanGrow(op) == op.kind = "update" \/ (op.kind = "switch" /\ op.on)

(* Fault injection: only new targets count as growth. *)
AcceptedWhenSwitchedOn(op, m, rs, ifaces) ==
    LET after == After(op, rs) IN
    /\ Found(op, rs)
    /\ op.kind \in {"create", "bulk"} => Cardinality(Exists(after)) <= MAX_RULES_PER_AGENT
    /\ op.kind \in {"create", "bulk"} => assertRuleLineCount(op.rule)
    /\ updateCanGrow(op) => assertRuleLineCount(after[op.id])
    /\ op.kind \in {"create", "update", "bulk", "mode"} => assertTotalLineCount(after, ifaces)
    /\ op.kind = "mode" => assertNotEmptyRestricted(op.mode, rs)
    /\ op.kind \in {"update", "switch", "delete", "disable"} => assertNotEmptyRestricted(m, after)

(* Fault injection: the bulk create does not count the rules. *)
AcceptedBulkUncounted(op, m, rs, ifaces) ==
    LET after == After(op, rs) IN
    /\ Found(op, rs)
    /\ op.kind = "create" => Cardinality(Exists(after)) <= MAX_RULES_PER_AGENT
    /\ op.kind \in {"create", "bulk"} => assertRuleLineCount(op.rule)
    /\ updateCanGrow(op) => assertRuleLineCount(after[op.id])
    /\ op.kind \in {"create", "bulk", "mode"} \/ updateCanGrow(op) =>
            assertTotalLineCount(after, ifaces)
    /\ op.kind = "mode" => assertNotEmptyRestricted(op.mode, rs)
    /\ op.kind \in {"update", "switch", "delete", "disable"} => assertNotEmptyRestricted(m, after)

(* Do the checks of create, update, delete, setMode, createBulk and           *)
(* disableBulk let the request through, given mode, rules and interfaces?     *)
Accepted(op, m, rs, ifaces) ==
    LET after == After(op, rs) IN
    /\ Found(op, rs)
    /\ op.kind \in {"create", "bulk"} => Cardinality(Exists(after)) <= MAX_RULES_PER_AGENT
    /\ op.kind \in {"create", "bulk"} => assertRuleLineCount(op.rule)
    /\ updateCanGrow(op) => assertRuleLineCount(after[op.id])
    /\ op.kind \in {"create", "bulk", "mode"} \/ updateCanGrow(op) =>
            assertTotalLineCount(after, ifaces)
    /\ op.kind = "mode" => assertNotEmptyRestricted(op.mode, rs)
    /\ op.kind \in {"update", "switch", "delete", "disable"} => assertNotEmptyRestricted(m, after)

-----------------------------------------------------------------------------
(* Changes of rules and mode *)

IsLink(p) == req[p] # None /\ req[p].op.kind = "link"
IsRule(p) == req[p] # None /\ req[p].op.kind # "link"

RuleReq(op, at, m, rs) == [op |-> op, at |-> at, mode |-> m, rules |-> rs]
LinkReq(op, at, ls)    == [op |-> op, at |-> at, links |-> ls]

Begin(p, r) ==
    /\ req[p] = None /\ requests < MaxRequests /\ requests' = requests + 1
    /\ req' = [req EXCEPT ![p] = r]
    /\ UNCHANGED <<mode, rules, links, lock, crossed>>

BeginRule(p, op) ==
    Begin(p, RuleReq(op, "begin", "open", [i \in RuleIds |-> None]))

(* Fault injection: the row is read, not locked. *)
lockAgentUnlocked(p) ==
    /\ IsRule(p) /\ req[p].at = "begin"
    /\ lock' = p
    /\ req' = [req EXCEPT ![p] = RuleReq(@.op, "locked", mode, @.rules)]
    /\ UNCHANGED <<mode, rules, links, crossed, requests>>

(* SELECT ... FOR UPDATE on the agent row. *)
lockAgent(p) ==
    /\ IsRule(p) /\ req[p].at = "begin"
    /\ lock = None /\ lock' = p
    /\ req' = [req EXCEPT ![p] = RuleReq(@.op, "locked", mode, @.rules)]
    /\ UNCHANGED <<mode, rules, links, crossed, requests>>

loadRules(p) ==
    /\ IsRule(p) /\ req[p].at = "locked"
    /\ req' = [req EXCEPT ![p] = RuleReq(@.op, "loaded", @.mode, rules)]
    /\ UNCHANGED <<mode, rules, links, lock, crossed, requests>>

(* The enabled links are counted (ifaceCountOf) and the checks run; a request *)
(* that is refused ends with its transaction rolled back.                     *)
Check(p) ==
    /\ IsRule(p) /\ req[p].at = "loaded"
    /\ LET r == req[p] IN
       IF Accepted(r.op, r.mode, r.rules, 1 + Cardinality(links))
       THEN req' = [req EXCEPT ![p] = RuleReq(r.op, "checked", r.mode, r.rules)] /\ lock' = lock
       ELSE req' = [req EXCEPT ![p] = None] /\ lock' = None
    /\ UNCHANGED <<mode, rules, links, crossed, requests>>

(* The rows are written and the transaction is committed.                     *)
Commit(p) ==
    /\ IsRule(p) /\ req[p].at = "checked"
    /\ rules' = After(req[p].op, rules)
    /\ mode' = IF req[p].op.kind = "mode" THEN req[p].op.mode ELSE mode
    /\ lock' = None /\ req' = [req EXCEPT ![p] = None]
    /\ crossed' = (crossed \/ \E q \in Admins : IsLink(q) /\ req[q].at = "write")
    /\ UNCHANGED <<links, requests>>

-----------------------------------------------------------------------------
(* Saving a direct link *)

BeginLink(p, op) == Begin(p, LinkReq(op, "begin", {}))

(* validateComplete reads the other links ... *)
LinkRead(p) ==
    /\ IsLink(p) /\ req[p].at = "begin"
    /\ req' = [req EXCEPT ![p] = LinkReq(@.op, "read", links \ {@.op.link})]
    /\ UNCHANGED <<mode, rules, links, lock, crossed, requests>>

(* ... and, for a link to be switched on, the rules of the agent. *)
LinkCheck(p) ==
    /\ IsLink(p) /\ req[p].at = "read"
    /\ LET ok == req[p].op.on =>
                    assertTotalLineCount(rules, 2 + Cardinality(req[p].links)) IN
       req' = [req EXCEPT ![p] = IF ok THEN LinkReq(@.op, "write", @.links) ELSE None]
    /\ UNCHANGED <<mode, rules, links, lock, crossed, requests>>

LinkWrite(p) ==
    /\ IsLink(p) /\ req[p].at = "write"
    /\ links' = IF req[p].op.on THEN links \cup {req[p].op.link} ELSE links \ {req[p].op.link}
    /\ req' = [req EXCEPT ![p] = None]
    /\ crossed' = (crossed \/ (req[p].op.on /\ \E q \in Admins \ {p} :
                       req[q] # None /\ req[q].at \in {"checked", "read", "write"}))
    /\ UNCHANGED <<mode, rules, lock, requests>>

-----------------------------------------------------------------------------
Init ==
    /\ mode = "open" /\ rules = [i \in RuleIds |-> None] /\ links = {}
    /\ lock = None /\ req = [p \in Admins |-> None]
    /\ crossed = FALSE /\ requests = 0

Step(p) == lockAgent(p) \/ loadRules(p) \/ Check(p) \/ Commit(p)
           \/ LinkRead(p) \/ LinkCheck(p) \/ LinkWrite(p)

Next == \E p \in Admins :
            \/ Step(p)
            \/ \E op \in Ops : BeginRule(p, op)
            \/ \E op \in LinkOps : BeginLink(p, op)

Spec == Init /\ [][Next]_vars

-----------------------------------------------------------------------------
(* The variables have their types, and the agent never has more rules than   *)
(* MAX_RULES_PER_AGENT nor a rule longer than MAX_LINES_PER_RULE.            *)
TypeOK ==
    /\ mode \in Modes /\ rules \in Rules /\ links \in SUBSET Links
    /\ lock \in Admins \cup {None}
    /\ req \in [Admins -> Request \cup {None}]
    /\ crossed \in BOOLEAN /\ requests \in 0 .. MaxRequests
    /\ Cardinality(Exists(rules)) <= MAX_RULES_PER_AGENT
    /\ \A i \in Exists(rules) : assertRuleLineCount(rules[i])

(* "No restricted agent without an active rule": whatever changes of mode    *)
(* and rules run at the same time, a restricted agent always has a rule that *)
(* admits something.                                                         *)
NotEmptyRestricted == assertNotEmptyRestricted(mode, rules)

(* The lines buildIngressRestore emits: every rule line for every interface,  *)
(* and the alias lines for every link.  Over MAX_LINES_TOTAL it throws.       *)
ruleCount == LineCount(rules, 1 + Cardinality(links))
               + Cardinality(AliasLines(rules)) * Cardinality(links)

(* A ruleset that was saved can be built, so that the agent gets it: the      *)
(* rules, the mode and the links may change in any order and overlap.  It     *)
(* exceeds the cap by at most the alias lines, which the check on save does   *)
(* not count, unless a link was switched on between the check and the write   *)
(* of another request, or a rule change committed between those of a link.    *)
Buildable ==
    ~crossed => ruleCount <= MAX_LINES_TOTAL
                               + Cardinality(AliasLines(rules)) * Cardinality(links)

(* The same without either exception. *)
BuildableCrossed ==
    ruleCount <= MAX_LINES_TOTAL + Cardinality(AliasLines(rules)) * Cardinality(links)
BuildableAlias   == ~crossed => ruleCount <= MAX_LINES_TOTAL
=============================================================================
