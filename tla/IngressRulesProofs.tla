-------------------------- MODULE IngressRulesProofs --------------------------
(***************************************************************************)
(* Proofs about IngressRules for any number of administrators, rules and   *)
(* links and any caps.  The row lock makes what a transaction has read     *)
(* current until it ends (LockInv); with that, the checks of a request are *)
(* checks of the state it leaves.                                          *)
(***************************************************************************)
EXTENDS IngressRules, FiniteSetTheorems, TLAPS

(* A transaction past lockAgent holds the row and knows the mode, past       *)
(* loadRules it knows the rules, and past its check they accept it.          *)
LockInv ==
    \A p \in Admins : IsRule(p) =>
        /\ req[p].at \in {"locked", "loaded", "checked"} => lock = p /\ req[p].mode = mode
        /\ req[p].at \in {"loaded", "checked"} => req[p].rules = rules
        /\ req[p].at = "checked" => \E n \in Nat : Accepted(req[p].op, mode, rules, n)

Inv == TypeOK /\ LockInv /\ NotEmptyRestricted

-----------------------------------------------------------------------------
(* Requests *)

(* Only the saving of a link has the kind "link". *)
LEMMA OpKind ==
    /\ \A op \in Ops : op.kind \in {"create", "update", "switch", "delete", "bulk",
                                    "disable", "mode"}
    /\ \A op \in LinkOps : op.kind = "link"
  BY DEF Ops, LinkOps

(* A request for rules or mode is of the first sort of Request, the saving of *)
(* a link of the second.                                                      *)
LEMMA RuleRequest ==
    ASSUME NEW p \in Admins, req \in [Admins -> Request \cup {None}], IsRule(p)
    PROVE  req[p] \in [op : Ops, at : {"begin", "locked", "loaded", "checked"}, mode : Modes, rules : Rules]
  BY OpKind DEF Request, IsRule

LEMMA LinkRequest ==
    ASSUME NEW p \in Admins, req \in [Admins -> Request \cup {None}], IsLink(p)
    PROVE  req[p] \in [op : LinkOps, at : {"begin", "read", "write"}, links : SUBSET Links]
  BY OpKind DEF Request, IsLink

-----------------------------------------------------------------------------
(* What an accepted request makes of the rules *)

(* The result of a request is a set of rules again. *)
LEMMA AfterType ==
    ASSUME NEW op \in Ops, NEW rs \in Rules, Found(op, rs)
    PROVE  After(op, rs) \in Rules
  <1> SUFFICES ASSUME NEW i \in RuleIds PROVE After(op, rs)[i] \in Rule \cup {None}
      BY DEF After, Named, RowAfter, Rules
  <1> rs[i] \in Rule \cup {None}
      BY DEF Rules
  <1>1. CASE op.kind \in {"create", "update"}
        BY <1>1 DEF After, Named, RowAfter, Ops
  <1>2. CASE op.kind = "switch"
        BY <1>2 DEF After, Named, RowAfter, Ops, Found, Rule
  <1>3. CASE op.kind \in {"delete", "mode"}
        BY <1>3 DEF After, Named, RowAfter, Ops
  <1>4. CASE op.kind = "bulk"
        BY <1>4 DEF After, Named, RowAfter, Ops, Rule
  <1>5. CASE op.kind = "disable"
        BY <1>5 DEF After, Named, RowAfter, Ops, Found, Exists, Rule
  <1> QED BY <1>1, <1>2, <1>3, <1>4, <1>5, OpKind

(* No accepted request leaves a restricted agent without an active rule. *)
LEMMA AcceptedNotEmpty ==
    ASSUME NEW op \in Ops, NEW m \in Modes, NEW rs \in Rules, NEW n,
           Accepted(op, m, rs, n), assertNotEmptyRestricted(m, rs)
    PROVE  assertNotEmptyRestricted(IF op.kind = "mode" THEN op.mode ELSE m, After(op, rs))
  <1>1. CASE op.kind \in {"update", "switch", "delete", "disable"}
        BY <1>1 DEF Accepted
  <1>2. CASE op.kind = "mode"
    <2>1. After(op, rs) = rs
          BY <1>2 DEF After, Named, RowAfter, Rules
    <2> QED BY <1>2, <2>1 DEF Accepted
  <1>3. CASE op.kind = "create"
    <2>1. ASSUME NEW i \in Active(rs) PROVE i \in Active(After(op, rs))
          BY <1>3, <2>1 DEF Active, Exists, After, Named, RowAfter, Accepted, Found
    <2> QED BY <1>3, <2>1 DEF assertNotEmptyRestricted
  <1>4. CASE op.kind = "bulk"
    <2>1. ASSUME NEW i \in Active(rs) PROVE i \in Active(After(op, rs))
      <3>1. i \in RuleIds /\ rs[i] # None /\ rs[i].on /\ rs[i] \in Rule
            BY <2>1 DEF Active, Exists, Rules
      <3>2. After(op, rs)[i] \in Rule /\ After(op, rs)[i].on
            BY <1>4, <3>1 DEF After, Named, RowAfter, Rule
      <3> QED BY <3>1, <3>2, ConstantsAssumption DEF Active, Exists
    <2> QED BY <1>4, <2>1 DEF assertNotEmptyRestricted
  <1> QED BY <1>1, <1>2, <1>3, <1>4, OpKind

(* Nor does one exceed the number of rules or the length of a rule. *)
LEMMA AcceptedWithinCaps ==
    ASSUME NEW op \in Ops, NEW m \in Modes, NEW rs \in Rules, NEW n,
           Accepted(op, m, rs, n),
           Cardinality(Exists(rs)) <= MAX_RULES_PER_AGENT,
           \A i \in Exists(rs) : assertRuleLineCount(rs[i])
    PROVE  /\ Cardinality(Exists(After(op, rs))) <= MAX_RULES_PER_AGENT
           /\ \A i \in Exists(After(op, rs)) : assertRuleLineCount(After(op, rs)[i])
  <1> DEFINE after == After(op, rs)
  <1>0. Found(op, rs)
        BY DEF Accepted
  <1>1. Cardinality(Exists(after)) <= MAX_RULES_PER_AGENT
    <2>1. CASE op.kind \in {"create", "bulk"}
          BY <2>1 DEF Accepted
    <2>2. CASE op.kind \notin {"create", "bulk"}
      <3>1. Exists(after) \subseteq Exists(rs)
            BY <2>2, <1>0, OpKind DEF Exists, After, Named, RowAfter, Found
      <3>2. IsFiniteSet(Exists(rs))
            BY ConstantsAssumption, FS_Subset DEF Exists
      <3>3. Cardinality(Exists(after)) <= Cardinality(Exists(rs))
            BY <3>1, <3>2, FS_Subset
      <3>4. /\ Cardinality(Exists(after)) \in Nat /\ Cardinality(Exists(rs)) \in Nat
            /\ MAX_RULES_PER_AGENT \in Nat
            BY <3>1, <3>2, FS_Subset, FS_CardinalityType, ConstantsAssumption
      <3> QED BY <3>3, <3>4
    <2> QED BY <2>1, <2>2
  <1>2. ASSUME NEW i \in Exists(after) PROVE assertRuleLineCount(after[i])
    <2>1. i \in RuleIds /\ after[i] # None /\ rs[i] \in Rule \cup {None}
          BY <1>2 DEF Exists, Rules
    <2>2. CASE op.kind = "create"
          BY <2>1, <2>2 DEF Accepted, After, Named, RowAfter, Exists
    <2>3. CASE op.kind = "update"
          BY <2>1, <2>3 DEF Accepted, After, Named, RowAfter, Exists, updateCanGrow
    <2>4. CASE op.kind = "switch"
          BY <2>1, <2>4, <1>0 DEF After, Named, RowAfter, Exists, Found, Rule, assertRuleLineCount
    <2>5. CASE op.kind \in {"delete", "mode"}
          BY <2>1, <2>5 DEF After, Named, RowAfter, Exists
    <2>6. CASE op.kind = "bulk"
          BY <2>1, <2>6 DEF Accepted, After, Named, RowAfter, Exists, Rule, assertRuleLineCount
    <2>7. CASE op.kind = "disable"
          BY <2>1, <2>7, <1>0 DEF After, Named, RowAfter, Exists, Found, Rule, assertRuleLineCount
    <2> QED BY <2>2, <2>3, <2>4, <2>5, <2>6, <2>7, OpKind
  <1> QED BY <1>1, <1>2

-----------------------------------------------------------------------------
(* The inductive invariant *)

LEMMA InvInit == Init => Inv
  <1> SUFFICES ASSUME Init PROVE Inv
      OBVIOUS
  <1>1. Exists(rules) = {} /\ Active(rules) = {}
        BY DEF Init, Exists, Active
  <1>2. Cardinality(Exists(rules)) = 0
        BY <1>1, FS_EmptySet
  <1>3. TypeOK
    <2>1. mode \in Modes /\ rules \in Rules
          BY DEF Init, Modes, Rules
    <2>2. links \in SUBSET Links /\ lock \in Admins \cup {None} /\ crossed \in BOOLEAN
          BY DEF Init
    <2>3. req \in [Admins -> Request \cup {None}]
          BY DEF Init
    <2>4. requests \in 0 .. MaxRequests
          BY ConstantsAssumption DEF Init
    <2>5. Cardinality(Exists(rules)) <= MAX_RULES_PER_AGENT
          BY <1>2, ConstantsAssumption
    <2> QED BY <1>1, <2>1, <2>2, <2>3, <2>4, <2>5 DEF TypeOK
  <1>4. LockInv
        BY DEF Init, LockInv, IsRule
  <1>5. NotEmptyRestricted
        BY DEF Init, NotEmptyRestricted, assertNotEmptyRestricted
  <1> QED BY <1>3, <1>4, <1>5 DEF Inv

(* A step that leaves mode, rules and links alone and puts a request of the   *)
(* right type in its slot keeps TypeOK and NotEmptyRestricted.                *)
LEMMA SlotStep ==
    ASSUME Inv, NEW p \in Admins, NEW r \in Request \cup {None},
           req' = [req EXCEPT ![p] = r],
           UNCHANGED <<mode, rules, links>>, crossed' \in BOOLEAN,
           lock' \in Admins \cup {None}, requests' \in 0 .. MaxRequests
    PROVE  TypeOK' /\ NotEmptyRestricted'
  BY DEF Inv, TypeOK, NotEmptyRestricted, Exists

LEMMA BeginInv ==
    ASSUME Inv, NEW p \in Admins, NEW r \in Request, Begin(p, r),
           r.op.kind = "link" \/ r.at = "begin"
    PROVE  Inv'
  <1>1. TypeOK' /\ NotEmptyRestricted'
    <2>1. requests' \in 0 .. MaxRequests
          BY ConstantsAssumption DEF Begin, Inv, TypeOK
    <2>2. lock' \in Admins \cup {None}
          BY DEF Begin, Inv, TypeOK
    <2>3. crossed' \in BOOLEAN
          BY DEF Begin, Inv, TypeOK
    <2>4. UNCHANGED <<mode, rules, links>> /\ req' = [req EXCEPT ![p] = r]
          BY DEF Begin
    <2> QED BY <2>1, <2>2, <2>3, <2>4, SlotStep
  <1>2. LockInv'
        BY ConstantsAssumption DEF Begin, Inv, TypeOK, LockInv, IsRule
  <1> QED BY <1>1, <1>2 DEF Inv

LEMMA LinkInv ==
    ASSUME Inv, NEW p \in Admins, IsLink(p), NEW r \in Request \cup {None},
           r # None => r.op.kind = "link",
           req' = [req EXCEPT ![p] = r], UNCHANGED <<mode, rules, lock, requests>>,
           links' \in SUBSET Links, crossed' \in BOOLEAN
    PROVE  Inv'
  <1>1. TypeOK' /\ NotEmptyRestricted'
        BY DEF Inv, TypeOK, NotEmptyRestricted, Exists
  <1>2. LockInv'
        BY DEF Inv, TypeOK, LockInv, IsRule
  <1> QED BY <1>1, <1>2 DEF Inv

(* A request that has been accepted goes on to its write, a refused one ends. *)
LEMMA CheckInv ==
    ASSUME Inv, NEW p \in Admins, Check(p)
    PROVE  Inv'
  <1> DEFINE r == RuleReq(req[p].op, "checked", req[p].mode, req[p].rules)
             n == 1 + Cardinality(links)
  <1>1. /\ IsRule(p) /\ req[p].at = "loaded" /\ UNCHANGED <<mode, rules, links, crossed, requests>>
        /\ \/ /\ Accepted(req[p].op, req[p].mode, req[p].rules, n)
              /\ req' = [req EXCEPT ![p] = r] /\ lock' = lock
           \/ req' = [req EXCEPT ![p] = None] /\ lock' = None
        BY DEF Check
  <1>2. r \in Request /\ r.op = req[p].op /\ r.mode = req[p].mode /\ r.rules = req[p].rules
        /\ r.at = "checked"
        BY <1>1, RuleRequest DEF Inv, TypeOK, RuleReq, Request
  <1>3. lock = p /\ req[p].mode = mode /\ req[p].rules = rules
        BY <1>1 DEF Inv, LockInv
  <1>4. n \in Nat
        BY ConstantsAssumption, FS_Subset, FS_CardinalityType DEF Inv, TypeOK
  <1> HIDE DEF r, n
  <1>5. CASE req' = [req EXCEPT ![p] = None] /\ lock' = None
    <2>1. TypeOK' /\ NotEmptyRestricted'
          BY <1>1, <1>5, SlotStep DEF Inv, TypeOK
    <2>2. LockInv'
          BY <1>1, <1>3, <1>5 DEF Inv, TypeOK, LockInv, IsRule
    <2> QED BY <2>1, <2>2 DEF Inv
  <1>6. CASE /\ Accepted(req[p].op, req[p].mode, req[p].rules, n)
             /\ req' = [req EXCEPT ![p] = r] /\ lock' = lock
    <2>1. TypeOK' /\ NotEmptyRestricted'
          BY <1>1, <1>2, <1>6, SlotStep DEF Inv, TypeOK
    <2>2. LockInv'
      <3> SUFFICES ASSUME NEW q \in Admins, IsRule(q)'
                   PROVE  /\ req'[q].at \in {"locked", "loaded", "checked"} =>
                                lock' = q /\ req'[q].mode = mode'
                          /\ req'[q].at \in {"loaded", "checked"} => req'[q].rules = rules'
                          /\ req'[q].at = "checked" =>
                                \E k \in Nat : Accepted(req'[q].op, mode', rules', k)
          BY Zenon DEF LockInv
      <3>1. CASE q = p
        <4>1. req'[q] = r
              BY <1>6, <3>1 DEF Inv, TypeOK
        <4>2. Accepted(r.op, mode', rules', n)
              BY <1>1, <1>2, <1>3, <1>6
        <4> QED BY <1>1, <1>2, <1>3, <1>4, <1>6, <3>1, <4>1, <4>2
      <3>2. CASE q # p
        <4>1. req'[q] = req[q] /\ IsRule(q)
              BY <1>6, <3>2 DEF Inv, TypeOK, IsRule
        <4> QED BY <1>1, <1>6, <4>1 DEF Inv, LockInv
      <3> QED BY <3>1, <3>2
    <2> QED BY <2>1, <2>2 DEF Inv
  <1> QED BY <1>1, <1>5, <1>6

(* The write of an accepted request keeps types, caps and the active rule.    *)
LEMMA CommitInv ==
    ASSUME Inv, NEW p \in Admins, Commit(p)
    PROVE  Inv'
  <1> DEFINE op == req[p].op
  <1>1. /\ IsRule(p) /\ req[p].at = "checked"
        /\ rules' = After(op, rules)
        /\ mode' = IF op.kind = "mode" THEN op.mode ELSE mode
        /\ lock' = None /\ req' = [req EXCEPT ![p] = None]
        /\ UNCHANGED <<links, requests>>
        BY DEF Commit
  <1>2. op \in Ops
        BY <1>1, RuleRequest DEF Inv, TypeOK
  <1>3. PICK n \in Nat : lock = p /\ Accepted(op, mode, rules, n)
        BY <1>1 DEF Inv, LockInv
  <1>4. /\ mode \in Modes /\ rules \in Rules
        /\ assertNotEmptyRestricted(mode, rules)
        /\ Cardinality(Exists(rules)) <= MAX_RULES_PER_AGENT
        /\ \A i \in Exists(rules) : assertRuleLineCount(rules[i])
        BY DEF Inv, TypeOK, NotEmptyRestricted
  <1>5. LockInv'
        BY <1>1, <1>3 DEF Inv, TypeOK, LockInv, IsRule
  <1>6. /\ mode' \in Modes /\ rules' \in Rules
        /\ assertNotEmptyRestricted(mode', rules')
        /\ Cardinality(Exists(rules')) <= MAX_RULES_PER_AGENT
        /\ \A i \in Exists(rules') : assertRuleLineCount(rules'[i])
    <2>1. Found(op, rules)
          BY <1>3 DEF Accepted
    <2>2. After(op, rules) \in Rules
          BY <1>2, <1>4, <2>1, AfterType
    <2>3. mode' \in Modes
          BY <1>1, <1>2, <1>4 DEF Ops
    <2>4. assertNotEmptyRestricted(mode', rules')
          BY <1>1, <1>2, <1>3, <1>4, AcceptedNotEmpty
    <2>5. /\ Cardinality(Exists(After(op, rules))) <= MAX_RULES_PER_AGENT
          /\ \A i \in Exists(After(op, rules)) : assertRuleLineCount(After(op, rules)[i])
          BY <1>2, <1>3, <1>4, AcceptedWithinCaps
    <2> QED BY <1>1, <2>2, <2>3, <2>4, <2>5
  <1>7. TypeOK'
    <2>1. crossed' \in BOOLEAN
          BY Zenon DEF Commit
    <2> QED BY <1>1, <1>6, <2>1 DEF Inv, TypeOK, Exists, assertRuleLineCount
  <1>8. NotEmptyRestricted'
        BY <1>6 DEF NotEmptyRestricted, assertNotEmptyRestricted, Active, Exists
  <1> QED BY <1>5, <1>7, <1>8 DEF Inv

LEMMA InvNext == Inv /\ [Next]_vars => Inv'
  <1> SUFFICES ASSUME Inv, [Next]_vars PROVE Inv'
      OBVIOUS
  <1>1. CASE UNCHANGED vars
        BY <1>1 DEF vars, Inv, TypeOK, LockInv, NotEmptyRestricted, IsRule, Exists, Active,
                    assertNotEmptyRestricted, assertRuleLineCount
  <1>2. ASSUME NEW p \in Admins, NEW op \in Ops, BeginRule(p, op) PROVE Inv'
    <2> DEFINE r == RuleReq(op, "begin", "open", [i \in RuleIds |-> None])
    <2>1. r \in Request /\ r.at = "begin"
          BY DEF RuleReq, Request, Modes, Rules
    <2>2. Begin(p, r)
          BY <1>2 DEF BeginRule
    <2> HIDE DEF r
    <2> QED BY <2>1, <2>2, BeginInv
  <1>3. ASSUME NEW p \in Admins, NEW op \in LinkOps, BeginLink(p, op) PROVE Inv'
    <2> DEFINE r == LinkReq(op, "begin", {})
    <2>1. r \in Request /\ r.op.kind = "link"
          BY OpKind DEF LinkReq, Request
    <2>2. Begin(p, r)
          BY <1>3 DEF BeginLink
    <2> HIDE DEF r
    <2> QED BY <2>1, <2>2, BeginInv
  <1>4. ASSUME NEW p \in Admins, lockAgent(p) PROVE Inv'
    <2> DEFINE r == RuleReq(req[p].op, "locked", mode, req[p].rules)
    <2>1. r \in Request /\ r.op = req[p].op /\ r.at = "locked" /\ r.mode = mode
          BY <1>4, RuleRequest DEF lockAgent, Inv, TypeOK, RuleReq, Request
    <2>2. /\ IsRule(p) /\ lock = None /\ lock' = p /\ req' = [req EXCEPT ![p] = r]
          /\ UNCHANGED <<mode, rules, links, crossed, requests>>
          BY <1>4 DEF lockAgent
    <2> HIDE DEF r
    <2>3. TypeOK' /\ NotEmptyRestricted'
          BY <2>1, <2>2, SlotStep DEF Inv, TypeOK
    <2>4. LockInv'
          BY <2>1, <2>2, ConstantsAssumption DEF Inv, TypeOK, LockInv, IsRule
    <2> QED BY <2>3, <2>4 DEF Inv
  <1>5. ASSUME NEW p \in Admins, loadRules(p) PROVE Inv'
    <2> DEFINE r == RuleReq(req[p].op, "loaded", req[p].mode, rules)
    <2>1. r \in Request /\ r.at = "loaded" /\ r.mode = req[p].mode /\ r.rules = rules
          BY <1>5, RuleRequest DEF loadRules, Inv, TypeOK, RuleReq, Request
    <2>2. /\ IsRule(p) /\ req[p].at = "locked" /\ req' = [req EXCEPT ![p] = r]
          /\ UNCHANGED <<mode, rules, links, lock, crossed, requests>>
          BY <1>5 DEF loadRules
    <2> HIDE DEF r
    <2>3. TypeOK' /\ NotEmptyRestricted'
          BY <2>1, <2>2, SlotStep DEF Inv, TypeOK
    <2>4. LockInv'
          BY <2>1, <2>2 DEF Inv, TypeOK, LockInv, IsRule
    <2> QED BY <2>3, <2>4 DEF Inv
  <1>6. ASSUME NEW p \in Admins, LinkRead(p) PROVE Inv'
    <2> DEFINE r == LinkReq(req[p].op, "read", links \ {req[p].op.link})
    <2>1. r \in Request /\ r.op.kind = "link"
          BY <1>6, LinkRequest, OpKind DEF LinkRead, Inv, TypeOK, LinkReq, Request
    <2>2. /\ IsLink(p) /\ req' = [req EXCEPT ![p] = r]
          /\ UNCHANGED <<mode, rules, links, lock, crossed, requests>>
          BY <1>6 DEF LinkRead
    <2> HIDE DEF r
    <2> QED BY <2>1, <2>2, LinkInv DEF Inv, TypeOK
  <1>7. ASSUME NEW p \in Admins, LinkCheck(p) PROVE Inv'
    <2>1. LinkReq(req[p].op, "write", req[p].links) \in Request
          /\ LinkReq(req[p].op, "write", req[p].links).op.kind = "link"
          BY <1>7, LinkRequest, OpKind DEF LinkCheck, Inv, TypeOK, LinkReq, Request
    <2>2. PICK r \in {LinkReq(req[p].op, "write", req[p].links), None} :
            /\ IsLink(p) /\ req' = [req EXCEPT ![p] = r]
            /\ UNCHANGED <<mode, rules, links, lock, crossed, requests>>
          BY <1>7 DEF LinkCheck
    <2> QED BY <2>1, <2>2, LinkInv DEF Inv, TypeOK
  <1>8. ASSUME NEW p \in Admins, LinkWrite(p) PROVE Inv'
    <2>1. /\ IsLink(p) /\ req' = [req EXCEPT ![p] = None]
          /\ UNCHANGED <<mode, rules, lock, requests>>
          BY <1>8 DEF LinkWrite
    <2>2. links' \in SUBSET Links
          BY <1>8, LinkRequest DEF LinkWrite, Inv, TypeOK, LinkOps
    <2>3. crossed' \in BOOLEAN
          BY <1>8, Zenon DEF LinkWrite
    <2> QED BY <2>1, <2>2, <2>3, LinkInv
  <1>9. ASSUME NEW p \in Admins, Check(p) PROVE Inv'
        BY <1>9, CheckInv
  <1>10. ASSUME NEW p \in Admins, Commit(p) PROVE Inv'
        BY <1>10, CommitInv
  <1> QED BY <1>1, <1>2, <1>3, <1>4, <1>5, <1>6, <1>7, <1>8, <1>9, <1>10 DEF Next, Step

(* Types and caps: no sequence of requests, however they overlap, gives an    *)
(* agent more than MAX_RULES_PER_AGENT rules or a rule of more than           *)
(* MAX_LINES_PER_RULE lines.                                                  *)
THEOREM TypeCorrect == Spec => []TypeOK
  BY InvInit, InvNext, PTL DEF Spec, Inv

(* A restricted agent always has an active rule, for any number of            *)
(* administrators changing its rules and its mode at the same time.           *)
THEOREM NotEmpty == Spec => []NotEmptyRestricted
  BY InvInit, InvNext, PTL DEF Spec, Inv

-----------------------------------------------------------------------------
(* The line cap *)

(* While no link has been written between a check and a write: a request that *)
(* was accepted leaves the rules within the cap, and a link save has read all *)
(* enabled links and, past its check, leaves room for one more interface.     *)
RuleFits(p) == req[p].at = "checked" =>
                  assertTotalLineCount(After(req[p].op, rules), 1 + Cardinality(links))
LinkFits(p) ==
    /\ req[p].at \in {"read", "write"} => links \ {req[p].op.link} \subseteq req[p].links
    /\ req[p].at = "write" /\ req[p].op.on =>
          assertTotalLineCount(rules, 2 + Cardinality(req[p].links))

Cap ==
    /\ assertTotalLineCount(rules, 1 + Cardinality(links))
    /\ \A p \in Admins : (IsRule(p) => RuleFits(p)) /\ (IsLink(p) => LinkFits(p))

CapInv == ~crossed => Cap

(* The lines of rules within the cap per rule are finitely many. *)
LEMMA LinesFinite ==
    ASSUME NEW rs \in Rules, \A i \in Exists(rs) : assertRuleLineCount(rs[i])
    PROVE  IsFiniteSet(Lines(rs)) /\ Cardinality(Lines(rs)) \in Nat
  <1>1. IsFiniteSet(RuleIds \X (1 .. MAX_LINES_PER_RULE))
    <2>1. 1 \in Int /\ MAX_LINES_PER_RULE \in Int /\ IsFiniteSet(RuleIds)
          BY ConstantsAssumption
    <2>2. IsFiniteSet(1 .. MAX_LINES_PER_RULE)
          BY <2>1, FS_Interval
    <2> QED BY <2>1, <2>2, FS_Product
  <1>2. Lines(rs) \subseteq RuleIds \X (1 .. MAX_LINES_PER_RULE)
    <2> SUFFICES ASSUME NEW i \in Active(rs), NEW n \in 1 .. rs[i].lines
                 PROVE  <<i, n>> \in RuleIds \X (1 .. MAX_LINES_PER_RULE)
        BY DEF Lines
    <2>1. i \in Exists(rs) /\ i \in RuleIds /\ rs[i] \in Rule
          BY DEF Active, Exists, Rules
    <2>2. rs[i].lines \in Nat /\ rs[i].lines <= MAX_LINES_PER_RULE /\ MAX_LINES_PER_RULE \in Nat
          BY <2>1, ConstantsAssumption DEF assertRuleLineCount, Rule
    <2>3. n \in 1 .. MAX_LINES_PER_RULE
          BY <2>2
    <2> QED BY <2>1, <2>3
  <1> QED BY <1>1, <1>2, FS_Subset, FS_CardinalityType

(* Fewer lines on fewer interfaces need less room. *)
LEMMA LessRoom ==
    ASSUME NEW a \in Nat, NEW b \in Nat, a <= b, NEW k \in Nat, NEW n \in Nat, k <= n,
           b * n <= MAX_LINES_TOTAL
    PROVE  a * k <= MAX_LINES_TOTAL
  <1>1. PICK x \in Nat : b = a + x
    <2>1. b - a \in Nat /\ b = a + (b - a)
          OBVIOUS
    <2> QED BY <2>1
  <1>2. PICK y \in Nat : n = k + y
    <2>1. n - k \in Nat /\ n = k + (n - k)
          OBVIOUS
    <2> QED BY <2>1
  <1>3. b * n = a * k + a * y + x * n
        BY <1>1, <1>2
  <1>4. a * k \in Nat /\ a * y \in Nat /\ x * n \in Nat
        OBVIOUS
  <1> QED BY <1>3, <1>4, ConstantsAssumption

(* An accepted request leaves the rules within the cap. *)
LEMMA AcceptedFits ==
    ASSUME NEW op \in Ops, NEW m \in Modes, NEW rs \in Rules, NEW n \in Nat,
           Accepted(op, m, rs, n), \A i \in Exists(rs) : assertRuleLineCount(rs[i]),
           Cardinality(Exists(rs)) <= MAX_RULES_PER_AGENT,
           assertTotalLineCount(rs, n)
    PROVE  assertTotalLineCount(After(op, rs), n)
  <1> DEFINE after == After(op, rs)
  <1>1. CASE op.kind \in {"create", "bulk", "mode"} \/ updateCanGrow(op)
        BY <1>1 DEF Accepted
  <1>2. CASE ~(op.kind \in {"create", "bulk", "mode"} \/ updateCanGrow(op))
    <2>1. op.kind \in {"delete", "disable"} \/ (op.kind = "switch" /\ ~op.on)
          BY <1>2, OpKind DEF updateCanGrow
    <2>2. ASSUME NEW i \in Active(after) PROVE i \in Active(rs) /\ after[i] = rs[i]
      <3>1. i \in RuleIds /\ after[i] # None /\ after[i].on
            BY <2>2 DEF Active, Exists
      <3>2. i \notin Named(op)
            BY <2>1, <3>1 DEF After, RowAfter
      <3>3. after[i] = rs[i]
            BY <3>1, <3>2 DEF After
      <3> QED BY <3>1, <3>3 DEF Active, Exists
    <2>3. Lines(after) \subseteq Lines(rs)
          BY <2>2 DEF Lines
    <2>4. IsFiniteSet(Lines(rs)) /\ Cardinality(Lines(rs)) \in Nat
          BY LinesFinite
    <2>5. Cardinality(Lines(after)) <= Cardinality(Lines(rs)) /\ Cardinality(Lines(after)) \in Nat
          BY <2>3, <2>4, FS_Subset, FS_CardinalityType
    <2>6. Cardinality(Lines(rs)) * n <= MAX_LINES_TOTAL
          BY DEF assertTotalLineCount, LineCount
    <2>7. Cardinality(Lines(after)) * n <= MAX_LINES_TOTAL
          BY <2>4, <2>5, <2>6, LessRoom
    <2> QED BY <2>7 DEF assertTotalLineCount, LineCount
  <1> QED BY <1>1, <1>2

(* The alias lines of a rule are some of its lines. *)
LEMMA AliasFinite ==
    ASSUME NEW rs \in Rules, IsFiniteSet(Lines(rs))
    PROVE  Cardinality(AliasLines(rs)) \in Nat
  <1>1. AliasLines(rs) \subseteq Lines(rs)
    <2> SUFFICES ASSUME NEW i \in Active(rs), NEW n \in 1 .. rs[i].alias
                 PROVE  n \in 1 .. rs[i].lines
        BY DEF AliasLines, Lines
    <2>1. rs[i] \in Rule
          BY DEF Active, Exists, Rules
    <2>2. rs[i].alias \in Nat /\ rs[i].lines \in Nat /\ rs[i].alias <= rs[i].lines
          BY <2>1, ConstantsAssumption DEF Rule
    <2> QED BY <2>2
  <1> QED BY <1>1, FS_Subset, FS_CardinalityType

LEMMA CapInit == Init => CapInv
  <1> SUFFICES ASSUME Init PROVE Cap
      BY DEF CapInv
  <1>1. Lines(rules) = {}
        BY DEF Init, Lines, Active, Exists
  <1>2. Cardinality(Lines(rules)) = 0 /\ Cardinality(links) = 0
        BY <1>1, FS_EmptySet DEF Init
  <1>3. assertTotalLineCount(rules, 1 + Cardinality(links))
        BY <1>2, ConstantsAssumption DEF assertTotalLineCount, LineCount
  <1> QED BY <1>3 DEF Cap, IsLink, IsRule, Init

(* The enabled links are finitely many, fewer are no more. *)
LEMMA LinksFinite ==
    ASSUME NEW ls \in SUBSET Links
    PROVE  /\ IsFiniteSet(ls) /\ Cardinality(ls) \in Nat
           /\ \A ks \in SUBSET ls : IsFiniteSet(ks) /\ Cardinality(ks) \in Nat
                                     /\ Cardinality(ks) <= Cardinality(ls)
  <1>1. IsFiniteSet(ls)
        BY ConstantsAssumption, FS_Subset
  <1> QED BY <1>1, FS_Subset, FS_CardinalityType

(* The result of an accepted request is a set of rules of finitely many lines. *)
LEMMA CheckedFinite ==
    ASSUME Inv, NEW p \in Admins, IsRule(p), req[p].at = "checked"
    PROVE  /\ Cardinality(Lines(rules)) \in Nat
           /\ Cardinality(Lines(After(req[p].op, rules))) \in Nat
  <1>1. req[p].op \in Ops /\ rules \in Rules /\ mode \in Modes
        BY RuleRequest DEF Inv, TypeOK
  <1>2. PICK n \in Nat : Accepted(req[p].op, mode, rules, n)
        BY DEF Inv, LockInv
  <1>3. After(req[p].op, rules) \in Rules
        BY <1>1, <1>2, AfterType DEF Accepted
  <1>4. /\ Cardinality(Exists(rules)) <= MAX_RULES_PER_AGENT
        /\ \A i \in Exists(rules) : assertRuleLineCount(rules[i])
        BY DEF Inv, TypeOK
  <1>5. \A i \in Exists(After(req[p].op, rules)) : assertRuleLineCount(After(req[p].op, rules)[i])
        BY <1>1, <1>2, <1>4, AcceptedWithinCaps
  <1> QED BY <1>1, <1>3, <1>4, <1>5, LinesFinite

(* Fewer interfaces need less room. *)
LEMMA FewerInterfaces ==
    ASSUME NEW rs, Cardinality(Lines(rs)) \in Nat, NEW k \in Nat, NEW n \in Nat, k <= n,
           assertTotalLineCount(rs, n)
    PROVE  assertTotalLineCount(rs, k)
  BY LessRoom DEF assertTotalLineCount, LineCount

LEMMA CapNext == ASSUME Inv, CapInv, [Next]_vars PROVE CapInv'
  <1> SUFFICES ASSUME ~crossed' PROVE Cap'
      BY DEF CapInv
  <1> USE ConstantsAssumption
  <1>0. req \in [Admins -> Request \cup {None}] /\ rules \in Rules /\ links \in SUBSET Links
        BY DEF Inv, TypeOK
  <1>n. Cardinality(links) \in Nat /\ 1 + Cardinality(links) \in Nat
        BY <1>0, LinksFinite
  <1>a. ASSUME NEW p \in Admins, NEW r, ~crossed, UNCHANGED <<rules, links>>,
               req' = [req EXCEPT ![p] = r],
               r # None /\ r.op.kind # "link" /\ r.at = "checked" =>
                   assertTotalLineCount(After(r.op, rules), 1 + Cardinality(links)),
               r # None /\ r.op.kind = "link" =>
                   /\ r.at \in {"read", "write"} => links \ {r.op.link} \subseteq r.links
                   /\ r.at = "write" /\ r.op.on =>
                         assertTotalLineCount(rules, 2 + Cardinality(r.links))
        PROVE  Cap'
    <2>1. Cap
          BY <1>a DEF CapInv
    <2>2. \A q \in Admins : req'[q] = IF q = p THEN r ELSE req[q]
          BY <1>0, <1>a
    <2>3. rules' = rules /\ links' = links
          BY <1>a
    <2> QED BY <1>a, <2>1, <2>2, <2>3 DEF Cap, RuleFits, LinkFits, IsRule, IsLink
  <1>1. CASE UNCHANGED vars
        BY <1>1 DEF vars, CapInv, Cap, RuleFits, LinkFits, IsRule, IsLink
  <1>2. ASSUME NEW p \in Admins, NEW op \in Ops, BeginRule(p, op) PROVE Cap'
    <2>1. ~crossed /\ UNCHANGED <<rules, links>>
          BY <1>2, Zenon DEF BeginRule, Begin
    <2>2. req' = [req EXCEPT ![p] = RuleReq(op, "begin", "open", [i \in RuleIds |-> None])]
          BY <1>2 DEF BeginRule, Begin
    <2> QED BY <1>a, <2>1, <2>2, OpKind DEF RuleReq
  <1>3. ASSUME NEW p \in Admins, NEW op \in LinkOps, BeginLink(p, op) PROVE Cap'
    <2>1. ~crossed /\ UNCHANGED <<rules, links>>
          BY <1>3, Zenon DEF BeginLink, Begin
    <2>2. req' = [req EXCEPT ![p] = LinkReq(op, "begin", {})]
          BY <1>3 DEF BeginLink, Begin
    <2> QED BY <1>a, <2>1, <2>2, OpKind DEF LinkReq
  <1>4. ASSUME NEW p \in Admins, lockAgent(p) \/ loadRules(p) PROVE Cap'
    <2>1. ~crossed /\ UNCHANGED <<rules, links>> /\ IsRule(p)
      <3>1. CASE lockAgent(p)
            BY <3>1, Zenon DEF lockAgent
      <3>2. CASE loadRules(p)
            BY <3>2, Zenon DEF loadRules
      <3> QED BY <1>4, <3>1, <3>2
    <2>2. \/ req' = [req EXCEPT ![p] = RuleReq(req[p].op, "locked", mode, req[p].rules)]
          \/ req' = [req EXCEPT ![p] = RuleReq(req[p].op, "loaded", req[p].mode, rules)]
          BY <1>4 DEF lockAgent, loadRules
    <2> QED BY <1>a, <2>1, <2>2 DEF RuleReq, IsRule
  <1>5. ASSUME NEW p \in Admins, Check(p) PROVE Cap'
    <2> DEFINE op == req[p].op
               n  == 1 + Cardinality(links)
               r  == RuleReq(op, "checked", req[p].mode, req[p].rules)
    <2>1. ~crossed /\ UNCHANGED <<rules, links>>
          BY <1>5, Zenon DEF Check
    <2>2. /\ IsRule(p) /\ req[p].at = "loaded"
          /\ \/ Accepted(op, req[p].mode, req[p].rules, n) /\ req' = [req EXCEPT ![p] = r]
             \/ req' = [req EXCEPT ![p] = None]
          BY <1>5 DEF Check
    <2>3. op \in Ops /\ op.kind # "link" /\ req[p].mode = mode /\ req[p].rules = rules /\ mode \in Modes
          BY <1>0, <2>2, RuleRequest, OpKind DEF Inv, LockInv, TypeOK
    <2>4. r.op = op /\ r.at = "checked"
          BY DEF RuleReq
    <2>5. Accepted(op, mode, rules, n) => assertTotalLineCount(After(op, rules), n)
      <3>1. /\ Cardinality(Exists(rules)) <= MAX_RULES_PER_AGENT
            /\ \A i \in Exists(rules) : assertRuleLineCount(rules[i])
            BY DEF Inv, TypeOK
      <3>2. assertTotalLineCount(rules, n)
            BY <2>1 DEF CapInv, Cap
      <3> QED BY <1>0, <1>n, <2>3, <3>1, <3>2, AcceptedFits
    <2> HIDE DEF r, n, op
    <2>6. CASE req' = [req EXCEPT ![p] = None]
          BY <1>a, <2>1, <2>6
    <2>7. CASE Accepted(op, mode, rules, n) /\ req' = [req EXCEPT ![p] = r]
      <3>1. assertTotalLineCount(After(r.op, rules), 1 + Cardinality(links))
            BY <2>4, <2>5, <2>7 DEF n
      <3> QED BY <1>a, <2>1, <2>3, <2>4, <2>7, <3>1
    <2> QED BY <2>2, <2>3, <2>6, <2>7
  <1>6. ASSUME NEW p \in Admins, Commit(p) PROVE Cap'
    <2>1. /\ IsRule(p) /\ req[p].at = "checked" /\ req' = [req EXCEPT ![p] = None] /\ links' = links
          /\ rules' = After(req[p].op, rules)
          BY <1>6 DEF Commit
    <2>2. ~crossed /\ \A q \in Admins : ~(IsLink(q) /\ req[q].at = "write")
          BY <1>6, Zenon DEF Commit
    <2>3. Cap
          BY <2>2 DEF CapInv
    <2>4. assertTotalLineCount(rules', 1 + Cardinality(links'))
          BY <2>1, <2>3 DEF Cap, RuleFits
    <2>5. \A q \in Admins \ {p} : IsRule(q) => req[q].at # "checked"
          BY <2>1 DEF Inv, LockInv
    <2>6. \A q \in Admins : req'[q] = IF q = p THEN None ELSE req[q]
          BY <1>0, <2>1
    <2> QED BY <2>1, <2>2, <2>3, <2>4, <2>5, <2>6 DEF Cap, RuleFits, LinkFits, IsRule, IsLink
  <1>7. ASSUME NEW p \in Admins, LinkRead(p) PROVE Cap'
    <2> DEFINE r == LinkReq(req[p].op, "read", links \ {req[p].op.link})
    <2>1. ~crossed /\ UNCHANGED <<rules, links>> /\ IsLink(p)
          BY <1>7, Zenon DEF LinkRead
    <2>2. req' = [req EXCEPT ![p] = r]
          BY <1>7 DEF LinkRead
    <2>3. r.op = req[p].op /\ r.at = "read" /\ r.links = links \ {req[p].op.link}
          BY DEF LinkReq
    <2> HIDE DEF r
    <2> QED BY <1>a, <2>1, <2>2, <2>3 DEF IsLink
  <1>8. ASSUME NEW p \in Admins, LinkCheck(p) PROVE Cap'
    <2> DEFINE r == LinkReq(req[p].op, "write", req[p].links)
    <2>1. ~crossed /\ UNCHANGED <<rules, links>> /\ IsLink(p) /\ req[p].at = "read"
          BY <1>8, Zenon DEF LinkCheck
    <2>2. \/ req' = [req EXCEPT ![p] = None]
          \/ /\ req' = [req EXCEPT ![p] = r]
             /\ req[p].op.on => assertTotalLineCount(rules, 2 + Cardinality(req[p].links))
          BY <1>8 DEF LinkCheck
    <2>3. r.op = req[p].op /\ r.at = "write" /\ r.links = req[p].links
          BY DEF LinkReq
    <2>4. links \ {req[p].op.link} \subseteq req[p].links
          BY <2>1 DEF CapInv, Cap, LinkFits
    <2> HIDE DEF r
    <2>5. CASE req' = [req EXCEPT ![p] = None]
          BY <1>a, <2>1, <2>5
    <2>6. CASE /\ req' = [req EXCEPT ![p] = r]
               /\ req[p].op.on => assertTotalLineCount(rules, 2 + Cardinality(req[p].links))
          BY <1>a, <2>1, <2>3, <2>4, <2>6 DEF IsLink
    <2> QED BY <2>2, <2>5, <2>6
  <1>9. ASSUME NEW p \in Admins, LinkWrite(p) PROVE Cap'
    <2> DEFINE l == req[p].op.link
    <2>1. /\ IsLink(p) /\ req[p].at = "write" /\ req' = [req EXCEPT ![p] = None] /\ rules' = rules
          /\ links' = IF req[p].op.on THEN links \cup {l} ELSE links \ {l}
          BY <1>9 DEF LinkWrite
    <2>2. /\ ~crossed
          /\ req[p].op.on => \A q \in Admins \ {p} :
                                ~(req[q] # None /\ req[q].at \in {"checked", "read", "write"})
          BY <1>9, Zenon DEF LinkWrite
    <2>3. Cap /\ LinkFits(p)
          BY <2>1, <2>2 DEF CapInv, Cap
    <2>4. \A q \in Admins : req'[q] = IF q = p THEN None ELSE req[q]
          BY <1>0, <2>1
    <2>5. Cardinality(Lines(rules)) \in Nat
          BY <1>0, LinesFinite DEF Inv, TypeOK
    <2>6. CASE req[p].op.on
      <3>1. /\ IsFiniteSet(links \ {l}) /\ links' = (links \ {l}) \cup {l} /\ l \notin links \ {l}
            /\ req[p].links \in SUBSET Links
            BY <1>0, <2>1, <2>6, LinksFinite, LinkRequest
      <3>2. Cardinality(links') = Cardinality(links \ {l}) + 1
            BY <3>1, FS_AddElement
      <3>3. /\ Cardinality(links \ {l}) \in Nat /\ Cardinality(req[p].links) \in Nat
            /\ Cardinality(links \ {l}) <= Cardinality(req[p].links)
            BY <2>1, <2>3, <3>1, LinksFinite DEF LinkFits
      <3>4. assertTotalLineCount(rules, 2 + Cardinality(req[p].links))
            BY <2>1, <2>3, <2>6 DEF LinkFits
      <3>5. assertTotalLineCount(rules, 2 + Cardinality(links \ {l}))
            BY <2>5, <3>3, <3>4, FewerInterfaces
      <3>6. 1 + Cardinality(links') = 2 + Cardinality(links \ {l})
            BY <3>2, <3>3
      <3>7. assertTotalLineCount(rules', 1 + Cardinality(links'))
            BY <2>1, <3>5, <3>6
      <3> QED BY <2>2, <2>4, <2>6, <3>7 DEF Cap, RuleFits, LinkFits, IsRule, IsLink
    <2>7. CASE ~req[p].op.on
      <3>1. links' \in SUBSET links /\ links' \subseteq links
            BY <2>1, <2>7
      <3>2. /\ Cardinality(links') \in Nat /\ 1 + Cardinality(links') \in Nat
            /\ 1 + Cardinality(links') <= 1 + Cardinality(links)
            BY <1>0, <1>n, <3>1, LinksFinite
      <3>3. assertTotalLineCount(rules', 1 + Cardinality(links'))
        <4>1. assertTotalLineCount(rules, 1 + Cardinality(links))
              BY <2>3 DEF Cap
        <4> QED BY <1>n, <2>1, <2>5, <3>2, <4>1, FewerInterfaces
      <3>4. ASSUME NEW q \in Admins, IsRule(q), req[q].at = "checked"
            PROVE  assertTotalLineCount(After(req[q].op, rules), 1 + Cardinality(links'))
        <4>1. Cardinality(Lines(After(req[q].op, rules))) \in Nat
              BY <3>4, CheckedFinite
        <4>2. assertTotalLineCount(After(req[q].op, rules), 1 + Cardinality(links))
              BY <2>3, <3>4 DEF Cap, RuleFits
        <4> QED BY <1>n, <3>2, <4>1, <4>2, FewerInterfaces
      <3>5. ASSUME NEW q \in Admins, q # p, IsRule(q)' PROVE RuleFits(q)'
        <4>1. req'[q] = req[q] /\ IsRule(q)
              BY <2>4, <3>5 DEF IsRule
        <4> QED BY <2>1, <3>4, <4>1 DEF RuleFits
      <3>6. ASSUME NEW q \in Admins, q # p, IsLink(q)' PROVE LinkFits(q)'
        <4>1. req'[q] = req[q] /\ IsLink(q)
              BY <2>4, <3>6 DEF IsLink
        <4>2. LinkFits(q)
              BY <2>3, <4>1 DEF Cap
        <4> QED BY <2>1, <3>1, <4>1, <4>2 DEF LinkFits
      <3> QED BY <2>4, <3>3, <3>5, <3>6 DEF Cap, IsRule, IsLink
    <2> QED BY <2>6, <2>7
  <1> QED BY <1>1, <1>2, <1>3, <1>4, <1>5, <1>6, <1>7, <1>8, <1>9 DEF Next, Step

(* buildIngressRestore gets the ruleset that was saved, for any number of     *)
(* administrators, rules and links, whatever requests overlap: it exceeds     *)
(* MAX_LINES_TOTAL by at most the alias lines, unless a link was written      *)
(* between the check and the write of another request or a rule change was    *)
(* committed between those of a link.                                         *)
THEOREM AlwaysBuildable == Spec => []Buildable
  <1>1. Inv /\ CapInv => Buildable
    <2> SUFFICES ASSUME Inv, CapInv, ~crossed
                 PROVE  ruleCount <= MAX_LINES_TOTAL
                                       + Cardinality(AliasLines(rules)) * Cardinality(links)
        BY DEF Buildable
    <2>1. Cardinality(links) \in Nat /\ Cardinality(Lines(rules)) \in Nat
          BY LinksFinite, LinesFinite DEF Inv, TypeOK
    <2>2. Cardinality(AliasLines(rules)) \in Nat
          BY LinesFinite, AliasFinite DEF Inv, TypeOK
    <2>3. Cardinality(Lines(rules)) * (1 + Cardinality(links)) <= MAX_LINES_TOTAL
          BY DEF CapInv, Cap, assertTotalLineCount, LineCount
    <2>4. /\ Cardinality(Lines(rules)) * (1 + Cardinality(links)) \in Nat
          /\ Cardinality(AliasLines(rules)) * Cardinality(links) \in Nat /\ MAX_LINES_TOTAL \in Nat
          BY <2>1, <2>2, ConstantsAssumption
    <2> QED BY <2>3, <2>4 DEF ruleCount, LineCount
  <1>2. Inv /\ CapInv /\ [Next]_vars => CapInv'
        BY CapNext
  <1> QED BY <1>1, <1>2, CapInit, InvInit, InvNext, PTL DEF Spec
=============================================================================
