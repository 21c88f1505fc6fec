------------------------- MODULE GatewayConfigProofs -------------------------
(***************************************************************************)
(* Proofs about GatewayConfig, for any set of configurations, rules and     *)
(* networks, any number of faults of every kind, and a hub that may or may  *)
(* not return to earlier configurations.                                    *)
(*                                                                         *)
(* The refinement rests on what holds when apply_config writes its hash:    *)
(* conf, peers, routes, record and rules are those of the configuration     *)
(* fetched.  ApplyInv says so for every step on the way there; AtLeastInv   *)
(* and AtMostInv say what is known of the live rules between two attempts,  *)
(* as long as the history does not doubt it.                                *)
(***************************************************************************)
EXTENDS GatewayConfig, TLAPS

Maybe == Configs \cup {None}
Files == Maybe \cup {Broken}
Applied1 == {"hooks", "postup", "down", "record", "cp", "clean", "hash"}
\* the new rules are in place; between the old ones and the new ones
Swapped == {"down", "record", "cp", "clean", "hash"}
Swapping == {"postup"} \cup Swapped

\* Types, as far as the steps need them.
DataOK ==
    /\ wanted \in Maybe /\ got \in Maybe /\ shown \in Maybe /\ hash \in Maybe
    /\ got # None => wanted # None
    /\ conf \in Files /\ rec \in Files /\ down \in Files
    /\ peers \in Maybe
    /\ rules \in [Rules -> Nat]
    /\ unsure \subseteq {"lacking", "extra", "routes"}
FlagOK == up \in BOOLEAN

\* What each step of apply_config finds.
ApplyInv ==
    /\ pc \in Applied1 => up /\ peers = got /\ got \in Configs
    /\ pc \in Applied1 => conf \in Configs
    /\ pc \in {"clean", "hash"} => conf = got
    /\ pc = "wgup" => conf = got /\ got \in Configs /\ rec = None /\ ~up
    /\ pc = "hash" => rec = None
    /\ pc = "hash" /\ "routes" \notin unsure => routes = NetsOf[got]

\* All rules of the hooks h are live; no others are, and none twice.
AtLeast(h) == \A x \in RulesIn(h) : rules[x] > 0
AtMost(h) == \A x \in Rules : rules[x] <= IF x \in RulesIn(h) THEN 1 ELSE 0

\* Between two attempts the rules of the recorded PostUp are live, after the swap the new ones.
AtLeastInv ==
    "lacking" \notin unsure =>
       /\ pc \in Swapped => AtLeast(got)
       /\ up /\ pc \notin Swapping => AtLeast(UpHooks)

\* Between two attempts the recorded PostDown undoes all that is live.
AtMostInv ==
    "extra" \notin unsure =>
       /\ ~up => AtMost(None)
       /\ pc = "postup" => AtMost(None)
       /\ pc \in Swapped => AtMost(got)
       /\ up /\ pc \notin Swapping => AtMost(DownHooks) /\ SameHooks(UpHooks, DownHooks)

IInv == FlagOK /\ DataOK /\ ApplyInv /\ AtLeastInv /\ AtMostInv

-----------------------------------------------------------------------------
(* The operators on rules. *)

Counts == [Rules -> Nat]

\* The rules in a file are rules; None and Broken are no configurations.
LEMMA NoConfigs ==
    /\ None \notin Configs /\ Broken \notin Configs /\ None # Broken
    /\ Local \in Configs /\ First \in Configs
BY GatewayAssumption DEF GatewayAssumption

\* A file that is missing or empty has no rules, that of a configuration its rules.
LEMMA RulesInFiles ==
    /\ RulesIn(None) = {} /\ RulesIn(Broken) = {}
    /\ \A h : RulesIn(h) \subseteq Rules
    /\ \A c \in Configs : RulesIn(c) = RulesOf[c] /\ NetsIn(c) = NetsOf[c]
<1>1. \A c \in Configs : RulesOf[c] \subseteq Rules
  BY DEF Rules
<1> QED
  BY <1>1, NoConfigs DEF RulesIn, NetsIn

\* dedupe_iface_rules takes no rule away entirely, and adds none.
LEMMA Dedupe ==
    ASSUME NEW r \in Counts
    PROVE  /\ dedupe_iface_rules(r) \in Counts
           /\ \A x \in Rules : r[x] > 0 => dedupe_iface_rules(r)[x] > 0
           /\ \A x \in Rules : dedupe_iface_rules(r)[x] <= r[x]
BY DEF dedupe_iface_rules, Counts

\* PostUp adds one copy of each of its rules.
LEMMA Adding ==
    ASSUME NEW r \in Counts, NEW some
    PROVE  /\ Added(r, some) \in Counts
           /\ \A x \in Rules : Added(r, some)[x] = IF x \in some THEN r[x] + 1 ELSE r[x]
BY DEF Added, Counts

\* PostDown removes one copy of each of its rules.
LEMMA Removing ==
    ASSUME NEW r \in Counts, NEW some
    PROVE  /\ Removed(r, some) \in Counts
           /\ \A x \in Rules : Removed(r, some)[x] <= r[x]
           /\ \A x \in Rules \cap some : r[x] <= 1 => Removed(r, some)[x] = 0
BY DEF Removed, Counts

\* What a cut or a failed apply does not doubt is as the recorded hooks say.
LEMMA NoDoubts ==
    ASSUME NEW c
    PROVE  /\ "lacking" \notin Doubts(c) => SameHooks(UpHooks', c)
           /\ "extra" \notin Doubts(c) => SameHooks(UpHooks', c) /\ SameHooks(DownHooks', c)
           /\ Doubts(c) \subseteq {"lacking", "extra"}
BY DEF Doubts, UpHooks, DownHooks

-----------------------------------------------------------------------------
(* The invariant, part by part. *)

\* The interface exists or not.
LEMMA FlagNext == ASSUME FlagOK, [Next]_vars PROVE FlagOK'
<1> USE DEF FlagOK, hubvars, live, disk, HasKey
<1>1. CASE Want
  BY <1>1, Zenon DEF Want
<1>2. CASE Start
  BY <1>2, Zenon DEF Start, sync_routes, Fault, NoFault
<1>3. CASE Fetch
  BY <1>3, Zenon DEF Fetch
<1>4. CASE Settled
  BY <1>4, Zenon DEF Settled, NoFault, Fault
<1>5. CASE NoPrivateKey
  BY <1>5, Zenon DEF NoPrivateKey, Applying, Failed
<1>6. CASE Syncconf
  BY <1>6, Zenon DEF Syncconf, Applying, Failed, Fault, NoFault
<1>7. CASE PostDown
  BY <1>7, Zenon DEF PostDown, Fault, NoFault
<1>8. CASE NoSwap
  BY <1>8, Zenon DEF NoSwap
<1>9. CASE PostUp
  BY <1>9, Zenon DEF PostUp, Fault, NoFault
<1>10. CASE RecordDown
  BY <1>10, Zenon DEF RecordDown, Fault, NoFault
<1>11. CASE Record
  BY <1>11, Zenon DEF Record, Fault, NoFault
<1>12. CASE CopyConf
  BY <1>12, Zenon DEF CopyConf, CopyFails, Failed, Fault, NoFault
<1>13. CASE Clean
  BY <1>13, Zenon DEF Clean, sync_routes, Fault, NoFault
<1>14. CASE CopyConfDown
  BY <1>14, Zenon DEF CopyConfDown, Applying, CopyFails, Failed, Fault, NoFault
<1>15. CASE WgQuickUp
  BY <1>15, Zenon DEF WgQuickUp, BringUp, Fault, NoFault
<1>16. CASE WriteHash
  BY <1>16, Zenon DEF WriteHash, Fault, NoFault
<1>17. CASE Heartbeat
  BY <1>17, Zenon DEF Heartbeat, Fault, NoFault
<1>18. CASE Kill
  BY <1>18, Zenon DEF Kill, Fault
<1>19. CASE KillInside
  BY <1>19, Zenon DEF KillInside, Fault
<1>20. CASE Reboot
  BY <1>20, Zenon DEF Reboot, Fault
<1>21. CASE UNCHANGED vars
  BY <1>21, Zenon DEF vars
<1> QED
  BY <1>1, <1>2, <1>3, <1>4, <1>5, <1>6, <1>7, <1>8, <1>9, <1>10, <1>11,
     <1>12, <1>13, <1>14, <1>15, <1>16, <1>17, <1>18, <1>19, <1>20, <1>21
     DEF Next, Agent

\* The data keep their types.
LEMMA DataNext == ASSUME IInv, [Next]_vars PROVE DataOK'
<1> USE NoConfigs, Dedupe, Adding, Removing
    DEF IInv, DataOK, ApplyInv, Maybe, Files, Applied1, Counts, hubvars, live, disk, HasKey
<1>1. CASE Want
  BY <1>1 DEF Want, Goto
<1>2. CASE Start
  BY <1>2 DEF Start, sync_routes, Fault, NoFault, Goto
<1>3. CASE Fetch
  BY <1>3 DEF Fetch, Goto
<1>4. CASE Settled
  BY <1>4 DEF Settled, NoFault, Fault, Goto
<1>5. CASE NoPrivateKey
  BY <1>5 DEF NoPrivateKey, Applying, Failed, Goto
<1>6. CASE Syncconf
  BY <1>6 DEF Syncconf, Applying, Failed, Fault, NoFault, Goto
<1>7. CASE PostDown
  BY <1>7 DEF PostDown, Fault, NoFault, Goto
<1>8. CASE NoSwap
  BY <1>8 DEF NoSwap, Goto
<1>9. CASE PostUp
  <2>1. \E some : rules' = Added(rules, some)
    BY <1>9, Zenon DEF PostUp
  <2>2. rules' \in Counts
    BY <2>1
  <2>3. /\ unsure' \subseteq {"lacking", "extra", "routes"}
        /\ UNCHANGED << hubvars, got, disk, up, peers >>
    BY <1>9 DEF PostUp
  <2> QED
    BY <2>2, <2>3
<1>10. CASE RecordDown
  BY <1>10 DEF RecordDown, Fault, NoFault, Goto
<1>11. CASE Record
  BY <1>11 DEF Record, Fault, NoFault, Goto
<1>12. CASE CopyConf
  <2>1. /\ conf' \in {conf, got, Broken} /\ rules' \in {rules, dedupe_iface_rules(rules)}
        /\ unsure' \subseteq unsure \cup Doubts(got)
        /\ UNCHANGED << hubvars, got, hash, rec, down, up, peers, routes >>
    BY <1>12 DEF CopyConf, CopyFails, Failed, Fault, NoFault, Goto
  <2> QED
    BY <2>1, NoDoubts
<1>13. CASE Clean
  BY <1>13 DEF Clean, sync_routes, Fault, NoFault, Goto
<1>14. CASE CopyConfDown
  BY <1>14 DEF CopyConfDown, Applying, CopyFails, Failed, Fault, NoFault, Goto
<1>15. CASE WgQuickUp
  <2>1. rules' = rules \/ \E some : rules' = Added(rules, some)
    BY <1>15, Zenon DEF WgQuickUp, BringUp
  <2>2. rules' \in Counts
    BY <2>1
  <2>3. /\ unsure' \subseteq {"lacking", "extra", "routes"} /\ peers' \in {peers, conf} /\ pc = "wgup"
        /\ UNCHANGED << hubvars, got, disk >>
    BY <1>15 DEF WgQuickUp, BringUp
  <2> QED
    BY <2>2, <2>3
<1>16. CASE WriteHash
  BY <1>16 DEF WriteHash, Fault, NoFault, Goto
<1>17. CASE Heartbeat
  BY <1>17 DEF Heartbeat, Fault, NoFault, Goto
<1>18. CASE Kill
  <2>1. /\ unsure' \subseteq unsure \cup {"lacking"} \cup Doubts(got)
        /\ UNCHANGED << hubvars, got, disk, live >>
    BY <1>18 DEF Kill
  <2> QED
    BY <2>1, NoDoubts
<1>19. CASE KillInside
  <2>1. \/ rules' = rules
        \/ \E some : rules' = Added(rules, some)
        \/ \E some : rules' = Removed(rules, some)
    BY <1>19, Zenon DEF KillInside
  <2>2. rules' \in Counts
    BY <2>1
  <2>3. /\ UNCHANGED << hubvars, got >>
        /\ conf' \in {conf, Broken} /\ rec' \in {rec, None, Broken} /\ down' \in {down, Broken}
        /\ hash' \in {hash, None} /\ peers' \in {peers, None, conf}
        /\ pc = "wgup" \/ peers' = peers
    BY <1>19 DEF KillInside
  <2>4. unsure' \subseteq unsure \cup {"lacking"} \cup Doubts(got)
    BY <1>19 DEF KillInside
  <2> QED
    BY <2>2, <2>3, <2>4, NoDoubts
<1>20. CASE Reboot
  <2>1. /\ unsure' = Doubts(conf) /\ peers' = (IF HasKey THEN conf ELSE None)
        /\ rules' = [x \in Rules |-> IF x \in RulesIn(conf) THEN 1 ELSE 0]
        /\ UNCHANGED << hubvars, got, disk >>
    BY <1>20 DEF Reboot
  <2> QED
    BY <2>1, NoDoubts
<1>21. CASE UNCHANGED vars
  BY <1>21 DEF vars, Goto
<1> QED
  BY <1>1, <1>2, <1>3, <1>4, <1>5, <1>6, <1>7, <1>8, <1>9, <1>10, <1>11,
     <1>12, <1>13, <1>14, <1>15, <1>16, <1>17, <1>18, <1>19, <1>20, <1>21
     DEF Next, Agent

\* Each step of apply_config finds what its predecessors have left.
LEMMA ApplyNext == ASSUME IInv, [Next]_vars PROVE ApplyInv'
<1> USE NoConfigs, RulesInFiles DEF IInv, DataOK, ApplyInv, Maybe, Files, Applied1, hubvars, live, disk, HasKey
<1>1. CASE Want
  BY <1>1 DEF Want, Goto
<1>2. CASE Start
  BY <1>2 DEF Start, sync_routes, Fault, NoFault, Goto
<1>3. CASE Fetch
  BY <1>3 DEF Fetch, Goto
<1>4. CASE Settled
  BY <1>4 DEF Settled, NoFault, Fault, Goto
<1>5. CASE NoPrivateKey
  BY <1>5 DEF NoPrivateKey, Applying, Failed, Goto
<1>6. CASE Syncconf
  BY <1>6 DEF Syncconf, Applying, Failed, Fault, NoFault, Goto
<1>7. CASE PostDown
  BY <1>7 DEF PostDown, Fault, NoFault, Goto
<1>8. CASE NoSwap
  BY <1>8 DEF NoSwap, Goto
<1>9. CASE PostUp
  BY <1>9 DEF PostUp, Fault, NoFault, Goto
<1>10. CASE RecordDown
  BY <1>10 DEF RecordDown, Fault, NoFault, Goto
<1>11. CASE Record
  BY <1>11 DEF Record, Fault, NoFault, Goto
<1>12. CASE CopyConf
  BY <1>12 DEF CopyConf, CopyFails, Failed, Fault, NoFault, Goto
<1>13. CASE Clean
  BY <1>13 DEF Clean, sync_routes, Fault, NoFault, Goto
<1>14. CASE CopyConfDown
  BY <1>14 DEF CopyConfDown, Applying, CopyFails, Failed, Fault, NoFault, Goto
<1>15. CASE WgQuickUp
  BY <1>15 DEF WgQuickUp, BringUp, Fault, NoFault, Goto
<1>16. CASE WriteHash
  BY <1>16 DEF WriteHash, Fault, NoFault, Goto
<1>17. CASE Heartbeat
  BY <1>17 DEF Heartbeat, Fault, NoFault, Goto
<1>18. CASE Kill
  BY <1>18 DEF Kill, Fault, Goto
<1>19. CASE KillInside
  BY <1>19 DEF KillInside, Fault, Goto
<1>20. CASE Reboot
  BY <1>20 DEF Reboot, Fault, Goto
<1>21. CASE UNCHANGED vars
  BY <1>21 DEF vars, Goto
<1> QED
  BY <1>1, <1>2, <1>3, <1>4, <1>5, <1>6, <1>7, <1>8, <1>9, <1>10, <1>11,
     <1>12, <1>13, <1>14, <1>15, <1>16, <1>17, <1>18, <1>19, <1>20, <1>21
     DEF Next, Agent

\* A retry finds the rules of the recorded PostUp, or swaps them.
LEMMA AtLeastNext == ASSUME IInv, [Next]_vars PROVE AtLeastInv'
<1> USE NoConfigs, RulesInFiles, Dedupe, Adding, Removing
    DEF IInv, DataOK, ApplyInv, AtLeastInv, AtLeast, Maybe, Files, Applied1, Swapped, Swapping, Counts,
        hubvars, live, disk, HasKey, UpHooks
<1>1. CASE Want
  BY <1>1 DEF Want, Goto
<1>2. CASE Start
  BY <1>2 DEF Start, sync_routes, Fault, NoFault, Goto
<1>3. CASE Fetch
  BY <1>3 DEF Fetch, Goto
<1>4. CASE Settled
  BY <1>4 DEF Settled, NoFault, Fault, Goto
<1>5. CASE NoPrivateKey
  BY <1>5 DEF NoPrivateKey, Applying, Failed, Goto
<1>6. CASE Syncconf
  BY <1>6 DEF Syncconf, Applying, Failed, Fault, NoFault, Goto
<1>7. CASE PostDown
  BY <1>7 DEF PostDown, Fault, NoFault, Goto
<1>8. CASE NoSwap
  BY <1>8 DEF NoSwap, Swap, SameHooks, Goto
<1>9. CASE PostUp
  BY <1>9 DEF PostUp, Fault, NoFault, Goto
<1>10. CASE RecordDown
  BY <1>10 DEF RecordDown, Fault, NoFault, Goto
<1>11. CASE Record
  BY <1>11 DEF Record, Fault, NoFault, Goto
<1>12. CASE CopyConf
  <2>1. CASE pc' = "clean"
    BY <1>12, <2>1 DEF CopyConf, CopyFails, Failed, Goto
  <2>2. CASE pc' = "beat"
    <3>1. /\ unsure' = unsure \cup Doubts(got) /\ pc = "cp"
          /\ rules' = dedupe_iface_rules(rules) \/ rules' = rules
      BY <1>12, <2>2 DEF CopyConf, CopyFails, Failed, Goto
    <3>2. ASSUME "lacking" \notin unsure' PROVE AtLeast(got) /\ RulesIn(UpHooks') = RulesIn(got)
      BY <3>1, <3>2, NoDoubts DEF SameHooks
    <3> QED
      BY <2>2, <3>1, <3>2
  <2> QED
    BY <1>12, <2>1, <2>2 DEF CopyConf, CopyFails, Failed, Goto
<1>13. CASE Clean
  BY <1>13 DEF Clean, sync_routes, Fault, NoFault, Goto
<1>14. CASE CopyConfDown
  BY <1>14 DEF CopyConfDown, Applying, CopyFails, Failed, Fault, NoFault, Goto
<1>15. CASE WgQuickUp
  BY <1>15 DEF WgQuickUp, BringUp, Fault, NoFault, Goto
<1>16. CASE WriteHash
  BY <1>16 DEF WriteHash, Fault, NoFault, Goto
<1>17. CASE Heartbeat
  BY <1>17 DEF Heartbeat, Fault, NoFault, Goto
<1>18. CASE Kill
  <2>1. UNCHANGED << got, disk, live >> /\ pc' = "start"
    BY <1>18 DEF Kill, Goto
  <2>2. CASE pc \in Swapping
    <3>1. pc # "hash" => Doubts(got) \subseteq unsure' /\ (pc = "postup" => "lacking" \in unsure')
      BY <1>18, <2>2 DEF Kill
    <3>2. ASSUME "lacking" \notin unsure', pc # "hash" PROVE RulesIn(UpHooks') = RulesIn(got) /\ pc # "postup"
      BY <3>1, <3>2, NoDoubts DEF SameHooks
    <3>3. unsure \subseteq unsure'
      BY <1>18 DEF Kill
    <3> QED
      BY <2>1, <2>2, <3>2, <3>3
  <2>3. CASE pc \notin Swapping
    <3>1. unsure' = unsure
      BY <1>18, <2>3 DEF Kill
    <3> QED
      BY <2>1, <2>3, <3>1
  <2> QED
    BY <2>2, <2>3
<1>19. CASE KillInside
  <2> SUFFICES ASSUME "lacking" \notin unsure', up' PROVE \A x \in RulesIn(UpHooks') : rules'[x] > 0
    BY <1>19 DEF KillInside, Goto
  <2>1. pc \notin {"hooks", "postup", "wgup"}
    <3>1. /\ pc \in {"hooks", "wgup"} => unsure' = unsure \cup {"lacking"}
          /\ pc = "postup" => unsure' = unsure \cup {"lacking"} \cup Doubts(got)
      BY <1>19 DEF KillInside
    <3> QED
      BY <3>1
  <2>2. /\ pc \in {"down", "record", "cp", "clean", "hash"} /\ rules' = rules
        /\ unsure \subseteq unsure'
        /\ pc \in {"down", "record", "cp"} => Doubts(got) \subseteq unsure'
        /\ pc = "clean" => rec' = None /\ conf' = conf
        /\ pc = "hash" => rec' = rec /\ conf' = conf
    BY <1>19, <2>1 DEF KillInside
  <2>3. AtLeast(got)
    BY <2>2
  <2>4. RulesIn(UpHooks') = RulesIn(got)
    BY <2>2, NoDoubts DEF SameHooks
  <2> QED
    BY <2>2, <2>3, <2>4
<1>20. CASE Reboot
  <2>1. unsure' = Doubts(conf) /\ rules' = [x \in Rules |-> IF x \in RulesIn(conf) THEN 1 ELSE 0] /\ pc' = "start"
    BY <1>20 DEF Reboot, Goto
  <2>2. "lacking" \notin unsure' => RulesIn(UpHooks') = RulesIn(conf)
    BY <2>1, NoDoubts DEF SameHooks
  <2> QED
    BY <2>1, <2>2
<1>21. CASE UNCHANGED vars
  BY <1>21 DEF vars, Goto
<1> QED
  BY <1>1, <1>2, <1>3, <1>4, <1>5, <1>6, <1>7, <1>8, <1>9, <1>10, <1>11,
     <1>12, <1>13, <1>14, <1>15, <1>16, <1>17, <1>18, <1>19, <1>20, <1>21
     DEF Next, Agent

\* As long as no rule is left over, the recorded PostDown removes all of them.
LEMMA AtMostNext == ASSUME IInv, [Next]_vars PROVE AtMostInv'
<1> USE NoConfigs, RulesInFiles, Dedupe, Adding, Removing
    DEF IInv, DataOK, ApplyInv, AtMostInv, AtMost, Maybe, Files, Applied1, Swapped, Swapping, Counts,
        hubvars, live, disk, HasKey, UpHooks, DownHooks
<1>1. CASE Want
  BY <1>1 DEF Want, Goto
<1>2. CASE Start
  BY <1>2 DEF Start, sync_routes, Fault, NoFault, Goto
<1>3. CASE Fetch
  BY <1>3 DEF Fetch, Goto
<1>4. CASE Settled
  BY <1>4 DEF Settled, NoFault, Fault, Goto
<1>5. CASE NoPrivateKey
  BY <1>5 DEF NoPrivateKey, Applying, Failed, Goto
<1>6. CASE Syncconf
  BY <1>6 DEF Syncconf, Applying, Failed, Fault, NoFault, Goto
<1>7. CASE PostDown
  BY <1>7 DEF PostDown, Fault, NoFault, Goto
<1>8. CASE NoSwap
  BY <1>8 DEF NoSwap, Swap, SameHooks, Goto
<1>9. CASE PostUp
  BY <1>9 DEF PostUp, Fault, NoFault, Goto
<1>10. CASE RecordDown
  BY <1>10 DEF RecordDown, Fault, NoFault, Goto
<1>11. CASE Record
  BY <1>11 DEF Record, Fault, NoFault, Goto
<1>12. CASE CopyConf
  <2>1. CASE pc' = "clean"
    BY <1>12, <2>1 DEF CopyConf, CopyFails, Failed, Goto
  <2>2. CASE pc' = "beat"
    <3>1. /\ unsure' = unsure \cup Doubts(got) /\ pc = "cp" /\ UNCHANGED << got, up >>
          /\ rules' = dedupe_iface_rules(rules) \/ rules' = rules
      BY <1>12, <2>2 DEF CopyConf, CopyFails, Failed, Goto
    <3>2. ASSUME "extra" \notin unsure'
          PROVE  AtMost(got) /\ RulesIn(DownHooks') = RulesIn(got) /\ SameHooks(UpHooks', DownHooks')
      BY <3>1, <3>2, NoDoubts DEF SameHooks
    <3>3. ASSUME AtMost(got) PROVE \A x \in Rules : rules'[x] <= IF x \in RulesIn(got) THEN 1 ELSE 0
      BY <3>1, <3>3
    <3> QED
      BY <2>2, <3>1, <3>2, <3>3
  <2> QED
    BY <1>12, <2>1, <2>2 DEF CopyConf, CopyFails, Failed, Goto
<1>13. CASE Clean
  BY <1>13 DEF Clean, sync_routes, Fault, NoFault, Goto
<1>14. CASE CopyConfDown
  BY <1>14 DEF CopyConfDown, Applying, CopyFails, Failed, Fault, NoFault, Goto
<1>15. CASE WgQuickUp
  BY <1>15 DEF WgQuickUp, BringUp, Fault, NoFault, Goto
<1>16. CASE WriteHash
  <2>1. /\ pc = "hash" /\ rules' \in {rules, dedupe_iface_rules(rules)}
        /\ pc' \in {"beat", "start"} /\ UNCHANGED << got, conf, rec, down, up, unsure >>
    BY <1>16 DEF WriteHash, Goto
  <2>2. UpHooks' = got /\ DownHooks' = got /\ up
    BY <2>1
  <2>3. ASSUME AtMost(got) PROVE \A x \in Rules : rules'[x] <= IF x \in RulesIn(got) THEN 1 ELSE 0
    BY <2>1, <2>3
  <2> QED
    BY <2>1, <2>2, <2>3 DEF SameHooks
<1>17. CASE Heartbeat
  BY <1>17 DEF Heartbeat, Fault, NoFault, Goto
<1>18. CASE Kill
  <2>1. UNCHANGED << got, disk, live >> /\ pc' = "start"
    BY <1>18 DEF Kill, Goto
  <2>2. CASE pc \in Swapping
    <3>1. pc # "hash" => Doubts(got) \subseteq unsure'
      BY <1>18, <2>2 DEF Kill
    <3>2. ASSUME "extra" \notin unsure', pc # "hash"
          PROVE  SameHooks(UpHooks', DownHooks') /\ RulesIn(DownHooks') = RulesIn(got)
      BY <3>1, <3>2, NoDoubts DEF SameHooks
    <3>3. unsure \subseteq unsure'
      BY <1>18 DEF Kill
    <3>4. ASSUME "extra" \notin unsure PROVE \A x \in Rules : rules[x] <= IF x \in RulesIn(got) THEN 1 ELSE 0
      BY <2>2, <3>4
    <3> QED
      BY <2>1, <2>2, <3>2, <3>3, <3>4 DEF SameHooks
  <2>3. CASE pc \notin Swapping
    <3>1. unsure' = unsure
      BY <1>18, <2>3 DEF Kill
    <3> QED
      BY <2>1, <2>3, <3>1
  <2> QED
    BY <2>2, <2>3
<1>19. CASE KillInside
  <2> SUFFICES ASSUME "extra" \notin unsure'
               PROVE  /\ up' /\ SameHooks(UpHooks', DownHooks')
                      /\ \A x \in Rules : rules'[x] <= IF x \in RulesIn(DownHooks') THEN 1 ELSE 0
    BY <1>19 DEF KillInside, Goto
  <2>1. CASE pc = "hooks"
    <3>1. /\ \E some : rules' = Removed(rules, some)
          /\ UNCHANGED << disk, up >> /\ "extra" \notin unsure
      BY <1>19, <2>1 DEF KillInside
    <3>2. AtMost(DownHooks) /\ SameHooks(UpHooks, DownHooks) /\ up
      BY <2>1, <3>1
    <3>3. \A x \in Rules : rules'[x] <= rules[x]
      BY <3>1
    <3>4. rules' \in Counts
      BY <3>1
    <3> QED
      BY <3>1, <3>2, <3>3, <3>4 DEF SameHooks
  <2>2. CASE pc \in {"postup", "wgup"}
    <3>1. PICK some : rules' = Added(rules, some) /\ some \subseteq RulesIn(got)
      BY <1>19, <2>2 DEF KillInside
    <3>2. /\ unsure \subseteq unsure' /\ up'
          /\ pc = "postup" => Doubts(got) \subseteq unsure'
          /\ pc = "wgup" => UNCHANGED disk
      BY <1>19, <2>2 DEF KillInside
    <3>3. AtMost(None)
      BY <2>2, <3>2
    <3>4. \A x \in Rules : rules'[x] <= IF x \in RulesIn(got) THEN 1 ELSE 0
      BY <3>1, <3>3
    <3>5. SameHooks(UpHooks', got) /\ SameHooks(DownHooks', got)
      BY <2>2, <3>2, NoDoubts DEF SameHooks
    <3> QED
      BY <3>2, <3>4, <3>5 DEF SameHooks
  <2>3. CASE pc \in {"down", "record", "cp", "clean", "hash"}
    <3>1. /\ UNCHANGED << rules, up, got >> /\ unsure \subseteq unsure'
          /\ pc \in {"down", "record", "cp"} => Doubts(got) \subseteq unsure'
          /\ pc = "clean" => rec' = None /\ conf' = conf
          /\ pc = "hash" => rec' = rec /\ conf' = conf
      BY <1>19, <2>3 DEF KillInside
    <3>2. AtMost(got) /\ up
      BY <2>3, <3>1
    <3>3. SameHooks(UpHooks', got) /\ SameHooks(DownHooks', got)
      BY <2>3, <3>1, NoDoubts DEF SameHooks
    <3> QED
      BY <3>1, <3>2, <3>3 DEF SameHooks
  <2>4. pc \in {"hooks", "postup", "wgup", "down", "record", "cp", "clean", "hash"}
    BY <1>19, Zenon DEF KillInside
  <2> QED
    BY <2>1, <2>2, <2>3, <2>4
<1>20. CASE Reboot
  <2>1. /\ unsure' = Doubts(conf) /\ pc' = "start" /\ up' = HasKey
        /\ rules' = [x \in Rules |-> IF x \in RulesIn(conf) THEN 1 ELSE 0]
    BY <1>20 DEF Reboot, Goto
  <2>2. "extra" \notin unsure' =>
            SameHooks(UpHooks', DownHooks') /\ RulesIn(DownHooks') = RulesIn(conf)
    BY <2>1, NoDoubts DEF SameHooks
  <2>3. \A x \in Rules : rules'[x] <= IF x \in RulesIn(conf) THEN 1 ELSE 0
    BY <2>1
  <2>4. CASE up'
    BY <2>1, <2>2, <2>3, <2>4
  <2>5. CASE ~up'
    <3>1. RulesIn(conf) = {} /\ RulesIn(None) = {}
      BY <2>1, <2>5
    <3> QED
      BY <2>1, <2>3, <2>5, <3>1
  <2> QED
    BY <2>4, <2>5
<1>21. CASE UNCHANGED vars
  BY <1>21 DEF vars, Goto
<1> QED
  BY <1>1, <1>2, <1>3, <1>4, <1>5, <1>6, <1>7, <1>8, <1>9, <1>10, <1>11,
     <1>12, <1>13, <1>14, <1>15, <1>16, <1>17, <1>18, <1>19, <1>20, <1>21
     DEF Next, Agent

\* A gateway is installed with its own conf up, or with none.
LEMMA Initially == Init => IInv
<1> SUFFICES ASSUME Init PROVE IInv
  OBVIOUS
<1>1. FlagOK
  BY Zenon DEF Init, FlagOK
<1>2. DataOK /\ ApplyInv
  BY NoConfigs DEF Init, DataOK, ApplyInv, Maybe, Files, Applied1
<1>3. UpHooks = conf /\ DownHooks = conf /\ pc = "start" /\ unsure = {}
  BY Zenon DEF Init, UpHooks, DownHooks
<1>4. \A x \in Rules : rules[x] = IF up /\ x \in RulesIn(conf) THEN 1 ELSE 0
  BY NoConfigs, RulesInFiles DEF Init
<1>5. AtLeastInv
  BY <1>3, <1>4, RulesInFiles DEF AtLeastInv, AtLeast, Swapped, Swapping
<1>6. AtMostInv
  BY <1>1, <1>3, <1>4, RulesInFiles DEF FlagOK, AtMostInv, AtMost, SameHooks, Swapped, Swapping
<1> QED
  BY <1>1, <1>2, <1>5, <1>6 DEF IInv

\* The invariant holds in every state of the loop.
LEMMA Inductive == Spec => []IInv
<1>1. IInv /\ [Next]_vars => IInv'
  <2> SUFFICES ASSUME IInv, [Next]_vars PROVE IInv'
    OBVIOUS
  <2>1. FlagOK'
    BY FlagNext DEF IInv
  <2> QED
    BY <2>1, DataNext, ApplyNext, AtLeastNext, AtMostNext DEF IInv
<1> QED
  BY <1>1, Initially, PTL DEF Spec
-----------------------------------------------------------------------------
(* What the loop promises. *)

\* Conf, hash, record and replies hold configurations, and rules are counted, in
\* every state of the loop (TypeOK).
THEOREM TypeCorrect == Spec => []TypeOK
<1>1. IInv => TypeOK
  BY DEF IInv, FlagOK, DataOK, TypeOK, Maybe, Files
<1> QED
  BY <1>1, Inductive, PTL

\* After failed attempts and retries of apply_config no rule of the conf is missing, left
\* over or doubled, unless commands of a hook were lost or a swap was cut short (RulesExact).
THEOREM ExactAlways == Spec => []RulesExact
<1>1. IInv => RulesExact
  <2> SUFFICES ASSUME IInv, pc = "poll", up, HasKey, rec = None PROVE RulesExact!2
    BY DEF RulesExact
  <2>1. conf \in Configs /\ RulesIn(conf) = RulesOf[conf] /\ UpHooks = conf /\ DownHooks = conf
    BY NoConfigs, RulesInFiles DEF IInv, DataOK, HasKey, Maybe, Files, UpHooks, DownHooks
  <2>2. "lacking" \notin unsure => \A x \in RulesOf[conf] : rules[x] > 0
    BY <2>1 DEF IInv, AtLeastInv, AtLeast, Swapping, Swapped
  <2>3. "extra" \notin unsure => \A x \in Rules : rules[x] <= IF x \in RulesOf[conf] THEN 1 ELSE 0
    BY <2>1 DEF IInv, AtMostInv, AtMost, Swapping, Swapped
  <2> QED
    BY <2>2, <2>3
<1> QED
  BY <1>1, Inductive, PTL

\* What is live in all its parts is a configuration, or nothing.
LEMMA RunningType == ASSUME DataOK' PROVE Running' \in Maybe
BY DEF DataOK, Running, RunningBut, HasKey, Maybe, Files

\* When apply_config writes the hash, the configuration it writes runs, and still
\* runs after the rules that are doubled are removed.
LEMMA HashRuns ==
    ASSUME IInv, WriteHash, hash' = got
    PROVE  /\ Running = got /\ got # None
           /\ Running' = got
<1> USE NoConfigs DEF IInv, DataOK, Maybe, Applied1
<1>1. /\ up /\ peers = got /\ got \in Configs /\ conf = got /\ rec = None
      /\ "routes" \notin unsure => routes = NetsOf[got]
  BY DEF WriteHash, ApplyInv
<1>2. /\ rules' = dedupe_iface_rules(rules) \/ rules' = rules
      /\ UNCHANGED << up, peers, conf, rec, routes, unsure >>
  BY DEF WriteHash
<1>3. "lacking" \in unsure \/ \A x \in RulesOf[got] : rules[x] > 0
  BY <1>1, RulesInFiles DEF WriteHash, AtLeastInv, AtLeast, Swapped
<1>4. "lacking" \in unsure \/ \A x \in RulesOf[got] : rules'[x] > 0
  BY <1>1, <1>2, <1>3, Dedupe, RulesInFiles DEF Counts
<1> QED
  BY <1>1, <1>2, <1>3, <1>4 DEF Running, RunningBut, HasKey

\* The loop implements AppliedConfig: it records a hash only while the peers, the
\* rules, the routes and the conf of that configuration are all in place, but for rules
\* and routes whose commands were lost and not repeated since, and the hub is told no
\* other hash than the recorded one (ImplementsApplied).
THEOREM Implements == Spec => ImplementsApplied
<1>1. Init => Applied!Init
  BY NoConfigs DEF Init, Applied!Init, Applied!Maybe, Running, RunningBut, HasKey
<1>2. IInv /\ IInv' /\ [Next]_vars => [Applied!Next]_(Applied!vars)
  <2> SUFFICES ASSUME IInv, IInv', [Next]_vars
               PROVE  [Applied!Next]_(Applied!vars)
    OBVIOUS
  <2> USE DEF hubvars, live, disk
  <2>1. Running' \in Applied!Maybe
    BY RunningType DEF IInv, Applied!Maybe, Maybe
  <2>2. ASSUME UNCHANGED << wanted, hash, shown >> PROVE Applied!Next
    BY <2>1, <2>2 DEF Applied!Next, Applied!Run
  <2>3. ASSUME wanted' \in Configs, UNCHANGED << conf, up, peers, rec, routes, unsure, rules, hash, shown >>
        PROVE  Applied!Next
    <3>1. Running' = Running
      BY <2>3 DEF Running, RunningBut, HasKey
    <3> QED
      BY <2>3, <3>1 DEF Applied!Next, Applied!Want
  <2>4. CASE Want
    BY <2>4, <2>3 DEF Want
  <2>5. CASE Settled
    <3>1. wanted' = First \/ wanted' = wanted
      BY <2>5 DEF Settled
    <3>2. UNCHANGED << conf, up, peers, rec, routes, unsure, rules, hash, shown >>
      BY <2>5 DEF Settled
    <3> QED
      BY <3>1, <3>2, <2>2, <2>3, NoConfigs
  <2>6. CASE WriteHash
    <3>1. UNCHANGED << wanted, shown >> /\ hash' \in {hash, None, got}
      BY <2>6 DEF WriteHash
    <3>2. CASE hash' = got
      BY <2>6, <3>1, <3>2, HashRuns DEF Applied!Next, Applied!Record
    <3>3. CASE hash' = hash
      BY <3>1, <3>3, <2>2
    <3>4. CASE hash' = None /\ hash' # got
      <4>1. UNCHANGED << conf, up, peers, rec, routes, unsure, rules >>
        BY <2>6, <3>4 DEF WriteHash
      <4>2. Running' = Running
        BY <4>1 DEF Running, RunningBut, HasKey
      <4> QED
        BY <3>1, <3>4, <4>2 DEF Applied!Next, Applied!Forget
    <3> QED
      BY <3>1, <3>2, <3>3, <3>4
  <2>7. CASE Heartbeat
    <3>1. /\ shown' = hash \/ shown' = shown
          /\ UNCHANGED << wanted, hash, conf, up, peers, rec, routes, unsure, rules >>
      BY <2>7 DEF Heartbeat
    <3>2. Running' = Running
      BY <3>1 DEF Running, RunningBut, HasKey
    <3> QED
      BY <2>2, <3>1, <3>2 DEF Applied!Next, Applied!Report
  <2>8. CASE Start \/ Fetch \/ NoPrivateKey \/ Syncconf \/ PostDown \/ NoSwap \/ PostUp \/ RecordDown \/ Record
    BY <2>2, <2>8 DEF Start, Fetch, NoPrivateKey, Syncconf, PostDown, NoSwap, PostUp, RecordDown, Record
  <2>9. CASE CopyConf \/ Clean \/ CopyConfDown \/ WgQuickUp \/ Kill \/ Reboot
    BY <2>2, <2>9 DEF CopyConf, Clean, CopyConfDown, WgQuickUp, Kill, Reboot
  <2>11. CASE KillInside
    <3>1. UNCHANGED << wanted, shown >> /\ hash' \in {hash, None}
      BY <2>11 DEF KillInside
    <3>2. CASE hash' = hash
      BY <3>1, <3>2, <2>2
    <3>3. CASE hash' # hash
      <4>1. hash' = None /\ UNCHANGED << conf, up, peers, rec, routes, unsure, rules >>
        BY <2>11, <3>3, Zenon DEF KillInside
      <4>2. Running' = Running
        BY <4>1 DEF Running, RunningBut, HasKey
      <4> QED
        BY <3>1, <4>1, <4>2 DEF Applied!Next, Applied!Forget
    <3> QED
      BY <3>2, <3>3
  <2>10. CASE UNCHANGED vars
    BY <2>2, <2>10 DEF vars
  <2> QED
    BY <2>4, <2>5, <2>6, <2>7, <2>8, <2>9, <2>10, <2>11 DEF Next, Agent
<1> QED
  BY <1>1, <1>2, Inductive, PTL DEF Spec, ImplementsApplied, Applied!Spec
=============================================================================
