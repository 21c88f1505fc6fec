------------------------- MODULE IngressFilterProofs -------------------------
(***************************************************************************)
(* Proofs about IngressFilter, for any set of rules and any number of      *)
(* changes, flushes, reboots, kills, faults and lost heartbeats.           *)
(*                                                                         *)
(* Both safety properties are about a value that travels: from the hub's   *)
(* rows into the answer of a poll, into the arguments of apply_ingress,    *)
(* into the kernel and onto the disk, and from there, at a boot or by the  *)
(* self-heal, into the kernel again.  The invariants follow it.            *)
(***************************************************************************)
EXTENDS IngressFilter, TLAPS

Changes == \E m \in Modes, rs \in SUBSET RuleIds : Change(m, rs)

\* The steps of apply_ingress and what may follow them.
InApply == {"restore", "copy", "hash", "run"}
JobOK ==
    /\ pc \in InApply =>
          /\ job.rules \in Rulesets \cup {Broken} /\ job.hash \in Rulesets
          /\ pc # "restore" => job.rules \in Rulesets
          /\ job.from \in {"hub", "heal", "boot"}
          /\ job.from = "hub" => job.hash = job.rules /\ job.then = "run" /\ job.else = "beat"
          /\ job.then \in {"run", "poll"}
          /\ job.else \in {"start", "loop", "poll", "beat"}
    /\ pc = "copy" => job.from = "hub"
PollOK ==
    /\ pc = "polled" => rowMode \in Modes
    /\ pc = "step" => resp # None
    /\ pc \in {"unlink", "none"} => chain = None
    /\ pc = "none" => cache = None /\ cacheHash = None

\* A ruleset from the hub is in the kernel and not yet everywhere on disk.
Written == pc \in {"copy", "hash", "run"} /\ job.from = "hub"

\* What the files on disk, /run, the kernel and the arguments of apply_ingress say of
\* each other while no write of the last apply has failed or was cut off.
Copies ==
    ~torn =>
       /\ ~Written => cacheHash = cache
       /\ pc \in InApply /\ job.from # "hub" =>
             job.rules = cache /\ job.hash = cache /\ (job.then = "poll" => runHash = cache)
       /\ Written /\ pc # "copy" => cache = job.rules
       /\ Written /\ pc = "run" => cacheHash = job.rules
       /\ ~Written /\ runHash \in Rulesets /\ pc # "none" => cache = runHash
       /\ ~Written /\ runHash = NONE => cache = None
       /\ Written => chain \in {None, Flushed, job.rules}
       /\ ~Written => chain \in {None, Flushed, cache}

\* The filter that drops everything is made by a mixed answer only.
NoCut ==
    /\ mode = "restricted" => on # {} \/ deleted
    /\ pc = "polled" => mixed = "now" \/ (rowMode = mode /\ ~deleted)
    /\ mixed # "now" =>
          /\ pc = "step" => resp # Cut
          /\ pc \in InApply /\ job.from = "hub" => job.rules # Cut
    /\ mixed = "no" =>
          /\ Cut \notin {chain, cache}
          /\ pc \in InApply => job.rules # Cut

-----------------------------------------------------------------------------
(* Values *)

\* The special values are different from each other and no rulesets.
LEMMA Special ==
    /\ None # NONE /\ None # ABSENT /\ None # Flushed
    /\ NONE # ABSENT /\ NONE # Flushed /\ ABSENT # Flushed
    /\ None \notin Rulesets /\ NONE \notin Rulesets /\ ABSENT \notin Rulesets /\ Flushed \notin Rulesets
    /\ Broken # None /\ Broken # NONE /\ Broken \notin Rulesets /\ Cut \in Rulesets
BY ConstantsAssumption DEF Rulesets, Cut

\* The hub builds a ruleset or none, and drops everything only without any rule.
LEMMA Built ==
    ASSUME NEW m \in Modes, on \subseteq RuleIds
    PROVE  /\ buildIngressRestore(m) \in Rulesets \cup {NONE}
           /\ buildIngressRestore(m) = Cut => m = "restricted" /\ on = {}
<1>1. [drop |-> m = "restricted", ids |-> on] \in Rulesets
  BY DEF Rulesets
<1>2. Cut \in Rulesets
  BY Special
<1>3. ASSUME [drop |-> m = "restricted", ids |-> on] = Cut
      PROVE  m = "restricted" /\ on = {}
  <2>1. [drop |-> m = "restricted", ids |-> on].drop = Cut.drop
    BY <1>3, Zenon
  <2>2. [drop |-> m = "restricted", ids |-> on].ids = Cut.ids
    BY <1>3, Zenon
  <2> QED
    BY <2>1, <2>2 DEF Cut
<1> QED
  BY <1>1, <1>2, <1>3, Special DEF buildIngressRestore

-----------------------------------------------------------------------------
(* Types *)

\* Flags stay flags in every step.
LEMMA FlagsNext == ASSUME FlagsOK, [Next]_vars PROVE FlagsOK'
<1> USE DEF FlagsOK, hub, ipt, disk, agent, past
<1>1. CASE Start
  BY <1>1, Zenon DEF Start, Apply, Use
<1>2. CASE ingress_selfheal
  BY <1>2, Zenon DEF ingress_selfheal, Apply, Use
<1>3. CASE ApplyRestore
  BY <1>3, Zenon DEF ApplyRestore, Use
<1>4. CASE ApplyInvalid
  BY <1>4, Zenon DEF ApplyInvalid, ApplyEnds, Use
<1>5. CASE ApplyCopy
  BY <1>5, Zenon DEF ApplyCopy, Use
<1>6. CASE ApplyHash
  BY <1>6, Zenon DEF ApplyHash, HashNext, Use
<1>7. CASE WriteRun
  BY <1>7, Zenon DEF WriteRun, InPlace, Use
<1>8. CASE StepSame
  BY <1>8, Zenon DEF StepSame, InPlace, Use
<1>9. CASE StepApply
  BY <1>9, Zenon DEF StepApply, Apply, Use
<1>10. CASE StepRemove
  BY <1>10, Zenon DEF StepRemove, Use
<1>11. CASE RemoveCache
  BY <1>11, Zenon DEF RemoveCache, Use
<1>12. CASE RemoveDone
  BY <1>12, Zenon DEF RemoveDone, InPlace, Use
<1>13. CASE Heartbeat
  BY <1>13, Zenon DEF Heartbeat, Use
<1>14. CASE ReadAgent
  BY <1>14, Zenon DEF ReadAgent, Use
<1>15. CASE Answered
  BY <1>15, Zenon DEF Answered, Use
<1>16. CASE Unanswered
  BY <1>16, Zenon DEF Unanswered, Use
<1>17. CASE ApplyFails
  BY <1>17, Zenon DEF ApplyFails, ApplyEnds, Use
<1>18. CASE ApplyCopyFails
  BY <1>18, Zenon DEF ApplyCopyFails, Use
<1>19. CASE ApplyHashFails
  BY <1>19, Zenon DEF ApplyHashFails, HashNext, Use
<1>20. CASE StepUnreadable
  BY <1>20, Zenon DEF StepUnreadable, Use
<1>21. CASE HeartbeatLost
  BY <1>21, Zenon DEF HeartbeatLost, Use
<1>22. CASE Changes
  BY <1>22, Zenon DEF Changes, Change, RowsChange, Use
<1>23. CASE DeleteCheck
  BY <1>23, Zenon DEF DeleteCheck, Use
<1>24. CASE DeleteCommit
  BY <1>24, Zenon DEF DeleteCommit, RowsChange, Use
<1>25. CASE Flush
  BY <1>25, Zenon DEF Flush, Use
<1>26. CASE Kill
  BY <1>26, Zenon DEF Kill, Writing, Use
<1>27. CASE Reboot
  BY <1>27, Zenon DEF Reboot, Writing, Use
<1>28. CASE UNCHANGED vars
  BY <1>28, Zenon DEF vars
<1> QED
  BY <1>1, <1>2, <1>3, <1>4, <1>5, <1>6, <1>7, <1>8, <1>9, <1>10, <1>11, <1>12,
     <1>13, <1>14, <1>15, <1>16, <1>17, <1>18, <1>19, <1>20, <1>21, <1>22, <1>23, <1>24,
     <1>25, <1>26, <1>27, <1>28
     DEF Next, Agent, Changes

\* The other variables keep their types, and a jump has its chain.
LEMMA ValuesNext == ASSUME FlagsOK, ValuesOK, JobOK, PollOK, [Next]_vars PROVE ValuesOK' /\ JobOK' /\ PollOK'
<1> USE Special DEF ValuesOK, JobOK, PollOK, InApply, hub, ipt, disk, agent, past
<1>1. CASE Start
  BY <1>1 DEF Start, Apply, Use
<1>2. CASE ingress_selfheal
  <2>1. jump' => chain # None
    BY <1>2, Zenon DEF ingress_selfheal
  <2>2. /\ pc' = "poll" \/ (/\ cache \in Rulesets \cup {Broken} /\ runHash \in Rulesets
                            /\ Apply(cache, runHash, "heal", "poll", "poll"))
        /\ UNCHANGED << mode, on, applied, chain, cache, cacheHash, runHash, rowMode, resp, mixed >>
    BY <1>2 DEF ingress_selfheal
  <2> QED
    BY <2>1, <2>2 DEF Apply
<1>3. CASE ApplyRestore
  BY <1>3 DEF ApplyRestore, Use
<1>4. CASE ApplyInvalid
  BY <1>4 DEF ApplyInvalid, ApplyEnds, Use
<1>5. CASE ApplyCopy
  BY <1>5 DEF ApplyCopy, Use
<1>6. CASE ApplyHash
  BY <1>6 DEF ApplyHash, HashNext, Use
<1>7. CASE WriteRun
  BY <1>7 DEF WriteRun, InPlace, Use
<1>8. CASE StepSame
  BY <1>8 DEF StepSame, InPlace, Use
<1>9. CASE StepApply
  BY <1>9 DEF StepApply, Apply, Use
<1>10. CASE StepRemove
  BY <1>10 DEF StepRemove, Use
<1>11. CASE RemoveCache
  BY <1>11 DEF RemoveCache, Use
<1>12. CASE RemoveDone
  BY <1>12 DEF RemoveDone, InPlace, Use
<1>13. CASE Heartbeat
  BY <1>13 DEF Heartbeat, Use
<1>14. CASE ReadAgent
  BY <1>14 DEF ReadAgent, Use
<1>15. CASE Answered
  <2>1. buildIngressRestore(rowMode) \in Rulesets \cup {NONE}
    BY <1>15, Built DEF Answered
  <2> QED
    BY <1>15, <2>1 DEF Answered, Use
<1>16. CASE Unanswered
  BY <1>16 DEF Unanswered, Use
<1>17. CASE ApplyFails
  BY <1>17 DEF ApplyFails, ApplyEnds, Use
<1>18. CASE ApplyCopyFails
  BY <1>18 DEF ApplyCopyFails, Use
<1>19. CASE ApplyHashFails
  BY <1>19 DEF ApplyHashFails, HashNext, Use
<1>20. CASE StepUnreadable
  BY <1>20 DEF StepUnreadable, Use
<1>21. CASE HeartbeatLost
  BY <1>21 DEF HeartbeatLost, Use
<1>22. CASE Changes
  BY <1>22 DEF Changes, Change, RowsChange, Use
<1>23. CASE DeleteCheck
  BY <1>23 DEF DeleteCheck, Use
<1>24. CASE DeleteCommit
  BY <1>24 DEF DeleteCommit, RowsChange, Use
<1>25. CASE Flush
  BY <1>25 DEF Flush, Use
<1>26. CASE Kill
  BY <1>26 DEF Kill, Writing, Use
<1>27. CASE Reboot
  BY <1>27 DEF Reboot, Writing, Use
<1>28. CASE UNCHANGED vars
  BY <1>28 DEF vars
<1> QED
  BY <1>1, <1>2, <1>3, <1>4, <1>5, <1>6, <1>7, <1>8, <1>9, <1>10, <1>11, <1>12,
     <1>13, <1>14, <1>15, <1>16, <1>17, <1>18, <1>19, <1>20, <1>21, <1>22, <1>23, <1>24,
     <1>25, <1>26, <1>27, <1>28
     DEF Next, Agent, Changes

\* A new agent has no filter.
LEMMA Initially == Init => FlagsOK /\ ValuesOK /\ JobOK /\ PollOK
<1>1. Init => FlagsOK
  BY Zenon DEF Init, FlagsOK
<1>2. Init => ValuesOK /\ JobOK /\ PollOK
  BY DEF Init, ValuesOK, JobOK, PollOK, InApply, Modes
<1> QED
  BY <1>1, <1>2

\* The types hold in every state.
LEMMA Types == Spec => [](FlagsOK /\ ValuesOK /\ JobOK /\ PollOK)
<1>1. FlagsOK /\ ValuesOK /\ JobOK /\ PollOK /\ [Next]_vars => (FlagsOK /\ ValuesOK /\ JobOK /\ PollOK)'
  BY FlagsNext, ValuesNext
<1> QED
  BY <1>1, Initially, PTL DEF Spec

\* The variables have their types in every state, and FORWARD never jumps to a
\* chain that is not there (apply_ingress, remove_ingress).
THEOREM TypeCorrect == Spec => []TypeOK
<1>1. FlagsOK /\ ValuesOK => TypeOK
  BY DEF TypeOK
<1> QED
  BY <1>1, Types, PTL

-----------------------------------------------------------------------------
(* What is reported is what a reboot would put back *)

\* Every step keeps the copies of a ruleset in step, or says that they may not be.
LEMMA CopiesNext ==
    ASSUME FlagsOK, ValuesOK, JobOK, PollOK, Copies, [Next]_vars
    PROVE  Copies'
<1> USE Special DEF FlagsOK, ValuesOK, JobOK, PollOK, Copies, Written, InApply, hub, ipt, disk, agent, past
<1>1. CASE Start
  BY <1>1 DEF Start, Apply
<1>2. CASE ingress_selfheal
  BY <1>2 DEF ingress_selfheal, Apply
<1>3. CASE ApplyRestore
  BY <1>3 DEF ApplyRestore
<1>4. CASE ApplyInvalid
  BY <1>4 DEF ApplyInvalid, ApplyEnds
<1>5. CASE ApplyCopy
  BY <1>5 DEF ApplyCopy
<1>6. CASE ApplyHash
  BY <1>6 DEF ApplyHash, HashNext
<1>7. CASE WriteRun
  BY <1>7 DEF WriteRun, InPlace
<1>8. CASE StepSame
  BY <1>8 DEF StepSame, InPlace
<1>9. CASE StepApply
  BY <1>9 DEF StepApply, Apply
<1>10. CASE StepRemove
  BY <1>10 DEF StepRemove
<1>11. CASE RemoveCache
  BY <1>11 DEF RemoveCache
<1>12. CASE RemoveDone
  BY <1>12 DEF RemoveDone, InPlace
<1>13. CASE Heartbeat
  BY <1>13 DEF Heartbeat
<1>14. CASE ReadAgent
  BY <1>14 DEF ReadAgent
<1>15. CASE Answered
  BY <1>15 DEF Answered
<1>16. CASE Unanswered
  BY <1>16 DEF Unanswered
<1>17. CASE ApplyFails
  BY <1>17 DEF ApplyFails, ApplyEnds
<1>18. CASE ApplyCopyFails
  BY <1>18 DEF ApplyCopyFails
<1>19. CASE ApplyHashFails
  BY <1>19 DEF ApplyHashFails, HashNext
<1>20. CASE StepUnreadable
  BY <1>20 DEF StepUnreadable
<1>21. CASE HeartbeatLost
  BY <1>21 DEF HeartbeatLost
<1>22. CASE Changes
  BY <1>22 DEF Changes, Change, RowsChange
<1>23. CASE DeleteCheck
  BY <1>23 DEF DeleteCheck
<1>24. CASE DeleteCommit
  BY <1>24 DEF DeleteCommit, RowsChange
<1>25. CASE Flush
  BY <1>25 DEF Flush
<1>26. CASE Kill
  BY <1>26 DEF Kill, Writing
<1>27. CASE Reboot
  <2> SUFFICES ASSUME ~torn' PROVE Copies'
    BY DEF Copies
  <2>1. ~torn /\ ~(pc \in {"copy", "hash"} /\ job.from = "hub")
    BY <1>27, Zenon DEF Reboot, Writing
  <2>2. /\ chain' = None /\ runHash' = None /\ pc' = "boot"
        /\ cache' = cache /\ cacheHash' = cacheHash
    BY <1>27 DEF Reboot
  <2>3. cacheHash = cache
    BY <2>1
  <2> QED
    BY <2>2, <2>3
<1>28. CASE UNCHANGED vars
  BY <1>28 DEF vars
<1> QED
  BY <1>1, <1>2, <1>3, <1>4, <1>5, <1>6, <1>7, <1>8, <1>9, <1>10, <1>11, <1>12,
     <1>13, <1>14, <1>15, <1>16, <1>17, <1>18, <1>19, <1>20, <1>21, <1>22, <1>23, <1>24,
     <1>25, <1>26, <1>27, <1>28
     DEF Next, Agent, Changes

\* Copies holds in every state.
LEMMA CopiesAlways == Spec => []Copies
<1>1. Init => Copies
  BY Special DEF Init, Copies, InApply, Written
<1>2. FlagsOK /\ ValuesOK /\ JobOK /\ PollOK /\ Copies /\ [Next]_vars => Copies'
  BY CopiesNext
<1> QED
  BY <1>1, <1>2, Types, PTL DEF Spec

\* Between two applies the ruleset that a reboot or the self-heal would put back is
\* the one the agent reports to the hub (apply_ingress, ingress_selfheal): after any
\* flushes, refusals, kills and reboots, unless a write of the last apply failed or
\* the agent ended between two of its writes.
THEOREM CacheReported == Spec => []CacheIsReported
<1>1. Copies => CacheIsReported
  BY DEF Copies, CacheIsReported, Settled, Written
<1> QED
  BY <1>1, CopiesAlways, PTL

-----------------------------------------------------------------------------
(* No filter that cuts the site off *)

\* Only an answer read half before and half after a change drops everything, and an
\* answer that is put in place as a whole leaves no copy of an earlier one.
LEMMA NoCutNext ==
    ASSUME FlagsOK, ValuesOK, JobOK, PollOK, Copies, NoCut, [Next]_vars
    PROVE  NoCut'
<1> USE Special DEF FlagsOK, ValuesOK, JobOK, PollOK, NoCut, InApply, hub, ipt, disk, agent, past
<1>1. CASE Start
  BY <1>1 DEF Start, Apply
<1>2. CASE ingress_selfheal
  BY <1>2 DEF ingress_selfheal, Apply
<1>3. CASE ApplyRestore
  BY <1>3 DEF ApplyRestore
<1>4. CASE ApplyInvalid
  BY <1>4 DEF ApplyInvalid, ApplyEnds
<1>5. CASE ApplyCopy
  BY <1>5 DEF ApplyCopy
<1>6. CASE ApplyHash
  BY <1>6 DEF ApplyHash, HashNext
<1>7. CASE WriteRun
  <2>1. ~torn /\ job.from = "hub" => cache = job.rules /\ chain \in {None, Flushed, job.rules}
    BY <1>7 DEF WriteRun, Copies, Written
  <2> QED
    BY <1>7, <2>1 DEF WriteRun, InPlace
<1>8. CASE StepSame
  <2>1. ~torn /\ resp = runHash => cache \in {None, resp} /\ chain \in {None, Flushed, resp}
    BY <1>8 DEF StepSame, Copies, Written
  <2> QED
    BY <1>8, <2>1 DEF StepSame, InPlace
<1>9. CASE StepApply
  BY <1>9 DEF StepApply, Apply
<1>10. CASE StepRemove
  BY <1>10 DEF StepRemove
<1>11. CASE RemoveCache
  BY <1>11 DEF RemoveCache
<1>12. CASE RemoveDone
  BY <1>12 DEF RemoveDone, InPlace
<1>13. CASE Heartbeat
  BY <1>13 DEF Heartbeat
<1>14. CASE ReadAgent
  BY <1>14 DEF ReadAgent
<1>15. CASE Answered
  <2>1. mixed # "now" => buildIngressRestore(rowMode) # Cut
    BY <1>15, Built DEF Answered
  <2> QED
    BY <1>15, <2>1 DEF Answered
<1>16. CASE Unanswered
  BY <1>16 DEF Unanswered
<1>17. CASE ApplyFails
  BY <1>17 DEF ApplyFails, ApplyEnds
<1>18. CASE ApplyCopyFails
  BY <1>18 DEF ApplyCopyFails
<1>19. CASE ApplyHashFails
  BY <1>19 DEF ApplyHashFails, HashNext
<1>20. CASE StepUnreadable
  BY <1>20 DEF StepUnreadable
<1>21. CASE HeartbeatLost
  BY <1>21 DEF HeartbeatLost
<1>22. CASE Changes
  BY <1>22 DEF Changes, Change, RowsChange
<1>23. CASE DeleteCheck
  BY <1>23 DEF DeleteCheck
<1>24. CASE DeleteCommit
  BY <1>24 DEF DeleteCommit, RowsChange
<1>25. CASE Flush
  BY <1>25 DEF Flush
<1>26. CASE Kill
  BY <1>26 DEF Kill, Writing
<1>27. CASE Reboot
  BY <1>27 DEF Reboot, Writing
<1>28. CASE UNCHANGED vars
  BY <1>28 DEF vars
<1> QED
  BY <1>1, <1>2, <1>3, <1>4, <1>5, <1>6, <1>7, <1>8, <1>9, <1>10, <1>11, <1>12,
     <1>13, <1>14, <1>15, <1>16, <1>17, <1>18, <1>19, <1>20, <1>21, <1>22, <1>23, <1>24,
     <1>25, <1>26, <1>27, <1>28
     DEF Next, Agent, Changes

\* "Refuse that state instead of silently cutting a site off" (assertNotEmptyRestricted):
\* the gateway runs, or keeps for its next boot, a filter that drops everything only
\* after a getConfig whose two reads had a change of the rows between them, and no
\* longer than until the next answer is in place, whatever is flushed, refused, killed,
\* rebooted or lost in between.
THEOREM NeverCutOff == Spec => []NotCutOff
<1>1. Init => NoCut
  <2> SUFFICES ASSUME Init PROVE NoCut
    OBVIOUS
  <2> QED
    BY Special DEF Init, NoCut, InApply
<1>2. FlagsOK /\ ValuesOK /\ JobOK /\ PollOK /\ Copies /\ NoCut /\ [Next]_vars => NoCut'
  BY NoCutNext
<1>3. NoCut => NotCutOff
  BY DEF NoCut, NotCutOff
<1> QED
  BY <1>1, <1>2, <1>3, Types, CopiesAlways, PTL DEF Spec
=============================================================================
