---------------------------- MODULE IngressFilter ----------------------------
(***************************************************************************)
(* The Freigaben filter FG_IN of one gateway, from the hub's tables to the *)
(* gateway's iptables (backend/internal/agent.js, agent-ingress.js).       *)
(* The hub computes the wanted ruleset at every poll; the agent applies it *)
(* when its hash differs from the one in /run, keeps a copy on disk that a *)
(* reboot and the self-heal re-apply, and reports the hash back in its     *)
(* heartbeat; the hub deletes an agent only when that report says that no  *)
(* dropping filter is left.                                                *)
(*                                                                         *)
(* A ruleset stands for its text and for its hash.  Every write of the     *)
(* agent is a step of its own, so that a kill can come between any two; it *)
(* runs inside "if apply_ingress", where a failing command ends nothing.   *)
(* The forced delete of an agent that has been silent for an hour, which   *)
(* leaves the filter behind on purpose, is left out.                       *)
(***************************************************************************)
EXTENDS Naturals, FiniteSets

CONSTANTS
    RuleIds,        \* the agent's rules
    None,
    NONE,           \* the hash of "no filter"
    ABSENT,         \* an answer without ingress_hash
    Flushed,        \* an FG_IN without its rules
    Broken,         \* a cached ruleset that was not written to its end
    MaxChanges,     \* changes of mode and rules by the administrator
    MaxFlushes,     \* outside changes of the gateway's iptables
    MaxStops,       \* kills of the agent process and reboots of the gateway
    MaxFaults,      \* failing commands and writes of the agent, hub-side errors,
                    \* heartbeats that do not arrive
    MayDelete       \* may the administrator delete the agent?

Modes    == {"open", "restricted"}
Rulesets == [drop : BOOLEAN, ids : SUBSET RuleIds]

ASSUME ConstantsAssumption ==
    /\ IsFiniteSet(RuleIds) /\ MayDelete \in BOOLEAN
    /\ {MaxChanges, MaxFlushes, MaxStops, MaxFaults} \subseteq Nat
    /\ None \notin {NONE, ABSENT, Flushed} /\ NONE \notin {ABSENT, Flushed} /\ ABSENT # Flushed
    /\ Broken \notin {None, NONE}
    /\ {None, NONE, ABSENT, Flushed, Broken} \cap Rulesets = {}

VARIABLES
    mode, on,           \* hub: ingress_mode and the enabled rules
    applied, appErr,    \* hub: ingress_applied_hash (None: null) and ingress_error
    deleting, deleted,  \* hub: a delete that passed its checks; is_deleted
    chain,              \* FG_IN: a ruleset, Flushed, or None
    jump,               \* is the jump to FG_IN the first rule of FORWARD?
    cache, cacheHash,   \* ingress.rules and ingress.hash on disk
    runHash,            \* ingress_hash in /run: a hash, NONE, or None (no file)
    pc,                 \* where the agent is
    job,                \* arguments of the apply_ingress in progress
    rowMode,            \* the ingress_mode that getConfig has read
    resp,               \* the payload of the last poll
    err,                \* INGRESS_ERROR
    torn,               \* history: a write of the last apply failed or was cut off
    mixed,              \* history: is the ruleset in place of rows that changed
                        \* while getConfig read them ("now": that of this poll)?
    used                \* what the bounds count

hub   == <<mode, on, applied, appErr, deleting, deleted>>
ipt   == <<chain, jump>>
disk  == <<cache, cacheHash>>
agent == <<pc, job, rowMode, resp, err>>
past  == <<torn, mixed>>
vars  == <<hub, ipt, disk, runHash, agent, past, used>>

Use(what, max) == used[what] < max /\ used' = [used EXCEPT ![what] = @ + 1]

-----------------------------------------------------------------------------
(* The hub *)

(* buildIngressRestore: no filter at all for an open agent without rules. *)
buildIngressRestore(m) == IF m = "open" /\ on = {} THEN NONE
                          ELSE [drop |-> m = "restricted", ids |-> on]
Wanted == buildIngressRestore(mode)

(* A change of the rows between the two reads of a getConfig. *)
RowsChange == mixed' = (IF pc = "polled" THEN "now" ELSE mixed) /\ torn' = torn

(* setMode and the changes of rules, each a transaction (see IngressRules). *)
Change(m, rs) ==
    /\ ~deleted /\ RowsChange /\ Use("changes", MaxChanges)
    /\ m = mode \/ rs = on
    /\ m = "restricted" => rs # {}              \* assertNotEmptyRestricted
    /\ mode' = m /\ on' = rs
    /\ UNCHANGED <<applied, appErr, deleting, deleted, ipt, disk, runHash, agent>>

(* ingressAppliedState(...).state = "applied" *)
ingressApplied == IF applied = None THEN Wanted = NONE
                  ELSE ~appErr /\ applied = Wanted

assertIngressTornDown ==
    /\ mode # "restricted"
    /\ applied \notin {None, NONE} => ingressApplied

(* delete: the checks, then the UPDATE and the removal of the rules. *)
DeleteCheck ==
    /\ MayDelete /\ ~deleted /\ ~deleting /\ assertIngressTornDown
    /\ deleting' = TRUE
    /\ UNCHANGED <<mode, on, applied, appErr, deleted, ipt, disk, runHash, agent, past, used>>

DeleteCommit ==
    /\ deleting /\ RowsChange /\ deleting' = FALSE /\ deleted' = TRUE /\ on' = {}
    /\ UNCHANGED <<mode, applied, appErr, ipt, disk, runHash, agent, used>>

-----------------------------------------------------------------------------
(* apply_ingress *)

(* The lines of a ruleset; none of what cp has left of one. *)
Count(r) == IF r \in Rulesets THEN Cardinality(r.ids) + IF r.drop THEN 2 ELSE 1 ELSE 0

(* A ruleset is in place as a whole: only if the rows of this very poll have  *)
(* changed in between may it be a mixed one.                                  *)
InPlace == mixed' = IF mixed = "now" \/ torn' THEN mixed ELSE "no"

(* Call apply_ingress with rules and hash; "then" is what follows success,   *)
(* "else" what follows failure.                                              *)
Apply(rules, hash, from, then, else) ==
    /\ job' = [rules |-> rules, hash |-> hash, from |-> from, then |-> then, else |-> else]
    /\ pc' = "restore"

(* The rules are valid and iptables-restore succeeds; the jump is put first,  *)
(* and nobody asks whether that has worked.                                   *)
ApplyRestore ==
    /\ pc = "restore" /\ job.rules # Broken
    /\ chain' = job.rules
    /\ \/ jump' = TRUE /\ used' = used
       \/ jump' = jump /\ Use("faults", MaxFaults)
    /\ IF job.from = "hub" THEN pc' = "copy" /\ torn' = FALSE ELSE pc' = "hash" /\ torn' = torn
    /\ UNCHANGED <<hub, disk, runHash, job, rowMode, resp, err, mixed>>

(* _ingress_valid or iptables-restore refuses the rules. *)
ApplyEnds ==
    /\ err' = IF job.from = "boot" THEN err ELSE TRUE
    /\ pc' = job.else /\ job' = None
    /\ UNCHANGED <<hub, ipt, disk, runHash, rowMode, resp, past>>

ApplyInvalid == pc = "restore" /\ job.rules = Broken /\ ApplyEnds /\ used' = used
ApplyFails   == pc = "restore" /\ ApplyEnds /\ Use("faults", MaxFaults)

(* Fault injection: a new ruleset is not kept on disk. *)
ApplyCopyForgotten ==
    /\ pc = "copy" /\ pc' = "hash"
    /\ UNCHANGED <<hub, ipt, disk, runHash, job, rowMode, resp, err, past, used>>

ApplyCopy ==
    /\ pc = "copy" /\ pc' = "hash"
    /\ cache' = job.rules
    /\ UNCHANGED <<hub, ipt, cacheHash, runHash, job, rowMode, resp, err, past, used>>

(* A failing cp leaves the old copy or a part of the new one, and the hash is *)
(* written all the same.                                                      *)
ApplyCopyFails ==
    /\ pc = "copy" /\ pc' = "hash" /\ Use("faults", MaxFaults)
    /\ cache' \in {cache, Broken} /\ torn' = TRUE
    /\ UNCHANGED <<hub, ipt, cacheHash, runHash, job, rowMode, resp, err, mixed>>

HashNext ==
    /\ pc = "hash" /\ pc' = job.then
    /\ job' = IF job.then = "run" THEN job ELSE None
    /\ UNCHANGED <<hub, ipt, cache, runHash, rowMode, resp, err, mixed>>

ApplyHash == HashNext /\ cacheHash' = job.hash /\ UNCHANGED <<torn, used>>

(* A write that fails leaves the old hash or an empty file. *)
ApplyHashFails ==
    /\ HashNext /\ Use("faults", MaxFaults)
    /\ cacheHash' \in {cacheHash, None} /\ torn' = TRUE

(* The caller writes the hash to /run; INGRESS_ERROR is cleared by a poll. *)
WriteRun ==
    /\ pc = "run"
    /\ runHash' = job.hash
    /\ err' = IF job.from = "hub" THEN FALSE ELSE err
    /\ pc' = job.else /\ job' = None
    /\ torn' = torn /\ IF job.from = "hub" THEN InPlace ELSE mixed' = mixed
    /\ UNCHANGED <<hub, ipt, disk, rowMode, resp, used>>

-----------------------------------------------------------------------------
(* The agent *)

(* Both the boot unit and the agent begin by restoring the cached ruleset, if *)
(* /run does not say that it is in place.                                     *)
Start ==
    /\ pc \in {"boot", "start"}
    /\ LET next == IF pc = "boot" THEN "start" ELSE "loop" IN
       IF runHash = None /\ cache # None /\ cacheHash # None
       THEN Apply(cache, cacheHash, "boot", "run", next)
       ELSE pc' = next /\ job' = job
    /\ UNCHANGED <<hub, ipt, disk, runHash, rowMode, resp, err, past, used>>

(* Fault injection: the self-heal looks for the chain only. *)
ingress_selfhealMissingOnly ==
    /\ pc = "loop" /\ err' = FALSE
    /\ IF runHash \in Rulesets /\ cache # None /\ chain = None
       THEN Apply(cache, runHash, "heal", "poll", "poll") /\ jump' = jump
       ELSE /\ pc' = "poll" /\ job' = job
            /\ jump' = (jump \/ (runHash \in Rulesets /\ chain # None))
    /\ UNCHANGED <<hub, chain, disk, runHash, rowMode, resp, past, used>>

(* ingress_selfheal at the top of every loop: a chain that is missing or has *)
(* not as many rules as the cache is applied again, otherwise the jump is    *)
(* repaired.                                                                 *)
ingress_selfheal ==
    /\ pc = "loop" /\ err' = FALSE
    /\ IF runHash \in Rulesets /\ cache # None /\ (chain = None \/ Count(chain) # Count(cache))
       THEN Apply(cache, runHash, "heal", "poll", "poll") /\ jump' = jump
       ELSE /\ pc' = "poll" /\ job' = job
            /\ jump' = (jump \/ (runHash \in Rulesets /\ chain # None))
    /\ UNCHANGED <<hub, chain, disk, runHash, rowMode, resp, past, used>>

(* getConfig reads the agent's row ... *)
ReadAgent ==
    /\ pc = "poll" /\ ~deleted /\ pc' = "polled"
    /\ rowMode' = mode
    /\ mixed' = IF mixed = "no" THEN "no" ELSE "before"
    /\ UNCHANGED <<hub, ipt, disk, runHash, job, resp, err, torn, used>>

(* ... and then the rules; on an error the answer has no ruleset. *)
Answered ==
    /\ pc = "polled" /\ pc' = "step"
    /\ \/ resp' = buildIngressRestore(rowMode) /\ used' = used
       \/ resp' = ABSENT /\ Use("faults", MaxFaults)
    /\ rowMode' = None
    /\ UNCHANGED <<hub, ipt, disk, runHash, job, err, past>>

(* The hub is down, unreachable, or does not know the agent any more. *)
Unanswered ==
    /\ pc \in {"poll", "polled"} /\ pc' = "loop" /\ rowMode' = None
    /\ UNCHANGED <<hub, ipt, disk, runHash, job, resp, err, past, used>>

StepSame ==
    /\ pc = "step" /\ resp \in {ABSENT, runHash} /\ pc' = "beat"
    /\ torn' = torn /\ IF resp = runHash THEN InPlace ELSE mixed' = mixed
    /\ UNCHANGED <<hub, ipt, disk, runHash, job, rowMode, resp, err, used>>

(* The payload cannot be read, or its hash is not that of the rules. *)
StepUnreadable ==
    /\ pc = "step" /\ pc' = "beat" /\ Use("faults", MaxFaults)
    /\ err' = TRUE
    /\ UNCHANGED <<hub, ipt, disk, runHash, job, rowMode, resp, past>>

StepApply ==
    /\ pc = "step" /\ resp \in Rulesets \ {runHash}
    /\ Apply(resp, resp, "hub", "run", "beat")
    /\ UNCHANGED <<hub, ipt, disk, runHash, rowMode, resp, err, past, used>>

(* remove_ingress: the jump and the chain, then the files, then /run. *)
StepRemove ==
    /\ pc = "step" /\ resp = NONE /\ runHash # NONE
    /\ chain' = None /\ jump' = FALSE /\ pc' = "unlink"
    /\ UNCHANGED <<hub, disk, runHash, job, rowMode, resp, err, past, used>>

(* Fault injection: the cached ruleset stays on disk. *)
RemoveCacheKept ==
    /\ pc = "unlink" /\ pc' = "none"
    /\ UNCHANGED <<hub, ipt, disk, runHash, job, rowMode, resp, err, past, used>>

RemoveCache ==
    /\ pc = "unlink" /\ pc' = "none"
    /\ cache' = None /\ cacheHash' = None
    /\ UNCHANGED <<hub, ipt, runHash, job, rowMode, resp, err, past, used>>

RemoveDone ==
    /\ pc = "none" /\ pc' = "beat"
    /\ runHash' = NONE
    /\ torn' = FALSE /\ InPlace
    /\ UNCHANGED <<hub, ipt, disk, job, rowMode, resp, err, used>>

(* heartbeat: an empty hash is stored as NONE. *)
Heartbeat ==
    /\ pc = "beat" /\ pc' = "loop"
    /\ IF deleted THEN UNCHANGED <<applied, appErr>>
       ELSE applied' = (IF runHash = None THEN NONE ELSE runHash) /\ appErr' = err
    /\ UNCHANGED <<mode, on, deleting, deleted, ipt, disk, runHash, job, rowMode, resp, err, past, used>>

HeartbeatLost ==
    /\ pc = "beat" /\ pc' = "loop" /\ Use("faults", MaxFaults)
    /\ UNCHANGED <<hub, ipt, disk, runHash, job, rowMode, resp, err, past>>

-----------------------------------------------------------------------------
(* The gateway *)

(* netfilter-persistent reload deletes the chain, iptables -F empties it;    *)
(* another tool may push the jump from its place.                            *)
Flush ==
    /\ pc # "boot" /\ Use("flushes", MaxFlushes)
    /\ \/ chain' = None
       \/ chain # None /\ chain' = Flushed
       \/ chain' = chain
    /\ jump' = FALSE
    /\ UNCHANGED <<hub, disk, runHash, agent, past>>

(* Is the agent between two writes of a ruleset from the hub, or about to     *)
(* write that it has removed the old one?                                     *)
Writing(at) == pc \in at /\ (pc = "none" \/ job.from = "hub")

(* systemd starts a killed agent again. *)
Kill ==
    /\ pc \notin {"boot", "start"} /\ Use("stops", MaxStops)
    /\ pc' = "start" /\ job' = None /\ rowMode' = None /\ resp' = None /\ err' = FALSE
    /\ torn' = (torn \/ Writing({"copy", "hash", "run", "none"}))
    /\ UNCHANGED <<hub, ipt, disk, runHash, mixed>>

(* /run and the kernel's tables are gone, the files stay. *)
Reboot ==
    /\ Use("stops", MaxStops)
    /\ chain' = None /\ jump' = FALSE /\ runHash' = None
    /\ pc' = "boot" /\ job' = None /\ rowMode' = None /\ resp' = None /\ err' = FALSE
    /\ torn' = (torn \/ Writing({"copy", "hash"}))
    /\ UNCHANGED <<hub, disk, mixed>>

-----------------------------------------------------------------------------
(* A freshly installed agent without rules. *)
Init ==
    /\ mode = "open" /\ on = {} /\ applied = None /\ appErr = FALSE
    /\ deleting = FALSE /\ deleted = FALSE
    /\ chain = None /\ jump = FALSE /\ cache = None /\ cacheHash = None /\ runHash = None
    /\ pc = "start" /\ job = None /\ rowMode = None /\ resp = None /\ err = FALSE
    /\ torn = FALSE /\ mixed = "no"
    /\ used = [w \in {"changes", "flushes", "stops", "faults"} |-> 0]

Agent == \/ Start \/ ingress_selfheal
         \/ ApplyRestore \/ ApplyInvalid \/ ApplyCopy \/ ApplyHash \/ WriteRun
         \/ StepSame \/ StepApply \/ StepRemove \/ RemoveCache \/ RemoveDone
         \/ Heartbeat

Next == \/ Agent \/ ReadAgent \/ Answered \/ Unanswered
        \/ ApplyFails \/ ApplyCopyFails \/ ApplyHashFails \/ StepUnreadable \/ HeartbeatLost
        \/ \E m \in Modes, rs \in SUBSET RuleIds : Change(m, rs)
        \/ DeleteCheck \/ DeleteCommit
        \/ Flush \/ Kill \/ Reboot

Spec == Init /\ [][Next]_vars

(* The agent's loop goes on; the hub may stay out of reach for ever. *)
HubDownSpec == Spec /\ WF_vars(Agent \/ Unanswered)

(* Polls of a known agent are answered again and again. *)
FairSpec == HubDownSpec /\ SF_vars(ReadAgent) /\ SF_vars(Answered)

-----------------------------------------------------------------------------
FlagsOK ==
    /\ appErr \in BOOLEAN /\ deleting \in BOOLEAN /\ deleted \in BOOLEAN
    /\ jump \in BOOLEAN /\ err \in BOOLEAN /\ torn \in BOOLEAN
ValuesOK ==
    /\ mode \in Modes /\ on \subseteq RuleIds
    /\ applied \in Rulesets \cup {NONE, None}
    /\ chain \in Rulesets \cup {Flushed, None}
    /\ jump => chain # None
    /\ cache \in Rulesets \cup {Broken, None} /\ cacheHash \in Rulesets \cup {None}
    /\ runHash \in Rulesets \cup {NONE, None}
    /\ pc \in {"boot", "start", "loop", "restore", "copy", "hash", "run", "poll",
               "polled", "step", "unlink", "none", "beat"}
    /\ rowMode \in Modes \cup {None}
    /\ resp \in Rulesets \cup {NONE, ABSENT, None}
    /\ mixed \in {"no", "now", "before"}

(* The variables have their types, and FORWARD never jumps to a chain that is *)
(* not there.                                                                 *)
TypeOK == FlagsOK /\ ValuesOK

(* "Refuse that state instead of silently cutting a site off": getConfig reads *)
(* mode and rules by two statements, so it can answer with a filter that drops *)
(* everything although no state of the hub's tables asks for one.  Nothing     *)
(* else makes one, and the next answer that is put in place leaves none in the *)
(* kernel nor on disk, where a boot or the self-heal would find it.            *)
Cut == [drop |-> TRUE, ids |-> {}]
NotCutOff == Cut \in {chain, cache} => mixed # "no"

(* No ruleset is being applied or removed. *)
Settled == pc \in {"boot", "start", "loop", "poll", "polled", "step", "beat"}

(* Between two applies, the ruleset that a reboot or the self-heal would put *)
(* back is the one the agent reports to the hub, unless a write of the last  *)
(* apply failed or the agent ended inside it.                                *)
CacheIsReported ==
    ~torn /\ runHash \in Rulesets /\ Settled => cache = runHash /\ cacheHash = runHash

(* The same without the exceptions. *)
NotCutOffEver == Cut \notin {chain, cache}
CacheIsReportedEver ==
    runHash \in Rulesets /\ Settled => cache = runHash /\ cacheHash = runHash

Enforced == IF Wanted = NONE THEN chain = None ELSE chain = Wanted /\ jump

(* Whatever was flushed, rebooted, refused or lost: once that ends, the       *)
(* gateway of an agent that is not deleted runs the wanted ruleset, first in  *)
(* FORWARD, and the hub knows it; unless a write of the last apply failed or  *)
(* the agent ended inside it, and no answer since has been put in place.      *)
Converges == <>[](deleted \/ torn \/ (Enforced /\ ingressApplied))

(* The same without that exception. *)
ConvergesTorn == <>[](deleted \/ (Enforced /\ ingressApplied))

(* "Its gateway keeps self-healing (and restoring at boot) the last Freigaben *)
(* filter": a ruleset that outlives its agent is not lost to a flush, unless a *)
(* write of its apply failed.                                                 *)
KeepsHealing == <>[](deleted /\ ~torn /\ runHash \in Rulesets => chain = runHash /\ jump)

(* "A filter the agent rejected never shows as active": what the hub shows as *)
(* applied is, once all disturbances have ended, what the gateway runs.       *)
ShownIsRun == <>[](ingressApplied => Enforced)

(* "Only delete once the gateway runs no dropping filter": a deleted agent    *)
(* has none in iptables and none on disk for the next boot.                   *)
DeletedRunsNoFilter ==
    deleted => \A r \in Rulesets : r.drop => chain # r /\ cache # r

(* "Runs every loop, also while the hub is down": the cached ruleset comes    *)
(* back by itself, again and again.                                           *)
HealsWithoutHub == []<>(cache = None \/ (chain = cache /\ jump))
=============================================================================
