-------------------------- MODULE AgentRegistration --------------------------
(***************************************************************************)
(* How a site agent gets and keeps its credential (backend/internal/       *)
(* agent.js).  An administrator creates the agent with a single-use        *)
(* reg_token; the install script writes it to config.env and exchanges it  *)
(* for the permanent agent_token; the agent's loop polls with whatever     *)
(* config.env gave it and repeats the exchange until a poll succeeds; the  *)
(* first successful poll retires the reg_token.  A reset issues a new      *)
(* reg_token and revokes the agent_token.                                  *)
(*                                                                         *)
(* A hub handler is a SELECT followed by an UPDATE, two steps, and it runs *)
(* to its end even when the curl that sent it has given up (slot "late":   *)
(* one such call at a time is followed).  Tokens are numbers in the order  *)
(* they are drawn.  The status column, which no decision reads, and the    *)
(* deletion of the agent are left out.                                     *)
(***************************************************************************)
EXTENDS Naturals

CONSTANTS
    None,
    MaxResets,      \* resets by the administrator
    MaxLost,        \* curls that end without their response
    MaxRestarts,    \* crashes of the agent's loop
    MaxInstalls,    \* downloads of the install script
    MaxUnsaved,     \* writes of config.env by the loop that fail
    MaxTokens       \* tokens the hub may draw

Slots  == {"loop", "inst", "late"}
Tokens == 1 .. MaxTokens
OK     == 0         \* the answer to a config poll
Call   == [kind : {"config", "register"}, arg : Tokens,
           phase : {"sent", "patch", "reply"}, val : Tokens \cup {OK, None}]

ASSUME ConstantsAssumption ==
    /\ MaxTokens \in Nat \ {0}
    /\ MaxResets \in Nat /\ MaxLost \in Nat
    /\ MaxRestarts \in Nat /\ MaxUnsaved \in Nat /\ MaxInstalls \in Nat
    /\ None \notin Nat /\ None \notin Call

VARIABLES
    reg,        \* the row's reg_token, or None
    tok,        \* the row's agent_token, or None
    issued,     \* the last token drawn
    calls,      \* slot -> the call in flight there, or None
    file,       \* FGTOKEN in config.env, None before the first install
    mem,        \* FGTOKEN of the running loop, None while there is none
    loop,       \* where the loop is: asleep, or waiting for an answer
    retry,      \* has REGISTER_RETRY_INTERVAL passed since LAST_REG_ATTEMPT?
    inst,       \* where the install script is
    scriptTok,  \* the reg_token in the downloaded install script, or None
    stale,      \* history: has the last write of config.env failed?
    again,      \* history: has the row's last reg_token been downloaded again?
    gen,        \* history: resets so far
    genOf,      \* history: the reset each token was drawn for
    dead,       \* history: agent_tokens that were valid and no longer are
    overlapped, \* history: has a handler begun while another was half done?
    lost, restarts, unsaved, installs   \* what the bounds count

row     == <<reg, tok, dead>>
draws   == <<issued, gen, genOf>>
agent   == <<file, mem, loop, retry, stale, unsaved>>
install == <<inst, scriptTok, again, installs>>
counts  == <<lost, restarts, overlapped>>
vars    == <<row, draws, calls, agent, install, counts>>

-----------------------------------------------------------------------------
(* The hub *)

Send(kind, arg) == [kind |-> kind, arg |-> arg, phase |-> "sent", val |-> None]
Reply(c, v)     == [c EXCEPT !.phase = "reply", !.val = v]
InPhase(s, p)   == calls[s] # None /\ calls[s].phase = p

(* A handler begins; another may be between its lookup and its UPDATE. *)
Begins == /\ overlapped' = (overlapped \/ \E s \in Slots : InPhase(s, "patch"))
          /\ UNCHANGED <<lost, restarts>>

(* requireAgentByToken(column, token): does the token name the row? *)
requireAgentByToken(c) == c.arg = IF c.kind = "config" THEN tok ELSE reg

(* The next token, drawn for reset g. *)
Draw(g) == /\ issued < MaxTokens /\ issued' = issued + 1
           /\ genOf' = [genOf EXCEPT ![issued + 1] = g]

(* Every assignment of agent_token goes through here for the history. *)
SetTok(t) == /\ tok' = t
             /\ dead' = IF tok \in Tokens \ {t} THEN dead \cup {tok} ELSE dead

(* A call with a token the row does not have: 401. *)
Reject(s) ==
    /\ InPhase(s, "sent") /\ ~requireAgentByToken(calls[s])
    /\ calls' = [calls EXCEPT ![s] = Reply(@, None)]
    /\ UNCHANGED <<row, draws, agent, install, counts>>

(* Fault injection: register writes the agent_token it read back. *)
RegisterLookupRewriting(s) ==
    /\ InPhase(s, "sent") /\ calls[s].kind = "register"
    /\ requireAgentByToken(calls[s])
    /\ \/ /\ tok # None
          /\ calls' = [calls EXCEPT ![s] = [@ EXCEPT !.phase = "patch", !.val = tok]]
          /\ UNCHANGED draws
       \/ /\ tok = None /\ Draw(genOf[calls[s].arg]) /\ gen' = gen
          /\ calls' = [calls EXCEPT ![s] = [@ EXCEPT !.phase = "patch", !.val = issued']]
    /\ Begins
    /\ UNCHANGED <<row, agent, install>>

(* register up to its UPDATE: an agent_token already issued is returned as it *)
(* is, otherwise a new one is drawn.                                          *)
RegisterLookup(s) ==
    /\ InPhase(s, "sent") /\ calls[s].kind = "register"
    /\ requireAgentByToken(calls[s])
    /\ \/ /\ tok # None
          /\ calls' = [calls EXCEPT ![s] = Reply(@, tok)]
          /\ UNCHANGED draws
       \/ /\ tok = None /\ Draw(genOf[calls[s].arg]) /\ gen' = gen
          /\ calls' = [calls EXCEPT ![s] = [@ EXCEPT !.phase = "patch", !.val = issued']]
    /\ Begins
    /\ UNCHANGED <<row, agent, install>>

(* Fault injection: register retires the reg_token itself. *)
RegisterPatchRetiring(s) ==
    /\ InPhase(s, "patch") /\ calls[s].kind = "register"
    /\ SetTok(calls[s].val) /\ reg' = None
    /\ calls' = [calls EXCEPT ![s] = Reply(@, @.val)]
    /\ UNCHANGED <<draws, agent, install, counts>>

(* register's UPDATE: the new agent_token replaces whatever is there by now. *)
RegisterPatch(s) ==
    /\ InPhase(s, "patch") /\ calls[s].kind = "register"
    /\ SetTok(calls[s].val)
    /\ calls' = [calls EXCEPT ![s] = Reply(@, @.val)]
    /\ UNCHANGED <<reg, draws, agent, install, counts>>

(* getConfig up to its UPDATE, which only a row with a reg_token needs. *)
ConfigLookup(s) ==
    /\ InPhase(s, "sent") /\ calls[s].kind = "config"
    /\ requireAgentByToken(calls[s])
    /\ calls' = [calls EXCEPT ![s] =
                    IF reg = None THEN Reply(@, OK) ELSE [@ EXCEPT !.phase = "patch"]]
    /\ Begins
    /\ UNCHANGED <<row, draws, agent, install>>

(* getConfig's UPDATE: the agent_token has arrived, the reg_token retires. *)
ConfigPatch(s) ==
    /\ InPhase(s, "patch") /\ calls[s].kind = "config"
    /\ reg' = None
    /\ calls' = [calls EXCEPT ![s] = Reply(@, OK)]
    /\ UNCHANGED <<tok, dead, draws, agent, install, counts>>

(* POST /api/agents/:id/reset-token *)
resetToken ==
    /\ gen < MaxResets /\ gen' = gen + 1
    /\ Draw(gen + 1)
    /\ reg' = issued' /\ SetTok(None)
    /\ again' = FALSE
    /\ Begins
    /\ UNCHANGED <<calls, agent, inst, scriptTok, installs>>

-----------------------------------------------------------------------------
(* The install script *)

(* getInstallScript refuses once the reg_token is retired; until then it can *)
(* be downloaded and installed again, over an agent that runs with it.       *)
getInstallScript ==
    /\ inst = "idle" /\ reg # None
    /\ installs < MaxInstalls /\ installs' = installs + 1
    /\ scriptTok' = reg /\ inst' = "ready"
    /\ again' = (again \/ scriptTok = reg)
    /\ UNCHANGED <<row, draws, calls, agent, counts>>

(* config.env is written, then curl sends the registration. *)
InstallWrite ==
    /\ inst = "ready" /\ inst' = "register"
    /\ file' = scriptTok /\ stale' = FALSE
    /\ calls' = [calls EXCEPT !["inst"] = Send("register", scriptTok)]
    /\ UNCHANGED <<row, draws, mem, loop, retry, unsaved, scriptTok, again, installs, counts>>

(* The script goes on with the answer r; None is a refusal or a silence. *)
InstallAnswer(r, late) ==
    /\ inst' = "restart"
    /\ \/ r # None /\ file' = r /\ stale' = FALSE
       \/ r = None /\ UNCHANGED <<file, stale>>
    /\ calls' = [calls EXCEPT !["inst"] = None, !["late"] = late]
    /\ UNCHANGED <<mem, loop, retry, unsaved, scriptTok, again, installs>>

-----------------------------------------------------------------------------
(* The agent's loop *)

(* The loop process starts over from config.env.  A call of the old process *)
(* may still be on its way.                                                 *)
StartLoop ==
    /\ mem' = file /\ loop' = "sleep" /\ retry' = TRUE
    /\ \E late \in {calls["late"]} \cup
                   (IF calls["late"] = None THEN {calls["loop"]} ELSE {}) :
          /\ InPhase("loop", "patch") => late = calls["loop"]
          /\ calls' = [calls EXCEPT !["loop"] = None, !["late"] = late]
    /\ UNCHANGED <<row, draws, file, stale, unsaved>>

(* systemctl restart at the end of the install script *)
InstallRestart ==
    /\ inst = "restart" /\ inst' = "idle"
    /\ StartLoop
    /\ UNCHANGED <<scriptTok, again, installs, counts>>

(* The process dies and systemd starts it again (Restart=always). *)
Crash ==
    /\ mem # None /\ restarts < MaxRestarts /\ restarts' = restarts + 1
    /\ StartLoop
    /\ UNCHANGED <<install, lost, overlapped>>

(* REGISTER_RETRY_INTERVAL seconds have passed when the loop wakes up next. *)
RetryDue ==
    /\ loop = "sleep" /\ mem # None /\ ~retry /\ retry' = TRUE
    /\ UNCHANGED <<row, draws, calls, file, mem, loop, stale, unsaved, install, counts>>

(* Wake up and poll /api/agent/config with the token in memory. *)
Poll ==
    /\ loop = "sleep" /\ mem # None /\ loop' = "config"
    /\ calls' = [calls EXCEPT !["loop"] = Send("config", mem)]
    /\ UNCHANGED <<row, draws, file, mem, retry, stale, unsaved, install, counts>>

(* What the loop does next: wait for call c, or sleep when c is None. *)
Go(pc, c, late) ==
    /\ loop' = pc
    /\ calls' = [calls EXCEPT !["loop"] = c, !["late"] = late]

(* rotate_token: the token is in memory from here on, and in config.env      *)
(* unless the write fails ("Could not persist rotated token").               *)
rotate_token(t) ==
    /\ mem' = t
    /\ \/ file' = t /\ stale' = FALSE /\ unsaved' = unsaved
       \/ /\ unsaved < MaxUnsaved /\ unsaved' = unsaved + 1
          /\ file' = file /\ stale' = TRUE

(* No answer to a poll: another token in config.env is adopted and polled    *)
(* with at once ("Reinstall pickup"); otherwise the token in memory is taken *)
(* for a reg_token and exchanged, if the last attempt is long enough ago.    *)
NoConfig(late) ==
    \/ /\ loop = "config" /\ file # mem
       /\ mem' = file /\ UNCHANGED <<file, retry>>
       /\ Go("config2", Send("config", file), late)
    \/ /\ loop = "config2" \/ (loop = "config" /\ file = mem)
       /\ retry /\ retry' = FALSE
       /\ Go("register", Send("register", mem), late)
       /\ UNCHANGED <<file, mem>>
    \/ /\ \/ ~retry /\ (loop = "config2" \/ (loop = "config" /\ file = mem))
          \/ loop \in {"register", "config3"}
       /\ Go("sleep", None, late)
       /\ UNCHANGED <<file, mem, retry>>

(* Fault injection: the loop polls, and never repeats the registration. *)
LoopAnswerNoRetry(r, late) ==
    \/ /\ r = OK \/ r = None
       /\ Go("sleep", None, late) /\ UNCHANGED <<file, mem, retry, stale, unsaved>>
    \/ /\ r \in Tokens
       /\ rotate_token(r) /\ UNCHANGED retry
       /\ Go("config3", Send("config", r), late)

(* The loop goes on with the answer r: a configuration, a token that         *)
(* rotate_token puts in memory and in config.env, or nothing.                *)
LoopAnswer(r, late) ==
    \/ /\ r = OK
       /\ Go("sleep", None, late) /\ UNCHANGED <<file, mem, retry, stale, unsaved>>
    \/ /\ r \in Tokens
       /\ rotate_token(r) /\ UNCHANGED retry
       /\ Go("config3", Send("config", r), late)
    \/ /\ r = None
       /\ NoConfig(late) /\ UNCHANGED <<stale, unsaved>>

-----------------------------------------------------------------------------
(* The network *)

(* A response reaches its curl; nobody waits for a late one. *)
Deliver(s) ==
    /\ InPhase(s, "reply")
    /\ LET r == calls[s].val IN
       \/ s = "loop" /\ LoopAnswer(r, calls["late"]) /\ UNCHANGED install
       \/ s = "inst" /\ InstallAnswer(r, calls["late"])
       \/ s = "late" /\ calls' = [calls EXCEPT ![s] = None] /\ UNCHANGED <<agent, install>>
    /\ UNCHANGED <<row, draws, counts>>

(* curl gives up: the request or the response was lost, or the hub is slow *)
(* and ends the call later.  A handler that has begun always ends.         *)
GiveUp(s) ==
    /\ calls[s] # None /\ lost < MaxLost /\ lost' = lost + 1
    /\ \E late \in {calls["late"]} \cup
                   (IF calls["late"] = None THEN {calls[s]} ELSE {}) :
          /\ InPhase(s, "patch") => late = calls[s]
          /\ \/ s = "loop" /\ LoopAnswer(None, late) /\ UNCHANGED install
             \/ s = "inst" /\ InstallAnswer(None, late)
    /\ UNCHANGED <<row, draws, restarts, overlapped>>

-----------------------------------------------------------------------------
(* create: a row with its first reg_token; nothing is installed yet. *)
Init ==
    /\ reg = 1 /\ tok = None /\ dead = {}
    /\ issued = 1 /\ gen = 0 /\ genOf = [t \in Tokens |-> 0]
    /\ calls = [s \in Slots |-> None]
    /\ file = None /\ mem = None /\ loop = "sleep" /\ retry = TRUE
    /\ inst = "idle" /\ scriptTok = None
    /\ lost = 0 /\ restarts = 0 /\ unsaved = 0 /\ installs = 0
    /\ overlapped = FALSE /\ stale = FALSE /\ again = FALSE

Handler(s) == \/ Reject(s)
              \/ RegisterLookup(s) \/ RegisterPatch(s)
              \/ ConfigLookup(s) \/ ConfigPatch(s)

Next ==
    \/ \E s \in Slots : Handler(s) \/ Deliver(s) \/ GiveUp(s)
    \/ resetToken \/ getInstallScript \/ InstallWrite \/ InstallRestart
    \/ Crash \/ RetryDue \/ Poll

Spec == Init /\ [][Next]_vars

(* Handlers end, responses arrive unless one of the bounded losses takes them, *)
(* an installation once downloaded is run, the loop keeps polling, and the     *)
(* retry interval elapses however often the loop wakes up in between.          *)
Fairness ==
    /\ \A s \in Slots : WF_vars(Handler(s)) /\ WF_vars(Deliver(s))
    /\ WF_vars(InstallWrite) /\ WF_vars(InstallRestart) /\ WF_vars(Poll)
    /\ SF_vars(RetryDue)

FairSpec == Spec /\ Fairness

-----------------------------------------------------------------------------
FlagsOK == {retry, overlapped, stale, again} \subseteq BOOLEAN

RowOK ==
    /\ reg \in Tokens \cup {None} /\ tok \in Tokens \cup {None}
    /\ tok # None => tok # reg
    /\ dead \subseteq Tokens
    /\ issued \in Tokens /\ gen \in 0 .. MaxResets
    /\ genOf \in [Tokens -> 0 .. MaxResets]

AgentOK ==
    /\ calls \in [Slots -> Call \cup {None}]
    /\ file \in Tokens \cup {None} /\ mem \in Tokens \cup {None}
    /\ loop \in {"sleep", "config", "config2", "register", "config3"}
    /\ inst \in {"idle", "ready", "register", "restart"}
    /\ scriptTok \in Tokens \cup {None}
    /\ installs \in 0 .. MaxInstalls
    /\ lost \in 0 .. MaxLost /\ restarts \in 0 .. MaxRestarts /\ unsaved \in 0 .. MaxUnsaved

(* The state variables have their types, and the two credentials of the row  *)
(* are never the same token: a reg_token, which travels in the install       *)
(* script, does not authenticate the agent.                                  *)
TypeOK == FlagsOK /\ RowOK /\ AgentOK

Taken(t) == t \in {tok, reg} \/ genOf[t] # gen

(* "A lost HTTP response doesn't brick the agent": outside an installation,  *)
(* unless an administrator has reset it since, config.env holds a token the  *)
(* hub still accepts: the agent_token or a reg_token that the loop can       *)
(* exchange.  Three things can break this, and the property excepts exactly  *)
(* them: two handlers have overlapped, the last write of config.env failed,  *)
(* or the reg_token was installed a second time.                             *)
Recoverable ==
    ~overlapped /\ ~stale /\ ~again /\ inst = "idle" /\ file # None => Taken(file)

(* The same without each of the three exceptions.                            *)
RecoverableOverlapped == ~stale /\ ~again /\ inst = "idle" /\ file # None => Taken(file)
RecoverableUnsaved    == ~overlapped /\ ~again /\ inst = "idle" /\ file # None => Taken(file)
RecoverableAgain      == ~overlapped /\ ~stale /\ inst = "idle" /\ file # None => Taken(file)

(* "Clears agent_token": after a reset that no handler overlapped, no token  *)
(* drawn under an earlier reg_token authenticates the agent.                 *)
CurrentTokenOnly == ~overlapped /\ tok # None => genOf[tok] = gen

(* An agent_token that was replaced or revoked never authenticates again,    *)
(* whatever handlers are half done when that happens.                        *)
RevokedStaysRevoked == tok \notin dead

(* The reg_token is only retired once the agent has its agent_token: a row   *)
(* always has one of the two, so an agent can always be installed or poll.   *)
RetiredOnlyAfterReceipt == reg # None \/ tok # None

(* Register-retry: an agent that is installed, or installed again after the  *)
(* last reset, ends up polling with the agent_token of its row, from memory  *)
(* and from config.env, and its reg_token is retired, with the exceptions of *)
(* Recoverable.                                                              *)
EventuallyAuthenticated ==
    <>[](~overlapped /\ ~stale /\ ~again /\ file # None /\ genOf[file] = gen
            => mem = tok /\ file = tok /\ reg = None)
=============================================================================
