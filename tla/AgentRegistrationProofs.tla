---------------------- MODULE AgentRegistrationProofs ----------------------
(***************************************************************************)
(* Proofs about AgentRegistration, for any number of resets, lost answers, *)
(* restarts and tokens.                                                    *)
(*                                                                         *)
(* RevokedStaysRevoked needs to know of a register handler that is half    *)
(* done that its agent_token is a new one (PatchInv).  Recoverable needs   *)
(* the whole exchange: who may know which token of the last reset          *)
(* (ExchangeInv).                                                          *)
(***************************************************************************)
EXTENDS AgentRegistration, TLAPS

Sent(s)    == calls[s] # None
Pending(s) == InPhase(s, "patch") /\ calls[s].kind = "register"

\* Tokens are drawn before anybody has them, and belong to a reset that has happened.
Drawn == 1 .. issued
DrawnInv ==
    /\ {reg, tok, file, mem, scriptTok} \subseteq Drawn \cup {None}
    /\ dead \subseteq Drawn
    /\ \A s \in Slots : Sent(s) => calls[s].arg \in Drawn /\ calls[s].val \in Drawn \cup {OK, None}
    /\ \A t \in Tokens : genOf[t] <= gen

\* What the agent's side has when it waits for an answer.
AgentInv ==
    /\ loop # "sleep" \/ Sent("loop") => mem # None
    /\ mem # None => file # None
    /\ inst # "idle" => scriptTok # None
    /\ Sent("inst") => calls["inst"].kind = "register" /\ scriptTok # None
    /\ \A s \in Slots : Sent(s) /\ calls[s].kind = "register" => calls[s].val # OK

\* The agent_token of a register handler between its SELECT and its UPDATE is one that
\* nobody else has.
PatchInv ==
    \A s \in Slots : Pending(s) =>
        /\ calls[s].val \in Tokens \ (dead \cup {reg, tok, file, mem, scriptTok})
        /\ \A r \in Slots : Sent(r) => /\ calls[r].arg # calls[s].val
                                       /\ r # s => calls[r].val # calls[s].val

\* Nobody has used the reg_token: it is not even in config.env.
Unused ==
    /\ tok = None /\ file # reg /\ mem # reg
    /\ \A s \in Slots : Sent(s) => calls[s].arg # reg

\* As long as handlers have not overlapped: a handler that is half done finds the row as it was;
\* tokens of the last reset that travel or are stored are those of the row; an agent that has the
\* agent_token no longer has the reg_token in config.env, unless the write failed or the reg_token is
\* installed again; and nobody has a reg_token that was not installed.
Half ==
    \A s \in Slots : InPhase(s, "patch") =>
        /\ \A r \in Slots \ {s} : ~InPhase(r, "patch")
        /\ calls[s].kind = "register" => calls[s].arg = reg /\ tok = None /\ genOf[calls[s].val] = gen
        /\ calls[s].kind = "config" => calls[s].arg = tok
RowIsCurrent == \A t \in {reg, tok} : t # None => genOf[t] = gen
AnswersCurrent ==
    \A s \in Slots : InPhase(s, "reply") /\ calls[s].val \in Tokens /\ genOf[calls[s].val] = gen =>
        calls[s].val = tok
KnownIsStored ==
    ~stale /\ ~again /\ tok # None /\ reg # None /\ (mem = tok \/ \E s \in Slots : Sent(s) /\ calls[s].arg = tok) => file # reg
InstalledOnce ==
    /\ reg # None /\ (scriptTok # reg \/ (inst = "ready" /\ ~again)) => Unused
    /\ ~again /\ inst = "ready" /\ genOf[scriptTok] = gen => reg = scriptTok
FileCurrent == ~stale /\ ~again /\ file # None /\ genOf[file] = gen => file \in {tok, reg}

Exchange == Half /\ RowIsCurrent /\ AnswersCurrent /\ KnownIsStored /\ InstalledOnce /\ FileCurrent
ExchangeInv == ~overlapped => Exchange

IInv == TypeOK /\ DrawnInv /\ AgentInv /\ PatchInv /\ RevokedStaysRevoked

-----------------------------------------------------------------------------
(* What each step does to the calls in flight. *)

\* The fields of a call.
LEMMA CallFields ==
    ASSUME NEW c \in Call
    PROVE  /\ c # None
           /\ c.kind \in {"config", "register"} /\ c.arg \in Tokens
           /\ c.phase \in {"sent", "patch", "reply"} /\ c.val \in Tokens \cup {OK, None}
BY ConstantsAssumption DEF ConstantsAssumption, Call

\* None and OK are no tokens.
LEMMA NoTokens == None \notin Tokens /\ OK \notin Tokens /\ OK # None /\ None \notin Call
BY ConstantsAssumption DEF ConstantsAssumption, Tokens, OK

\* A token that is drawn is new.
LEMMA Drawing ==
    ASSUME RowOK
    PROVE  /\ Drawn \subseteq Tokens /\ None \notin Drawn /\ OK \notin Drawn
           /\ issued' = issued => Drawn' = Drawn
           /\ issued < MaxTokens /\ issued' = issued + 1 =>
                 Drawn' = Drawn \cup {issued + 1} /\ issued + 1 \in Tokens \ Drawn
BY ConstantsAssumption DEF ConstantsAssumption, RowOK, Tokens, Drawn, OK

Calls == [Slots -> Call \cup {None}]

\* A handler's step: the call in slot s goes to phase p with value v, the others stay.
Becomes(s, p, v) ==
    /\ calls' \in Calls /\ \A r \in Slots \ {s} : calls'[r] = calls[r]
    /\ calls[s] \in Call /\ calls'[s] \in Call
    /\ calls'[s].kind = calls[s].kind /\ calls'[s].arg = calls[s].arg
    /\ calls'[s].phase = p /\ calls'[s].val = v

\* A handler that answers only changes its own call.
LEMMA ReplyBecomes ==
    ASSUME calls \in Calls, NEW s \in Slots, calls[s] # None, NEW v \in Tokens \cup {OK, None},
           calls' = [calls EXCEPT ![s] = Reply(@, v)]
    PROVE  Becomes(s, "reply", v)
<1>1. calls[s] \in Call
  BY DEF Calls
<1>2. /\ Reply(calls[s], v) \in Call
      /\ Reply(calls[s], v).kind = calls[s].kind /\ Reply(calls[s], v).arg = calls[s].arg
      /\ Reply(calls[s], v).phase = "reply" /\ Reply(calls[s], v).val = v
  BY <1>1 DEF Call, Reply
<1>3. calls' = [calls EXCEPT ![s] = Reply(calls[s], v)]
  OBVIOUS
<1> HIDE DEF Reply
<1> QED
  BY <1>1, <1>2, <1>3 DEF Becomes, Calls

\* So does one that goes on to its UPDATE.
LEMMA PatchBecomes ==
    ASSUME calls \in Calls, NEW s \in Slots, calls[s] # None, NEW v \in Tokens \cup {OK, None},
           calls' = [calls EXCEPT ![s] = [@ EXCEPT !.phase = "patch", !.val = v]]
    PROVE  Becomes(s, "patch", v)
<1>1. calls[s] \in Call
  BY DEF Calls
<1> DEFINE d == [calls[s] EXCEPT !.phase = "patch", !.val = v]
<1>2. /\ d \in Call /\ d.kind = calls[s].kind /\ d.arg = calls[s].arg
      /\ d.phase = "patch" /\ d.val = v
  BY <1>1 DEF Call
<1>3. calls' = [calls EXCEPT ![s] = d]
  OBVIOUS
<1> HIDE DEF d
<1> QED
  BY <1>1, <1>2, <1>3 DEF Becomes, Calls

\* A call sent with a token in hand.
LEMMA SendFields ==
    ASSUME NEW k \in {"config", "register"}, NEW t \in Tokens
    PROVE  /\ Send(k, t) \in Call /\ Send(k, t).kind = k /\ Send(k, t).arg = t
           /\ Send(k, t).phase = "sent" /\ Send(k, t).val = None
BY DEF Send, Call

\* A refused call.
Rejects(s) ==
    /\ InPhase(s, "sent") /\ Becomes(s, "reply", None)
    /\ UNCHANGED << row, draws, agent, install, counts >>

\* A call with an unknown token is answered so.
LEMMA RejectStep ==
    ASSUME AgentOK, NEW s \in Slots, Reject(s)
    PROVE  Rejects(s)
BY ReplyBecomes DEF Reject, AgentOK, Calls, InPhase, Rejects

\* register's SELECT: answered with the agent_token there is, or a new one is drawn.
LooksUpRegister(s) ==
    /\ InPhase(s, "sent") /\ calls[s].kind = "register" /\ calls[s].arg = reg /\ reg # None
    /\ \/ tok # None /\ Becomes(s, "reply", tok) /\ UNCHANGED draws
       \/ /\ tok = None /\ issued < MaxTokens /\ Becomes(s, "patch", issued + 1)
          /\ issued' = issued + 1 /\ gen' = gen
          /\ genOf' = [genOf EXCEPT ![issued + 1] = genOf[reg]]
    /\ Begins
    /\ UNCHANGED << row, agent, install >>

\* register answers with the stored token, or draws one and goes on to its UPDATE.
LEMMA RegisterLookupStep ==
    ASSUME AgentOK, RowOK, NEW s \in Slots, RegisterLookup(s)
    PROVE  LooksUpRegister(s)
<1>1. /\ InPhase(s, "sent") /\ calls[s].kind = "register" /\ calls[s].arg = reg
      /\ calls \in Calls /\ calls[s] \in Call
  BY DEF RegisterLookup, requireAgentByToken, AgentOK, Calls, InPhase
<1>2. reg # None
  BY <1>1, CallFields, ConstantsAssumption DEF ConstantsAssumption, Tokens
<1>3. CASE tok # None /\ calls' = [calls EXCEPT ![s] = Reply(@, tok)] /\ UNCHANGED draws
  BY <1>1, <1>2, <1>3, ReplyBecomes DEF RegisterLookup, RowOK, InPhase, LooksUpRegister
<1>4. CASE /\ tok = None /\ Draw(genOf[calls[s].arg]) /\ gen' = gen
           /\ calls' = [calls EXCEPT ![s] = [@ EXCEPT !.phase = "patch", !.val = issued']]
  <2>1. issued + 1 \in Tokens /\ issued' = issued + 1
    BY <1>4, ConstantsAssumption DEF Draw, RowOK, Tokens, ConstantsAssumption
  <2> QED
    BY <1>1, <1>2, <1>4, <2>1, PatchBecomes DEF RegisterLookup, Draw, InPhase, LooksUpRegister
<1> QED
  BY <1>3, <1>4 DEF RegisterLookup, LooksUpRegister

\* register's UPDATE.
PatchesRegister(s) ==
    /\ InPhase(s, "patch") /\ calls[s].kind = "register"
    /\ SetTok(calls[s].val) /\ Becomes(s, "reply", calls[s].val)
    /\ UNCHANGED << reg, draws, agent, install, counts >>

\* register's UPDATE stores the token it answers with.
LEMMA RegisterPatchStep ==
    ASSUME AgentOK, NEW s \in Slots, RegisterPatch(s)
    PROVE  PatchesRegister(s)
<1>1. InPhase(s, "patch") /\ calls \in Calls /\ calls[s] \in Call
  BY DEF RegisterPatch, AgentOK, Calls, InPhase
<1>2. calls' = [calls EXCEPT ![s] = Reply(@, calls[s].val)]
  BY <1>1 DEF RegisterPatch, Calls
<1> QED
  BY <1>1, <1>2, CallFields, ReplyBecomes DEF RegisterPatch, InPhase, PatchesRegister

\* getConfig's SELECT: the UPDATE is due if there is a reg_token to retire.
LooksUpConfig(s) ==
    /\ InPhase(s, "sent") /\ calls[s].kind = "config" /\ calls[s].arg = tok
    /\ Becomes(s, "reply", OK) \/ Becomes(s, "patch", calls[s].val)
    /\ Begins
    /\ UNCHANGED << row, draws, agent, install >>

\* getConfig answers, or goes on to retire the reg_token.
LEMMA ConfigLookupStep ==
    ASSUME AgentOK, NEW s \in Slots, ConfigLookup(s)
    PROVE  LooksUpConfig(s)
<1>1. /\ InPhase(s, "sent") /\ calls[s].kind = "config" /\ calls[s].arg = tok
      /\ calls \in Calls /\ calls[s] \in Call
  BY DEF ConfigLookup, requireAgentByToken, AgentOK, Calls, InPhase
<1>2. CASE reg = None
  <2>1. calls' = [calls EXCEPT ![s] = Reply(@, OK)]
    BY <1>1, <1>2 DEF ConfigLookup, Calls
  <2> QED
    BY <1>1, <2>1, ReplyBecomes DEF ConfigLookup, InPhase, LooksUpConfig
<1>3. CASE reg # None
  <2>1. calls' = [calls EXCEPT ![s] = [@ EXCEPT !.phase = "patch", !.val = calls[s].val]]
    <3>1. calls' = [calls EXCEPT ![s] = [@ EXCEPT !.phase = "patch"]]
      BY <1>1, <1>3 DEF ConfigLookup, Calls
    <3>2. [calls[s] EXCEPT !.phase = "patch"] = [calls[s] EXCEPT !.phase = "patch", !.val = calls[s].val]
      BY <1>1 DEF Call
    <3> QED
      BY <3>1, <3>2 DEF LooksUpConfig
  <2> QED
    BY <1>1, <2>1, CallFields, PatchBecomes DEF ConfigLookup, InPhase, LooksUpConfig
<1> QED
  BY <1>2, <1>3 DEF LooksUpConfig

\* getConfig's UPDATE.
PatchesConfig(s) ==
    /\ InPhase(s, "patch") /\ calls[s].kind = "config"
    /\ reg' = None /\ Becomes(s, "reply", OK)
    /\ UNCHANGED << tok, dead, draws, agent, install, counts >>

\* getConfig's UPDATE retires the reg_token.
LEMMA ConfigPatchStep ==
    ASSUME AgentOK, NEW s \in Slots, ConfigPatch(s)
    PROVE  PatchesConfig(s)
BY ReplyBecomes DEF ConfigPatch, AgentOK, Calls, InPhase, PatchesConfig

\* What memory and config.env hold after an answer: a token is put into memory and, unless the write
\* fails, config.env, or config.env is read again, or nothing changes.
KeepsTokens(r) ==
    /\ unsaved' \in 0 .. MaxUnsaved
    /\ \/ UNCHANGED << mem, file, stale >>
       \/ mem' = file /\ UNCHANGED << file, stale >>
       \/ r \in Tokens /\ mem' = r /\ file' = r /\ stale' = FALSE
       \/ r \in Tokens /\ mem' = r /\ file' = file /\ stale' = TRUE

\* What the loop does with an answer; a call that follows is made with the token in memory.
LoopEffect(r, late) ==
    /\ calls' \in Calls /\ calls'["inst"] = calls["inst"] /\ calls'["late"] = late
    /\ calls'["loop"] # None =>
          calls'["loop"].phase = "sent" /\ calls'["loop"].val = None /\ calls'["loop"].arg = mem'
    /\ KeepsTokens(r)
    /\ loop' \in {"sleep", "config", "config2", "register", "config3"}
    /\ loop' # "sleep" => mem' # None

\* What the agent's loop does with an answer, or without one.
LEMMA LoopStep ==
    ASSUME AgentOK, AgentInv, NEW r \in Tokens \cup {OK, None}, NEW late \in Call \cup {None},
           LoopAnswer(r, late)
    PROVE  LoopEffect(r, late)
<1>1. ASSUME NEW pc \in {"sleep", "config", "config2", "register", "config3"},
             NEW c \in Call \cup {None}, Go(pc, c, late)
      PROVE  /\ calls' \in Calls /\ calls'["inst"] = calls["inst"] /\ calls'["late"] = late
             /\ calls'["loop"] = c /\ loop' = pc
  BY <1>1 DEF Go, AgentOK, Calls, Slots
<1>2. ASSUME NEW pc \in {"config", "config2", "register", "config3"}, NEW k \in {"config", "register"},
             NEW t \in Tokens, Go(pc, Send(k, t), late), mem' = t, KeepsTokens(r)
      PROVE  LoopEffect(r, late)
  BY <1>1, <1>2, SendFields, ConstantsAssumption DEF LoopEffect, Tokens, ConstantsAssumption
<1>0. unsaved \in 0 .. MaxUnsaved /\ MaxUnsaved \in Nat
  BY ConstantsAssumption DEF ConstantsAssumption, AgentOK
<1>3. ASSUME Go("sleep", None, late), UNCHANGED << file, mem, stale, unsaved >>
      PROVE  LoopEffect(r, late)
  BY <1>0, <1>1, <1>3 DEF LoopEffect, KeepsTokens
<1>4. CASE r = OK /\ Go("sleep", None, late) /\ UNCHANGED << file, mem, retry, stale, unsaved >>
  BY <1>3, <1>4
<1>5. CASE r \in Tokens /\ rotate_token(r) /\ Go("config3", Send("config", r), late)
  <2>1. mem' = r /\ KeepsTokens(r)
    BY <1>0, <1>5 DEF rotate_token, KeepsTokens
  <2> QED
    BY <1>2, <1>5, <2>1
<1>6. CASE NoConfig(late) /\ UNCHANGED << stale, unsaved >>
  <2>1. CASE /\ loop = "config" /\ mem' = file /\ UNCHANGED << file, retry >>
             /\ Go("config2", Send("config", file), late)
    BY <1>0, <1>2, <1>6, <2>1 DEF AgentOK, AgentInv, KeepsTokens
  <2>2. CASE loop # "sleep" /\ Go("register", Send("register", mem), late) /\ UNCHANGED << file, mem >>
    BY <1>0, <1>2, <1>6, <2>2 DEF AgentOK, AgentInv, KeepsTokens
  <2>3. CASE Go("sleep", None, late) /\ UNCHANGED << file, mem, retry >>
    BY <1>3, <1>6, <2>3
  <2> QED
    BY <1>6, <2>1, <2>2, <2>3 DEF NoConfig
<1> QED
  BY <1>4, <1>5, <1>6 DEF LoopAnswer

\* What the install script does with an answer.
InstallEffect(r, late) ==
    /\ calls' \in Calls /\ calls'["loop"] = calls["loop"] /\ calls'["late"] = late
    /\ calls'["inst"] = None /\ inst' = "restart"
    /\ \/ r # None /\ file' = r /\ stale' = FALSE
       \/ r = None /\ UNCHANGED << file, stale >>
    /\ UNCHANGED << mem, loop, retry, unsaved, scriptTok, again, installs >>

\* What the installer does with an answer, or without one.
LEMMA InstallStep ==
    ASSUME AgentOK, NEW r, NEW late \in Call \cup {None}, InstallAnswer(r, late)
    PROVE  InstallEffect(r, late)
BY DEF InstallAnswer, InstallEffect, AgentOK, Calls, Slots

\* An answer reaches the loop, the install script, or nobody.
Delivers(s) ==
    /\ InPhase(s, "reply") /\ calls[s] \in Call
    /\ UNCHANGED << row, draws, counts >>
    /\ \/ s = "loop" /\ LoopEffect(calls[s].val, calls["late"]) /\ UNCHANGED install
       \/ s = "inst" /\ InstallEffect(calls[s].val, calls["late"])
       \/ /\ s = "late" /\ UNCHANGED << agent, install >>
          /\ calls' \in Calls /\ calls'[s] = None
          /\ \A r \in Slots \ {s} : calls'[r] = calls[r]

\* An answer reaches who waits for it.
LEMMA DeliverStep ==
    ASSUME AgentOK, AgentInv, NEW s \in Slots, Deliver(s)
    PROVE  Delivers(s)
<1>1. InPhase(s, "reply") /\ calls[s] \in Call /\ calls["late"] \in Call \cup {None}
  BY DEF Deliver, AgentOK, InPhase, Slots
<1>2. calls[s].val \in Tokens \cup {OK, None}
  BY <1>1, CallFields
<1>3. CASE s = "loop" /\ LoopAnswer(calls[s].val, calls["late"]) /\ UNCHANGED install
  BY <1>1, <1>2, <1>3, LoopStep DEF Deliver, Delivers
<1>4. CASE s = "inst" /\ InstallAnswer(calls[s].val, calls["late"])
  BY <1>1, <1>4, InstallStep DEF Deliver, Delivers
<1>5. CASE s = "late" /\ calls' = [calls EXCEPT ![s] = None] /\ UNCHANGED << agent, install >>
  BY <1>1, <1>5 DEF Deliver, AgentOK, Calls, Delivers
<1> QED
  BY <1>3, <1>4, <1>5, Zenon DEF Deliver, Delivers

\* A curl gives up; its handler, if it has begun, goes on in the slot "late".
GivesUp(s) ==
    \E late \in {calls["late"], calls[s]} :
      /\ calls[s] \in Call /\ late \in Call \cup {None}
      /\ InPhase(s, "patch") => late = calls[s]
      /\ late = calls[s] => calls["late"] \in {None, calls[s]}
      /\ lost' = lost + 1 /\ lost < MaxLost
      /\ UNCHANGED << row, draws, restarts, overlapped >>
      /\ \/ s = "loop" /\ LoopEffect(None, late) /\ UNCHANGED install
         \/ s = "inst" /\ InstallEffect(None, late)

\* A timeout leaves the call to run on, late.
LEMMA GiveUpStep ==
    ASSUME AgentOK, AgentInv, NEW s \in Slots, GiveUp(s)
    PROVE  GivesUp(s)
<1>1. calls[s] \in Call /\ calls["late"] \in Call \cup {None}
  BY DEF GiveUp, AgentOK, Slots
<1>2. PICK late \in {calls["late"]} \cup (IF calls["late"] = None THEN {calls[s]} ELSE {}) :
          /\ InPhase(s, "patch") => late = calls[s]
          /\ \/ s = "loop" /\ LoopAnswer(None, late) /\ UNCHANGED install
             \/ s = "inst" /\ InstallAnswer(None, late)
  BY DEF GiveUp
<1>3. late \in {calls["late"], calls[s]} /\ late \in Call \cup {None}
      /\ (late = calls[s] => calls["late"] \in {None, calls[s]})
  BY <1>1, <1>2
<1>4. s = "loop" /\ LoopAnswer(None, late) => LoopEffect(None, late)
  BY <1>3, LoopStep
<1>5. s = "inst" /\ InstallAnswer(None, late) => InstallEffect(None, late)
  BY <1>3, InstallStep
<1>6. lost' = lost + 1 /\ lost < MaxLost /\ UNCHANGED << row, draws, restarts, overlapped >>
  BY DEF GiveUp
<1> QED
  BY <1>1, <1>2, <1>3, <1>4, <1>5, <1>6 DEF GivesUp

\* The loop starts over from config.env.
Starts ==
    /\ mem' = file /\ file' = file /\ loop' = "sleep"
    /\ calls' \in Calls /\ calls'["inst"] = calls["inst"] /\ calls'["loop"] = None
    /\ \/ calls'["late"] = calls["late"] /\ ~InPhase("loop", "patch")
       \/ calls'["late"] = calls["loop"] /\ calls["late"] \in {None, calls["loop"]}
    /\ UNCHANGED << row, draws, stale, unsaved >>

\* A start of the agent reads its file.
LEMMA StartStep ==
    ASSUME AgentOK, StartLoop
    PROVE  Starts
<1>1. PICK late \in {calls["late"]} \cup (IF calls["late"] = None THEN {calls["loop"]} ELSE {}) :
          /\ InPhase("loop", "patch") => late = calls["loop"]
          /\ calls' = [calls EXCEPT !["loop"] = None, !["late"] = late]
  BY DEF StartLoop
<1> QED
  BY <1>1 DEF StartLoop, Starts, AgentOK, Calls, Slots

\* A new call in slot s, made with token t.
NewCall(s, t) ==
    /\ calls' \in Calls /\ \A r \in Slots \ {s} : calls'[r] = calls[r]
    /\ calls'[s] \in Call /\ calls'[s].arg = t /\ calls'[s].phase = "sent" /\ calls'[s].val = None

\* The install script registers, the loop polls, each with the token it has.
WritesInstall ==
    /\ NewCall("inst", scriptTok) /\ calls'["inst"].kind = "register"
    /\ inst = "ready" /\ inst' = "register" /\ file' = scriptTok /\ stale' = FALSE
    /\ UNCHANGED << row, draws, mem, loop, retry, unsaved, scriptTok, again, installs, counts >>

\* The installer writes the token it was given and calls.
LEMMA InstallWriteStep ==
    ASSUME AgentOK, AgentInv, InstallWrite
    PROVE  WritesInstall
<1>1. scriptTok \in Tokens
  BY DEF InstallWrite, AgentOK, AgentInv
<1> QED
  BY <1>1, SendFields DEF InstallWrite, AgentOK, Calls, Slots, NewCall, WritesInstall

Polls ==
    /\ NewCall("loop", mem) /\ calls'["loop"].kind = "config"
    /\ loop' = "config" /\ mem # None
    /\ UNCHANGED << row, draws, file, mem, retry, stale, unsaved, install, counts >>

\* The agent polls with the token it has in memory.
LEMMA PollStep ==
    ASSUME AgentOK, Poll
    PROVE  Polls
<1>1. mem \in Tokens
  BY DEF Poll, AgentOK
<1> QED
  BY <1>1, SendFields DEF Poll, AgentOK, Calls, Slots, NewCall, Polls

-----------------------------------------------------------------------------
(* The invariant, part by part. *)

\* The flags are Booleans.
LEMMA FlagsNext == ASSUME FlagsOK, [Next]_vars PROVE FlagsOK'
<1> USE DEF FlagsOK, row, draws, agent, install, counts
<1>1. ASSUME NEW s \in Slots, Reject(s) PROVE FlagsOK'
  BY <1>1, Zenon DEF Reject
<1>2. ASSUME NEW s \in Slots, RegisterLookup(s) PROVE FlagsOK'
  BY <1>2, Zenon DEF RegisterLookup, Begins
<1>3. ASSUME NEW s \in Slots, RegisterPatch(s) PROVE FlagsOK'
  BY <1>3, Zenon DEF RegisterPatch
<1>4. ASSUME NEW s \in Slots, ConfigLookup(s) PROVE FlagsOK'
  BY <1>4, Zenon DEF ConfigLookup, Begins
<1>5. ASSUME NEW s \in Slots, ConfigPatch(s) PROVE FlagsOK'
  BY <1>5, Zenon DEF ConfigPatch
<1>6. ASSUME NEW s \in Slots, Deliver(s) PROVE FlagsOK'
  BY <1>6, Zenon DEF Deliver, LoopAnswer, rotate_token, NoConfig, Go, InstallAnswer
<1>7. ASSUME NEW s \in Slots, GiveUp(s) PROVE FlagsOK'
  BY <1>7, Zenon DEF GiveUp, LoopAnswer, rotate_token, NoConfig, Go, InstallAnswer
<1>8. CASE resetToken
  BY <1>8, Zenon DEF resetToken, Begins
<1>9. CASE getInstallScript
  BY <1>9, Zenon DEF getInstallScript
<1>10. CASE InstallWrite
  BY <1>10, Zenon DEF InstallWrite
<1>11. CASE InstallRestart
  BY <1>11, Zenon DEF InstallRestart, StartLoop
<1>12. CASE Crash
  BY <1>12, Zenon DEF Crash, StartLoop
<1>13. CASE RetryDue
  BY <1>13, Zenon DEF RetryDue
<1>14. CASE Poll
  BY <1>14, Zenon DEF Poll
<1>15. CASE UNCHANGED vars
  BY <1>15, Zenon DEF vars
<1> QED
  BY <1>1, <1>2, <1>3, <1>4, <1>5, <1>6, <1>7, <1>8, <1>9, <1>10, <1>11, <1>12, <1>13, <1>14, <1>15
     DEF Next, Handler

\* What the steps keep, the flags aside.
Parts == RowOK /\ AgentOK /\ AgentInv /\ DrawnInv /\ PatchInv /\ RevokedStaysRevoked

\* The row and the agent's side keep their types; nobody has a token that was not drawn, a register
\* handler keeps its new one to itself until its UPDATE, and no agent_token comes back.
LEMMA PartsNext == ASSUME IInv, [Next]_vars PROVE Parts'
<1>0. RowOK /\ AgentOK /\ DrawnInv /\ AgentInv /\ PatchInv /\ RevokedStaysRevoked
  BY DEF IInv, TypeOK
<1> USE <1>0, CallFields, NoTokens, Drawing, ConstantsAssumption
    DEF Parts, ConstantsAssumption, RowOK, AgentOK, AgentInv, DrawnInv, PatchInv, Pending,
        RevokedStaysRevoked, Calls, Slots, InPhase, Sent, SetTok, row, draws, agent, install, counts
<1>1. ASSUME NEW s \in Slots, Reject(s) PROVE Parts'
  <2>1. Rejects(s)
    BY <1>0, <1>1, RejectStep
  <2> QED
    BY <2>1 DEF Rejects, Becomes, NewCall
<1>2. ASSUME NEW s \in Slots, RegisterLookup(s) PROVE Parts'
  <2>1. LooksUpRegister(s)
    BY <1>0, <1>2, RegisterLookupStep
  <2>2. /\ InPhase(s, "sent") /\ calls[s].kind = "register" /\ calls[s].arg = reg /\ reg # None
        /\ UNCHANGED << row, agent, install, lost, restarts >>
    BY <2>1 DEF LooksUpRegister, Begins
  <2>3. CASE tok # None /\ Becomes(s, "reply", tok) /\ UNCHANGED draws
    BY <2>2, <2>3 DEF Becomes
  <2>4. CASE /\ tok = None /\ issued < MaxTokens /\ Becomes(s, "patch", issued + 1)
             /\ issued' = issued + 1 /\ gen' = gen
             /\ genOf' = [genOf EXCEPT ![issued + 1] = genOf[reg]]
    BY <2>2, <2>4 DEF Becomes
  <2> QED
    BY <2>1, <2>3, <2>4 DEF LooksUpRegister
<1>3. ASSUME NEW s \in Slots, RegisterPatch(s) PROVE Parts'
  <2>1. PatchesRegister(s)
    BY <1>0, <1>3, RegisterPatchStep
  <2> QED
    BY <2>1 DEF PatchesRegister, Becomes, NewCall
<1>4. ASSUME NEW s \in Slots, ConfigLookup(s) PROVE Parts'
  <2>1. LooksUpConfig(s)
    BY <1>0, <1>4, ConfigLookupStep
  <2>2. /\ InPhase(s, "sent") /\ calls[s].kind = "config"
        /\ Becomes(s, "reply", OK) \/ Becomes(s, "patch", calls[s].val)
        /\ UNCHANGED << row, draws, agent, install, lost, restarts >>
    BY <2>1 DEF LooksUpConfig, Begins
  <2> QED
    BY <2>2 DEF Becomes
<1>5. ASSUME NEW s \in Slots, ConfigPatch(s) PROVE Parts'
  <2>1. PatchesConfig(s)
    BY <1>0, <1>5, ConfigPatchStep
  <2> QED
    BY <2>1 DEF PatchesConfig, Becomes, NewCall
<1>6. ASSUME NEW s \in Slots, Deliver(s) PROVE Parts'
  <2>1. Delivers(s)
    BY <1>0, <1>6, DeliverStep
  <2>2. calls[s].val \in Tokens \cup {OK, None} /\ UNCHANGED << row, draws, counts >>
    BY <2>1, CallFields DEF Parts, Delivers
  <2>3. CASE s = "loop" /\ LoopEffect(calls[s].val, calls["late"]) /\ UNCHANGED install
    <3>1. CASE mem' = calls[s].val /\ calls[s].val \in Tokens
      <4>1. /\ calls' \in Calls /\ calls'["inst"] = calls["inst"] /\ calls'["late"] = calls["late"]
            /\ calls'["loop"] # None => calls'["loop"].phase = "sent" /\ calls'["loop"].val = None
            /\ calls'["loop"] # None => calls'["loop"].arg = mem'
            /\ file' \in {mem', file} /\ unsaved' \in 0 .. MaxUnsaved
            /\ loop' \in {"sleep", "config", "config2", "register", "config3"}
            /\ UNCHANGED << row, draws, install, counts >>
        BY <2>2, <2>3, <3>1 DEF LoopEffect, KeepsTokens
      <4>2. \A r \in Slots \ {s} : Pending(r) => calls[r].val # calls[s].val
        BY <2>1 DEF Delivers
      <4>3. RowOK' /\ AgentOK'
        BY <2>1, <3>1, <4>1 DEF Delivers
      <4>4. DrawnInv' /\ AgentInv' /\ RevokedStaysRevoked'
        BY <2>1, <2>3, <3>1, <4>1 DEF Delivers
      <4>5. PatchInv'
        BY <2>1, <2>3, <3>1, <4>1, <4>2 DEF Delivers
      <4> QED
        BY <4>3, <4>4, <4>5
    <3>2. CASE mem' \in {mem, file} /\ file' = file
      BY <2>1, <2>2, <2>3, <3>2, SMTT(60) DEF Delivers, LoopEffect, KeepsTokens
    <3> QED
      BY <2>3, <3>1, <3>2 DEF LoopEffect, KeepsTokens
  <2>4. CASE s = "inst" /\ InstallEffect(calls[s].val, calls["late"])
    BY <2>1, <2>2, <2>4 DEF Delivers, InstallEffect
  <2>5. CASE /\ s = "late" /\ UNCHANGED << agent, install >>
             /\ calls' \in Calls /\ calls'[s] = None
             /\ \A r \in Slots \ {s} : calls'[r] = calls[r]
    BY <2>1, <2>2, <2>5 DEF Delivers
  <2> QED
    BY <2>1, <2>3, <2>4, <2>5, Zenon DEF Parts, Delivers
<1>7. ASSUME NEW s \in Slots, GiveUp(s) PROVE Parts'
  <2>1. GivesUp(s)
    BY <1>0, <1>7, GiveUpStep
  <2>2. PICK late \in {calls["late"], calls[s]} :
             /\ calls[s] \in Call /\ late \in Call \cup {None}
             /\ InPhase(s, "patch") => late = calls[s]
             /\ late = calls[s] => calls["late"] \in {None, calls[s]}
             /\ lost' = lost + 1 /\ lost < MaxLost
             /\ UNCHANGED << row, draws, restarts, overlapped >>
             /\ \/ s = "loop" /\ LoopEffect(None, late) /\ UNCHANGED install
                \/ s = "inst" /\ InstallEffect(None, late)
    BY <2>1 DEF Parts, GivesUp
  <2>3. CASE s = "loop" /\ LoopEffect(None, late) /\ UNCHANGED install
    BY <2>2, <2>3 DEF LoopEffect, KeepsTokens
  <2>4. CASE s = "inst" /\ InstallEffect(None, late)
    BY <2>2, <2>4 DEF InstallEffect
  <2> QED
    BY <2>2, <2>3, <2>4
<1>8. CASE resetToken
  <2>1. /\ gen < MaxResets /\ gen' = gen + 1 /\ issued < MaxTokens /\ issued' = issued + 1
        /\ genOf' = [genOf EXCEPT ![issued + 1] = gen + 1]
        /\ reg' = issued + 1 /\ SetTok(None) /\ again' = FALSE
        /\ UNCHANGED << calls, agent, inst, scriptTok, installs, lost, restarts >>
    BY <1>8 DEF resetToken, Draw, Begins
  <2> QED
    BY <2>1
<1>9. CASE getInstallScript
  BY <1>9 DEF getInstallScript
<1>10. CASE InstallWrite
  <2>1. WritesInstall
    BY <1>0, <1>10, InstallWriteStep
  <2> QED
    BY <2>1 DEF WritesInstall, Becomes, NewCall
<1>11. CASE InstallRestart
  <2>1. Starts
    BY <1>0, <1>11, StartStep DEF Parts, InstallRestart
  <2> QED
    BY <2>1, <1>11 DEF Starts, InstallRestart
<1>12. CASE Crash
  <2>1. Starts
    BY <1>0, <1>12, StartStep DEF Parts, Crash
  <2> QED
    BY <2>1, <1>12 DEF Starts, Crash
<1>13. CASE RetryDue
  BY <1>13 DEF RetryDue
<1>14. CASE Poll
  <2>1. Polls
    BY <1>0, <1>14, PollStep
  <2> QED
    BY <2>1 DEF Polls, Becomes, NewCall
<1>15. CASE UNCHANGED vars
  BY <1>15 DEF vars
<1> QED
  BY <1>1, <1>2, <1>3, <1>4, <1>5, <1>6, <1>7, <1>8, <1>9, <1>10, <1>11, <1>12, <1>13, <1>14, <1>15
     DEF Next, Handler

\* The initial state, a row with its first reg_token.
LEMMA Initially == Init => IInv
<1>1. Init => FlagsOK
  BY Zenon DEF Init, FlagsOK
<1>2. Init => RowOK /\ AgentOK
  BY ConstantsAssumption DEF ConstantsAssumption, Init, RowOK, AgentOK, Tokens
<1>3. Init => DrawnInv /\ AgentInv /\ PatchInv /\ RevokedStaysRevoked
  BY DEF Init, Slots, DrawnInv, Drawn, Tokens, AgentInv, PatchInv, Pending, InPhase, Sent, RevokedStaysRevoked
<1> QED
  BY <1>1, <1>2, <1>3 DEF IInv, TypeOK

\* The invariant holds in every reachable state.
LEMMA Inductive == Spec => []IInv
<1>1. IInv /\ [Next]_vars => IInv'
  <2> SUFFICES ASSUME IInv, [Next]_vars PROVE IInv'
    OBVIOUS
  <2>1. FlagsOK'
    BY FlagsNext DEF IInv, TypeOK
  <2> QED
    BY <2>1, PartsNext DEF IInv, TypeOK, Parts
<1> QED
  BY <1>1, Initially, PTL DEF Spec

-----------------------------------------------------------------------------
(* The exchange of the tokens, while no handlers overlap. *)

\* What has overlapped has overlapped.
LEMMA OverlapStays == ASSUME [Next]_vars, ~overlapped' PROVE ~overlapped
<1> USE DEF row, draws, agent, install, counts
<1>1. ASSUME NEW s \in Slots, Reject(s) PROVE ~overlapped
  BY <1>1, Zenon DEF Reject
<1>2. ASSUME NEW s \in Slots, RegisterLookup(s) PROVE ~overlapped
  BY <1>2, Zenon DEF RegisterLookup, Begins
<1>3. ASSUME NEW s \in Slots, RegisterPatch(s) PROVE ~overlapped
  BY <1>3, Zenon DEF RegisterPatch
<1>4. ASSUME NEW s \in Slots, ConfigLookup(s) PROVE ~overlapped
  BY <1>4, Zenon DEF ConfigLookup, Begins
<1>5. ASSUME NEW s \in Slots, ConfigPatch(s) PROVE ~overlapped
  BY <1>5, Zenon DEF ConfigPatch
<1>6. ASSUME NEW s \in Slots, Deliver(s) PROVE ~overlapped
  BY <1>6, Zenon DEF Deliver
<1>7. ASSUME NEW s \in Slots, GiveUp(s) PROVE ~overlapped
  BY <1>7, Zenon DEF GiveUp
<1>8. CASE resetToken
  BY <1>8, Zenon DEF resetToken, Begins
<1>9. CASE getInstallScript
  BY <1>9, Zenon DEF getInstallScript
<1>10. CASE InstallWrite
  BY <1>10, Zenon DEF InstallWrite
<1>11. CASE InstallRestart
  BY <1>11, Zenon DEF InstallRestart
<1>12. CASE Crash
  BY <1>12, Zenon DEF Crash
<1>13. CASE RetryDue
  BY <1>13, Zenon DEF RetryDue
<1>14. CASE Poll
  BY <1>14, Zenon DEF Poll
<1>15. CASE UNCHANGED vars
  BY <1>15, Zenon DEF vars
<1> QED
  BY <1>1, <1>2, <1>3, <1>4, <1>5, <1>6, <1>7, <1>8, <1>9, <1>10, <1>11, <1>12, <1>13, <1>14, <1>15
     DEF Next, Handler

\* A handler that begins without overlapping begins alone.
LEMMA BeginsAlone ==
    ASSUME Begins, ~overlapped' PROVE \A r \in Slots : ~InPhase(r, "patch")
BY Zenon DEF Begins

\* A handler that is half done keeps the row to itself; what the agent knows of the last reset's
\* tokens stays in step with the row.
LEMMA ExchangeNext == ASSUME IInv, ExchangeInv, [Next]_vars PROVE ExchangeInv'
<1> SUFFICES ASSUME ~overlapped' PROVE Exchange'
  BY DEF ExchangeInv
<1>0. FlagsOK /\ RowOK /\ AgentOK /\ DrawnInv /\ AgentInv /\ PatchInv /\ RevokedStaysRevoked
  BY DEF IInv, TypeOK
<1>a. Half /\ RowIsCurrent /\ AnswersCurrent /\ KnownIsStored /\ InstalledOnce /\ FileCurrent
  BY OverlapStays DEF ExchangeInv, Exchange
<1> USE <1>0, <1>a, CallFields, NoTokens, Drawing
    DEF Exchange, Half, RowIsCurrent, AnswersCurrent, KnownIsStored, InstalledOnce, Unused, FileCurrent,
        RowOK, AgentOK, AgentInv, DrawnInv, Calls, Slots, InPhase, Sent, SetTok,
        row, draws, agent, install, counts
<1>1. ASSUME NEW s \in Slots, Reject(s) PROVE Exchange'
  <2>1. Rejects(s)
    BY <1>0, <1>1, RejectStep
  <2> QED
    BY <2>1 DEF Rejects, Becomes, NewCall
<1>2. ASSUME NEW s \in Slots, RegisterLookup(s) PROVE Exchange'
  <2>1. LooksUpRegister(s)
    BY <1>0, <1>2, RegisterLookupStep
  <2>2. \A r \in Slots : ~InPhase(r, "patch")
    BY <2>1, BeginsAlone DEF LooksUpRegister
  <2> QED
    BY <2>1, <2>2 DEF LooksUpRegister, Becomes, NewCall
<1>3. ASSUME NEW s \in Slots, RegisterPatch(s) PROVE Exchange'
  <2>1. PatchesRegister(s)
    BY <1>0, <1>3, RegisterPatchStep
  <2> QED
    BY <2>1 DEF PatchesRegister, Becomes, NewCall, PatchInv, Pending
<1>4. ASSUME NEW s \in Slots, ConfigLookup(s) PROVE Exchange'
  <2>1. LooksUpConfig(s)
    BY <1>0, <1>4, ConfigLookupStep
  <2>2. \A r \in Slots : ~InPhase(r, "patch")
    BY <2>1, BeginsAlone DEF LooksUpConfig
  <2> QED
    BY <2>1, <2>2 DEF LooksUpConfig, Becomes, NewCall
<1>5. ASSUME NEW s \in Slots, ConfigPatch(s) PROVE Exchange'
  <2>1. PatchesConfig(s)
    BY <1>0, <1>5, ConfigPatchStep
  <2> QED
    BY <2>1 DEF PatchesConfig, Becomes, NewCall
<1>6. ASSUME NEW s \in Slots, Deliver(s) PROVE Exchange'
  <2>1. Delivers(s)
    BY <1>0, <1>6, DeliverStep
  <2>2. calls[s].val \in Tokens \cup {OK, None} /\ UNCHANGED << row, draws, counts >>
    BY <2>1, CallFields DEF Delivers
  <2>3. CASE s = "loop" /\ LoopEffect(calls[s].val, calls["late"]) /\ UNCHANGED install
    BY <2>1, <2>2, <2>3 DEF Delivers, LoopEffect, KeepsTokens
  <2>4. CASE s = "inst" /\ InstallEffect(calls[s].val, calls["late"])
    BY <2>1, <2>2, <2>4 DEF Delivers, InstallEffect
  <2>5. CASE /\ s = "late" /\ UNCHANGED << agent, install >>
             /\ calls' \in Calls /\ calls'[s] = None
             /\ \A r \in Slots \ {s} : calls'[r] = calls[r]
    BY <2>1, <2>2, <2>5 DEF Delivers
  <2> QED
    BY <2>1, <2>3, <2>4, <2>5, Zenon DEF Delivers
<1>7. ASSUME NEW s \in Slots, GiveUp(s) PROVE Exchange'
  <2>1. GivesUp(s)
    BY <1>0, <1>7, GiveUpStep
  <2>2. PICK late \in {calls["late"], calls[s]} :
             /\ calls[s] \in Call /\ late \in Call \cup {None}
             /\ InPhase(s, "patch") => late = calls[s]
             /\ late = calls[s] => calls["late"] \in {None, calls[s]}
             /\ lost' = lost + 1 /\ lost < MaxLost
             /\ UNCHANGED << row, draws, restarts, overlapped >>
             /\ \/ s = "loop" /\ LoopEffect(None, late) /\ UNCHANGED install
                \/ s = "inst" /\ InstallEffect(None, late)
    BY <2>1 DEF GivesUp
  <2>3. CASE s = "loop" /\ LoopEffect(None, late) /\ UNCHANGED install
    BY <2>2, <2>3 DEF LoopEffect, KeepsTokens
  <2>4. CASE s = "inst" /\ InstallEffect(None, late)
    BY <2>2, <2>4 DEF InstallEffect
  <2> QED
    BY <2>2, <2>3, <2>4
<1>8. CASE resetToken
  <2>2. \A r \in Slots : ~InPhase(r, "patch")
    BY <1>8, BeginsAlone DEF resetToken
  <2> QED
    BY <1>8, <2>2 DEF resetToken, Draw
<1>9. CASE getInstallScript
  BY <1>9 DEF getInstallScript
<1>10. CASE InstallWrite
  <2>1. WritesInstall
    BY <1>0, <1>10, InstallWriteStep
  <2> QED
    BY <2>1 DEF WritesInstall, Becomes, NewCall
<1>11. CASE InstallRestart
  <2>1. Starts
    BY <1>0, <1>11, StartStep DEF InstallRestart
  <2> QED
    BY <2>1, <1>11 DEF Starts, InstallRestart
<1>12. CASE Crash
  <2>1. Starts
    BY <1>0, <1>12, StartStep DEF Crash
  <2> QED
    BY <2>1, <1>12 DEF Starts, Crash
<1>13. CASE RetryDue
  BY <1>13 DEF RetryDue
<1>14. CASE Poll
  <2>1. Polls
    BY <1>0, <1>14, PollStep
  <2> QED
    BY <2>1 DEF Polls, Becomes, NewCall
<1>15. CASE UNCHANGED vars
  BY <1>15 DEF vars
<1> QED
  BY <1>1, <1>2, <1>3, <1>4, <1>5, <1>6, <1>7, <1>8, <1>9, <1>10, <1>11, <1>12, <1>13, <1>14, <1>15
     DEF Next, Handler

\* The whole invariant of the exchange.
LEMMA ExchangeAlways == Spec => []ExchangeInv
<1>1. Init => ExchangeInv
  BY NoTokens, ConstantsAssumption DEF ConstantsAssumption, Init, ExchangeInv, Exchange,
     Half, RowIsCurrent, AnswersCurrent, KnownIsStored, InstalledOnce,
     Unused, FileCurrent, InPhase, Sent, Slots, Tokens
<1>2. IInv /\ ExchangeInv /\ [Next]_vars => ExchangeInv'
  BY ExchangeNext
<1> QED
  BY <1>1, <1>2, Inductive, PTL DEF Spec

-----------------------------------------------------------------------------
\* Every variable has its type, and the reg_token is never the agent_token.
THEOREM TypeCorrect == Spec => []TypeOK
<1>1. IInv => TypeOK
  BY DEF IInv
<1> QED
  BY <1>1, Inductive, PTL

\* However register, getConfig and resets interleave, whatever answers are lost and however often
\* the loop restarts: an agent_token that was replaced or revoked never authenticates again.
THEOREM Revoked == Spec => []RevokedStaysRevoked
<1>1. IInv => RevokedStaysRevoked
  BY DEF IInv
<1> QED
  BY <1>1, Inductive, PTL

\* "A lost HTTP response doesn't brick the agent", for any number of lost answers, restarts, failing
\* writes, installations and resets: config.env holds a token the hub still takes, or one from before
\* the last reset, unless handlers have overlapped, the last write of config.env failed or the row's
\* reg_token was installed twice.
THEOREM AlwaysRecoverable == Spec => []Recoverable
<1>1. ExchangeInv => Recoverable
  BY DEF ExchangeInv, Exchange, FileCurrent, Recoverable, Taken
<1> QED
  BY <1>1, ExchangeAlways, PTL

\* Unless handlers have overlapped, the agent_token of the row was issued for the last reset.
THEOREM CurrentToken == Spec => []CurrentTokenOnly
<1>1. ExchangeInv => CurrentTokenOnly
  BY DEF ExchangeInv, Exchange, RowIsCurrent, CurrentTokenOnly
<1> QED
  BY <1>1, ExchangeAlways, PTL
=============================================================================
